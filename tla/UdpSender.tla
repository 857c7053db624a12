----------------------------- MODULE UdpSender -----------------------------
(***************************************************************************)
(* UdpSender (Device 4): packets are gathered in batches and leave as      *)
(* datagrams.                                                              *)
(*                                                                         *)
(* As a network bridge or logger (role "queue") it has the unlocked queue  *)
(* of UartSender: uartBridgeTask enqueues, in one step for the sender      *)
(* task, which runs processSendQueue() and keeps the pointer item to the   *)
(* front while it batches.  A slot that enqueue() evicts meanwhile has     *)
(* size 0 and no data.  What copies into a batch is one step each: packet  *)
(* by packet, not byte by byte.                                            *)
(* As the SBUS output (role "sbus") it gets frames by sendDirect() from    *)
(* the SBUS router and fills the same batch; processSenders() leaves its   *)
(* queue alone.                                                            *)
(*                                                                         *)
(* Times are in ms.  Only the differences to the clock that the code looks *)
(* at are kept: the age of the batches and the time since the last frame   *)
(* was let through.  At least one target address is configured.            *)
(***************************************************************************)
EXTENDS UdpState

atomicVars == <<atomicBatch, atomicBatchSize, atomicBatchPackets, atomicAge>>
rawVars == <<rawBatch, rawBatchSize, rawAge>>
callVars == <<clearing, bulk, lastBulkMode>>
itemVars == <<item, itemWhole>>
setup == <<role, batching, period, rate>>
sbusVars == <<sinceSend, spanSent>>
vars == <<queueVars, setup, ready, wholes, offered, senderPc, itemVars, callVars,
          atomicVars, rawVars, sbusVars, wire>>

(* setSendRate() *)
Interval == 1000 \div rate

Init ==
    /\ QueueInit
    /\ role \in {"queue", "sbus"} /\ batching \in BOOLEAN /\ ready \in BOOLEAN
    /\ period \in Periods /\ rate \in Rates
    /\ role = "queue" => period = (CHOOSE p \in Periods : TRUE) /\ rate = (CHOOSE r \in Rates : TRUE)
    /\ role = "sbus" => batching
    /\ wholes = {} /\ offered = 0 /\ senderPc = "idle" /\ item = 0 /\ itemWhole = FALSE
    /\ clearing = FALSE /\ bulk = FALSE /\ lastBulkMode = FALSE
    /\ atomicBatch = <<>> /\ atomicBatchSize = 0 /\ atomicBatchPackets = 0 /\ atomicAge = Unset
    /\ rawBatch = <<>> /\ rawBatchSize = 0 /\ rawAge = 0
    /\ sinceSend = Interval /\ spanSent = 0 /\ wire = <<>>

(* Between two calls: each asks wifiIsReady() once. *)
WifiChanges == /\ ready' = ~ready /\ senderPc = "idle"
               /\ UNCHANGED <<queueVars, setup, wholes, offered, senderPc, itemVars, callVars,
                              atomicVars, rawVars, sbusVars, wire>>

-----------------------------------------------------------------------------
(* The bridge task: enqueue().                                              *)

Enqueue(size, whole) ==
    /\ role = "queue" /\ offered < MaxOffers /\ offered' = offered + 1
    /\ \/ /\ WillAccept(size)
          /\ Push(packetQueue, currentQueueBytes, live, size)
          /\ UNCHANGED totalDropped
       \/ /\ ~WillAccept(size) /\ packetQueue # <<>>
          /\ Push(Tail(packetQueue), BytesWithoutFront, live \ {Head(packetQueue).id}, size)
          /\ totalDropped' = totalDropped + 1
       \/ /\ ~WillAccept(size) /\ packetQueue = <<>>
          /\ totalDropped' = totalDropped + 1
          /\ UNCHANGED <<packetQueue, currentQueueBytes, maxQueueDepth, accepted, streamEnd, live>>
    /\ wholes' = IF whole /\ accepted' > accepted THEN wholes \cup {accepted'} ELSE wholes
    /\ UNCHANGED <<totalSent, setup, ready, senderPc, itemVars, callVars, atomicVars,
                   rawVars, sbusVars, wire>>

-----------------------------------------------------------------------------
(* The sender task: processSendQueue().                                     *)

(* Without WiFi the code asks for front() again and again, and keeps no item. *)
ItemQueued == packetQueue # <<>> /\ (clearing \/ Head(packetQueue).id = item)
ItemData == IF ItemQueued THEN Head(packetQueue).data ELSE NULL
ItemSize == IF ItemQueued THEN Head(packetQueue).size ELSE 0
Content == IF ItemData = NULL THEN <<>> ELSE <<ItemData>>

(* The batches and the wire as one record, so that a step can go through    *)
(* the calls of the code one after the other.                               *)
State == [batch |-> atomicBatch, size |-> atomicBatchSize, packets |-> atomicBatchPackets,
          age |-> atomicAge, raw |-> rawBatch, rawSize |-> rawBatchSize, rawAge |-> rawAge,
          sent |-> totalSent, wire |-> wire]
Becomes(s) ==
    /\ atomicBatch' = s.batch /\ atomicBatchSize' = s.size
    /\ atomicBatchPackets' = s.packets /\ atomicAge' = s.age
    /\ rawBatch' = s.raw /\ rawBatchSize' = s.rawSize /\ rawAge' = s.rawAge
    /\ totalSent' = s.sent /\ wire' = s.wire

(* Mutant: the buffer keeps its length. *)
FlushAndKeep(s) ==
    IF s.size = 0 THEN s
    ELSE [s EXCEPT !.packets = 0, !.sent = @ + s.packets, !.wire = @ \o s.batch]

(* flushBatch() *)
Flush(s) ==
    IF s.size = 0 THEN s
    ELSE [s EXCEPT !.batch = <<>>, !.size = 0, !.packets = 0, !.age = Unset,
                   !.sent = @ + s.packets, !.wire = @ \o s.batch]

(* flushRawBatch() *)
FlushRaw(s) ==
    IF s.rawSize = 0 THEN s
    ELSE [s EXCEPT !.raw = <<>>, !.rawSize = 0, !.sent = @ + 1, !.wire = @ \o s.raw]

Older(age, gap, limit) ==
    IF age = Unset THEN Unset ELSE IF age + gap < limit THEN age + gap ELSE limit

SenderGoes(from, to) == role = "queue" /\ senderPc = from /\ senderPc' = to
SenderRest == <<setup, ready, wholes, offered, sbusVars>>

(* The call: the clock, and what a change of the mode flushes. *)
SenderCall(gap, bulkMode) ==
    /\ SenderGoes("idle", "next")
    /\ clearing' = ~ready /\ bulk' = bulkMode
    /\ LET s == [State EXCEPT !.age = Older(@, gap, BATCH_TIMEOUT[TRUE]),
                              !.rawAge = Older(@, gap, RAW_TIMEOUT)] IN
       IF ~ready THEN Becomes(s) /\ UNCHANGED lastBulkMode
       ELSE /\ Becomes(IF lastBulkMode /\ ~bulkMode THEN FlushRaw(Flush(s)) ELSE s)
            /\ lastBulkMode' = bulkMode
    /\ UNCHANGED <<packetQueue, currentQueueBytes, totalDropped, maxQueueDepth, accepted,
                   streamEnd, live, itemVars, SenderRest>>

SenderFront ==
    /\ SenderGoes("next", IF clearing THEN "free" ELSE "fit")
    /\ packetQueue # <<>>
    /\ IF clearing THEN UNCHANGED itemVars
       ELSE item' = Head(packetQueue).id /\ itemWhole' = (item' \in wholes)
    /\ UNCHANGED <<queueVars, callVars, atomicVars, rawVars, wire, SenderRest>>

Quiet == <<packetQueue, currentQueueBytes, totalDropped, maxQueueDepth, accepted,
           streamEnd, live, itemVars, callVars, SenderRest>>

(* Mutant: the room is not checked. *)
FitBlindly == /\ SenderGoes("fit", "add") /\ Becomes(State) /\ UNCHANGED Quiet

(* Room for the packet in its batch; without batching, order with the batch. *)
SenderFit ==
    /\ SenderGoes("fit", "add")
    /\ Becomes(CASE itemWhole /\ (~batching \/ atomicBatchSize + ItemSize > MTU_SIZE) -> Flush(State)
                 [] ~itemWhole /\ rawBatchSize + ItemSize > MTU_SIZE -> FlushRaw(State)
                 [] OTHER -> State)
    /\ UNCHANGED Quiet

Full(s) == \/ s.packets >= BATCH_PACKETS[bulk]
           \/ s.size >= BATCH_BYTES[bulk]
           \/ s.age >= BATCH_TIMEOUT[bulk]

SenderAdd ==
    /\ SenderGoes("add", "free")
    /\ LET whole == [State EXCEPT !.batch = @ \o Content, !.size = @ + ItemSize,
                                  !.packets = @ + 1, !.age = IF @ = Unset THEN 0 ELSE @]
       IN  Becomes(
             CASE itemWhole /\ ~batching -> [State EXCEPT !.sent = @ + 1, !.wire = @ \o Content]
               [] itemWhole /\ batching -> IF Full(whole) THEN Flush(whole) ELSE whole
               [] OTHER -> [State EXCEPT !.raw = @ \o Content, !.rawSize = @ + ItemSize,
                                         !.rawAge = 0])
    /\ UNCHANGED Quiet

(* The bytes, the block and the packet's fields.  (The subtraction is one    *)
(* step here; UartSender shows what an enqueue() inside it does.)           *)
SenderFree ==
    /\ SenderGoes("free", "pop")
    /\ currentQueueBytes' = SizeSub(currentQueueBytes, ItemSize)
    /\ live' = live \ {ItemData}
    /\ packetQueue' = IF ItemQueued
                      THEN [packetQueue EXCEPT ![1].data = NULL, ![1].size = 0]
                      ELSE packetQueue
    /\ UNCHANGED <<totalSent, totalDropped, maxQueueDepth, accepted, streamEnd, itemVars,
                   callVars, atomicVars, rawVars, wire, SenderRest>>

(* pop_front(): whichever packet is at the front now. *)
SenderPop ==
    /\ SenderGoes("pop", "next")
    /\ packetQueue' = Tail(packetQueue)
    /\ item' = 0 /\ itemWhole' = FALSE
    /\ UNCHANGED <<currentQueueBytes, totalSent, totalDropped, maxQueueDepth, accepted,
                   streamEnd, live, callVars, atomicVars, rawVars, wire, SenderRest>>

(* Mutant: a batch is only looked at when another packet comes. *)
NoTimeouts(s) == s

(* checkBatchTimeouts() *)
CheckTimeouts(s) ==
    LET t == IF s.size > 0 /\ s.age >= BATCH_TIMEOUT[bulk] THEN Flush(s) ELSE s
    IN  IF t.rawSize > 0 /\ t.rawAge >= RAW_TIMEOUT THEN FlushRaw(t) ELSE t

(* The queue is empty.  Without WiFi the batches are given up, but not the  *)
(* count of the packets in them.                                            *)
SenderDone ==
    /\ SenderGoes("next", "idle")
    /\ packetQueue = <<>>
    /\ Becomes(IF clearing
               THEN [State EXCEPT !.batch = <<>>, !.size = 0, !.age = Unset,
                                  !.raw = <<>>, !.rawSize = 0]
               ELSE CheckTimeouts(State))
    /\ clearing' = FALSE /\ bulk' = FALSE
    /\ UNCHANGED <<packetQueue, currentQueueBytes, totalDropped, maxQueueDepth, accepted,
                   streamEnd, live, itemVars, lastBulkMode, SenderRest>>

-----------------------------------------------------------------------------
(* The SBUS output: sendDirect() with a frame.                              *)

(* Mutant: the other time limit for a batch. *)
StaleInBulkTime(s) ==
    IF s.size > 0 /\ s.age >= BATCH_TIMEOUT[TRUE]
    THEN [s EXCEPT !.batch = <<>>, !.size = 0, !.packets = 0, !.age = Unset]
    ELSE s

DropStale(s) ==
    IF s.size > 0 /\ s.age >= SBUS_STALE
    THEN [s EXCEPT !.batch = <<>>, !.size = 0, !.packets = 0, !.age = Unset]
    ELSE s

Restart(since) == IF ready /\ since >= Interval THEN 0 ELSE since

(* lastSendMs, the stale batch, the room, the frame, and the third frame.    *)
(* (totalSent, which would grow without end, is not counted here.)          *)
Frame ==
    /\ role = "sbus"
    /\ LET since == Older(sinceSend, period, Interval)
           aged == [State EXCEPT !.age = Older(@, period, SBUS_STALE)]
           s == DropStale(aged)
           room == IF s.size + FrameSize > MTU_SIZE THEN Flush(s) ELSE s
           added == [room EXCEPT !.size = @ + FrameSize, !.packets = @ + 1,
                                 !.age = IF @ = Unset THEN 0 ELSE @]
           full == added.packets >= SBUS_FRAMES
           after == IF full THEN Flush(added) ELSE added
       IN  /\ sinceSend' = Restart(since)
           /\ IF ready /\ since >= Interval
              THEN /\ Becomes([after EXCEPT !.sent = totalSent])
                   /\ spanSent' = IF full THEN added.age
                                  ELSE IF room # s THEN s.age ELSE spanSent
              ELSE Becomes(aged) /\ UNCHANGED spanSent
    /\ UNCHANGED <<packetQueue, currentQueueBytes, totalDropped, maxQueueDepth, accepted,
                   streamEnd, live, setup, ready, wholes, offered, senderPc, itemVars, callVars>>

-----------------------------------------------------------------------------
Bridge == \E size \in OfferedSizes, whole \in BOOLEAN : Enqueue(size, whole)
Sender == \/ \E gap \in Gaps, bulkMode \in BOOLEAN : SenderCall(gap, bulkMode)
          \/ SenderFront \/ SenderFit \/ SenderAdd \/ SenderFree \/ SenderPop \/ SenderDone

Next == Bridge \/ Sender \/ Frame \/ WifiChanges

Spec == Init /\ [][Next]_vars

(* The sender task is scheduled every 4 ms, and the SBUS source is on. *)
FairSpec == Spec /\ WF_vars(Sender) /\ WF_vars(Frame)

-----------------------------------------------------------------------------
(* When the sources pause, every packet that is queued or in a batch leaves, *)
(* in a datagram, by eviction or with WiFi: no batch waits for a packet that *)
(* never comes.                                                              *)
Waiting == packetQueue # <<>> \/ atomicBatch # <<>> \/ rawBatch # <<>>
PacketsLeave == Waiting ~> ~Waiting

(* The time between two frames that the limiter lets through. *)
Spacing == period * ((Interval + period - 1) \div period)

(* Where the third frame comes before the first is stale, the SBUS output   *)
(* goes on sending for as long as WiFi is there: only a flush leaves the    *)
(* batch without a frame.                                                   *)
Fast == role = "sbus" /\ ready /\ 2 * Spacing < SBUS_STALE
FastRatesGoOut == <>[]Fast => []<>(atomicBatchPackets = 0)

(* The SBUS output, at rates it can serve: no old frames, and always new ones. *)
SbusServed == []FreshFrames /\ FastRatesGoOut
=============================================================================
