----------------------------- MODULE UartSender -----------------------------
(***************************************************************************)
(* UartSender (Device 2 UART2 and Device 3 UART3): a packet queue shared   *)
(* by two tasks with no lock.                                              *)
(*                                                                         *)
(* uartBridgeTask enqueues; senderTask runs processSendQueue().  Both are  *)
(* pinned to core 0 and the bridge task has the higher priority, so an     *)
(* enqueue() is one step for the sender task, while the sender task can be *)
(* interrupted between any two of its reads and writes.  The only thing    *)
(* enqueue() can wait for is the mutex of a memory pool, and the sender    *)
(* task, when it holds it, goes on only to the end of that critical        *)
(* section, which is a step of its own here.                               *)
(*                                                                         *)
(* processSendQueue() keeps the pointer item to the front of the deque     *)
(* across these points.  If enqueue() evicts that packet meanwhile, item   *)
(* points to a slot that was popped after free(): its data is NULL and its *)
(* size 0, its sendOffset what it was.  (That the slot's block is not      *)
(* reused in the few microseconds until the sender task is back is an      *)
(* assumption in the program's favour.)                                    *)
(*                                                                         *)
(* No code sets hints.interPacketGap, so the gap test is left out.         *)
(***************************************************************************)
EXTENDS UnlockedSender

CONSTANT TxSpace      \* the most the driver's TX buffer has free

ASSUME UartAssumption == TxSpace \in Nat \ {0} /\ TxSpace < SizeMod

VARIABLES
    itemOffset,  \* item->sendOffset
    toSend,      \* local toSend
    source,      \* the data pointer passed to sendDirect()
    itemSize,    \* item->packet.size as loaded for the subtraction
    bytesRead    \* currentQueueBytes as loaded for the subtraction

(* item is 0 before the first packet; wire has records [id, from, len, intact]. *)
senderVars == <<senderPc, item, itemOffset, toSend, source, itemSize,
                bytesRead>>

vars == <<queueVars, senderVars, offered, wire>>

Idle ==
    /\ senderPc = "idle"
    /\ item = 0
    /\ itemOffset = 0
    /\ toSend = 0
    /\ source = NULL
    /\ itemSize = 0
    /\ bytesRead = 0

Init == QueueInit /\ Idle /\ offered = 0 /\ wire = <<>>

-----------------------------------------------------------------------------
(* uartBridgeTask: PacketSender::enqueue(), here in one step.              *)

(* Mutant: the copy fails after the eviction.                              *)
EvictThenFail(size) ==
    /\ packetQueue' = Tail(packetQueue)
    /\ currentQueueBytes' = BytesWithoutFront
    /\ live' = live \ {Head(packetQueue).id}
    /\ totalDropped' = totalDropped + 2
    /\ UNCHANGED <<maxQueueDepth, accepted, streamEnd>>

PushAfterEviction(size) ==
    /\ Push(Tail(packetQueue), BytesWithoutFront,
            live \ {Head(packetQueue).id}, size)
    /\ totalDropped' = totalDropped + 1

Enqueue(size) ==
    /\ offered < MaxOffers
    /\ senderPc # "panic"
    /\ offered' = offered + 1
    /\ IF WillAccept(size)
       THEN /\ Push(packetQueue, currentQueueBytes, live, size)
            /\ UNCHANGED totalDropped
       ELSE IF packetQueue # <<>>
       THEN PushAfterEviction(size)
       ELSE /\ totalDropped' = totalDropped + 1
            /\ UNCHANGED <<packetQueue, currentQueueBytes, maxQueueDepth,
                           accepted, streamEnd, live>>
    /\ UNCHANGED <<totalSent, senderVars, wire>>

-----------------------------------------------------------------------------
(* senderTask: processSendQueue().                                         *)

ItemQueued == packetQueue # <<>> /\ Head(packetQueue).id = item

(* What *item holds now.                                                   *)
ItemData == IF ItemQueued THEN Head(packetQueue).data ELSE NULL
ItemSize == IF ItemQueued THEN Head(packetQueue).size ELSE 0

SenderGoes(from, to) ==
    /\ senderPc = from
    /\ senderPc' = to

SenderCall ==
    /\ SenderGoes("idle", "test")
    /\ UNCHANGED <<queueVars, item, itemOffset, toSend, source, itemSize,
                   bytesRead, offered, wire>>

(* The loop test; the UART driver may or may not have room.                *)
SenderStops ==
    /\ SenderGoes("test", "idle")
    /\ UNCHANGED <<queueVars, item, itemOffset, toSend, source, itemSize,
                   bytesRead, offered, wire>>

SenderFront ==
    /\ SenderGoes("test", "measure")
    /\ packetQueue # <<>>
    /\ item' = Head(packetQueue).id
    /\ itemOffset' = Head(packetQueue).sendOffset
    /\ UNCHANGED <<queueVars, toSend, source, itemSize, bytesRead, offered,
                   wire>>

(* Mutant: a packet waits until all of it fits, and then some.             *)
MeasureWhole(space) ==
    LET remaining == SizeSub(ItemSize, itemOffset) IN
    /\ toSend' = IF remaining < space THEN remaining ELSE 0
    /\ SenderGoes("measure", IF toSend' = 0 THEN "idle" ELSE "load")
    /\ UNCHANGED <<queueVars, item, itemOffset, source, itemSize, bytesRead,
                   offered, wire>>

(* remaining = size - sendOffset, a size_t; toSend is what of it fits.     *)
SenderMeasure(space) ==
    LET remaining == SizeSub(ItemSize, itemOffset) IN
    /\ toSend' = IF remaining < space THEN remaining ELSE space
    /\ SenderGoes("measure", IF toSend' = 0 THEN "idle" ELSE "load")
    /\ UNCHANGED <<queueVars, item, itemOffset, source, itemSize, bytesRead,
                   offered, wire>>

(* The argument item->packet.data + item->sendOffset.                      *)
SenderLoad ==
    /\ SenderGoes("load", "write")
    /\ source' = ItemData
    /\ UNCHANGED <<queueVars, item, itemOffset, toSend, itemSize, bytesRead,
                   offered, wire>>

(* uart_write_bytes() refuses a null pointer, reads whatever any other      *)
(* pointer names, and faults on an offset from null.                        *)
SenderWrite ==
    /\ senderPc = "write"
    /\ IF source # NULL
       THEN /\ senderPc' = "advance"
            /\ wire' = Append(wire, [id |-> item, from |-> itemOffset,
                                     len |-> toSend,
                                     intact |-> source \in live])
       ELSE /\ senderPc' = IF itemOffset = 0 THEN "idle" ELSE "panic"
            /\ UNCHANGED wire
    /\ UNCHANGED <<queueVars, item, itemOffset, toSend, source, itemSize,
                   bytesRead, offered>>

(* Mutant: the progress is kept in a local, not in the queue.              *)
AdvanceLocally ==
    /\ itemOffset' = itemOffset + toSend
    /\ SenderGoes("advance",
                  IF itemOffset' >= ItemSize THEN "count" ELSE "test")
    /\ UNCHANGED <<queueVars, item, toSend, source, itemSize, bytesRead,
                   offered, wire>>

(* sendOffset += sent, and the test whether that was all.                  *)
SenderAdvance ==
    /\ itemOffset' = itemOffset + toSend
    /\ SenderGoes("advance",
                  IF itemOffset' >= ItemSize THEN "count" ELSE "test")
    /\ packetQueue' =
           IF ItemQueued
           THEN [packetQueue EXCEPT ![1].sendOffset = itemOffset']
           ELSE packetQueue
    /\ UNCHANGED <<currentQueueBytes, totalSent, totalDropped, maxQueueDepth,
                   accepted, streamEnd, live, item, toSend, source, itemSize,
                   bytesRead, offered, wire>>

(* totalSent++, then currentQueueBytes -= item->packet.size: two loads and *)
(* a store.                                                                *)
SenderCount ==
    /\ SenderGoes("count", "fetch")
    /\ totalSent' = totalSent + 1
    /\ itemSize' = ItemSize
    /\ UNCHANGED <<packetQueue, currentQueueBytes, totalDropped,
                   maxQueueDepth, accepted, streamEnd, live, item,
                   itemOffset, toSend, source, bytesRead, offered, wire>>

SenderFetch ==
    /\ SenderGoes("fetch", "store")
    /\ bytesRead' = currentQueueBytes
    /\ UNCHANGED <<queueVars, item, itemOffset, toSend, source, itemSize,
                   offered, wire>>

SenderStore ==
    /\ SenderGoes("store", "free")
    /\ currentQueueBytes' = SizeSub(bytesRead, itemSize)
    /\ UNCHANGED <<packetQueue, totalSent, totalDropped, maxQueueDepth,
                   accepted, streamEnd, live, item, itemOffset, toSend,
                   source, itemSize, bytesRead, offered, wire>>

(* item->packet.free(): the block goes back to its pool ...                *)
SenderFree ==
    /\ SenderGoes("free", IF ItemData = NULL THEN "pop" ELSE "clear")
    /\ live' = live \ {ItemData}
    /\ UNCHANGED <<packetQueue, currentQueueBytes, totalSent, totalDropped,
                   maxQueueDepth, accepted, streamEnd, item, itemOffset,
                   toSend, source, itemSize, bytesRead, offered, wire>>

(* ... and the packet's fields are cleared.                                *)
SenderClear ==
    /\ SenderGoes("clear", "pop")
    /\ packetQueue' =
           IF ItemQueued
           THEN [packetQueue EXCEPT ![1].data = NULL, ![1].size = 0]
           ELSE packetQueue
    /\ UNCHANGED <<currentQueueBytes, totalSent, totalDropped, maxQueueDepth,
                   accepted, streamEnd, live, item, itemOffset, toSend,
                   source, itemSize, bytesRead, offered, wire>>

(* packetQueue.pop_front(): whichever packet is at the front now.          *)
SenderPop ==
    /\ SenderGoes("pop", "test")
    /\ packetQueue' = Tail(packetQueue)
    /\ UNCHANGED <<currentQueueBytes, totalSent, totalDropped, maxQueueDepth,
                   accepted, streamEnd, live, item, itemOffset, toSend,
                   source, itemSize, bytesRead, offered, wire>>

-----------------------------------------------------------------------------
(* A panic restarts the device: every variable starts over, except the      *)
(* bound on what one behaviour offers.                                      *)
Reboot ==
    /\ senderPc = "panic"
    /\ packetQueue' = <<>> /\ currentQueueBytes' = 0 /\ totalSent' = 0
    /\ totalDropped' = 0 /\ maxQueueDepth' = 0 /\ accepted' = 0
    /\ streamEnd' = 0 /\ live' = {}
    /\ senderPc' = "idle" /\ item' = 0 /\ itemOffset' = 0 /\ toSend' = 0
    /\ source' = NULL /\ itemSize' = 0 /\ bytesRead' = 0 /\ wire' = <<>>
    /\ UNCHANGED offered

Bridge == \E size \in OfferedSizes : Enqueue(size)

Measure == \E space \in 0..TxSpace : SenderMeasure(space)

Sender ==
    \/ SenderCall
    \/ SenderStops
    \/ SenderFront
    \/ Measure
    \/ SenderLoad
    \/ SenderWrite
    \/ SenderAdvance
    \/ SenderCount
    \/ SenderFetch
    \/ SenderStore
    \/ SenderFree
    \/ SenderClear
    \/ SenderPop

Next == Bridge \/ Sender \/ Reboot

Spec == Init /\ [][Next]_vars

(* The sender task is scheduled for ever, a panic restarts the device, and  *)
(* the UART drains: a buffer asked for room again and again has some.       *)
Fairness ==
    /\ WF_vars(Sender)
    /\ WF_vars(Reboot)
    /\ SF_vars(SenderFront)
    /\ SF_vars(\E space \in 1..TxSpace : SenderMeasure(space))

FairSpec == Spec /\ Fairness

-----------------------------------------------------------------------------
TypeOK ==
    /\ packetQueue \in Seq(Packet)
    /\ currentQueueBytes \in 0..(SizeMod - 1)
    /\ totalSent \in Nat
    /\ totalDropped \in Nat
    /\ maxQueueDepth \in Nat
    /\ accepted \in Nat
    /\ streamEnd \in Nat
    /\ live \in SUBSET Nat
    /\ senderPc \in {"idle", "test", "measure", "load", "write", "advance",
                     "count", "fetch", "store", "free", "clear", "pop",
                     "panic"}
    /\ item \in Nat
    /\ itemOffset \in Nat
    /\ toSend \in Nat
    /\ source \in Nat
    /\ itemSize \in Nat
    /\ bytesRead \in 0..(SizeMod - 1)
    /\ offered \in Nat
    /\ wire \in Seq([id: Nat, from: Nat, len: Nat, intact: BOOLEAN])

(* The queue never exceeds maxQueuePackets, whatever the races do to the    *)
(* byte counter: every eviction makes room for exactly one push.            *)
DepthBounded ==
    /\ Len(packetQueue) <= maxQueueDepth
    /\ maxQueueDepth <= MaxQueuePackets

(* pop_front() on an empty deque is undefined.  The sender task never does  *)
(* it, although its packet may be long gone when it pops: enqueue() takes   *)
(* no packet away without putting another one there.                        *)
PopsFromNonEmpty ==
    senderPc \in {"measure", "load", "write", "advance", "count", "fetch",
                  "store", "free", "clear", "pop"} => packetQueue # <<>>

(* What an unlocked queue keeps: its limit, and never a pop of nothing.     *)
QueueHolds == DepthBounded /\ PopsFromNonEmpty

(* The bytes on the UART come in the order of acceptance, each packet from  *)
(* its first byte on, and none is sent twice, even after an eviction.       *)
WireInOrder ==
    \A i \in 1..Len(wire) :
        IF i > 1 /\ wire[i - 1].id = wire[i].id
        THEN wire[i].from = wire[i - 1].from + wire[i - 1].len
        ELSE /\ wire[i].from = 0
             /\ i > 1 => wire[i - 1].id < wire[i].id

(* An enqueue() that makes room by dropping the front packet.              *)
Evicts ==
    /\ packetQueue # <<>>
    /\ \E size \in OfferedSizes : ~WillAccept(size) /\ Enqueue(size)

(* dropOldestPacket() has a "safety check: skip already-freed packets": it  *)
(* gives back only memory the packet still owns.                            *)
FreesOnce ==
    [][Evicts => Head(packetQueue).data \in live \cup {NULL}]_vars

(* What is written to the UART comes from memory the packet still owns.     *)
WritesOwnMemory == \A i \in 1..Len(wire) : wire[i].intact

(* No null pointer is dereferenced.                                         *)
NoPanic == senderPc # "panic"

(* CHANGELOG.md: "Thread-safe design".  The tasks free and read only memory *)
(* that the queue owns.                                                     *)
OwnsMemory == FreesOnce /\ [](WritesOwnMemory /\ NoPanic)

(* Every queued packet leaves the queue, sent or evicted.                   *)
QueueDrains ==
    \A n \in 1..MaxOffers :
        (\E i \in 1..Len(packetQueue) : packetQueue[i].id = n)
            ~> ~(\E i \in 1..Len(packetQueue) : packetQueue[i].id = n)
=============================================================================
