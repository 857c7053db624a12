--------------------------- MODULE BluetoothSender ---------------------------
(***************************************************************************)
(* The Bluetooth senders: BluetoothSender (SPP, MiniKit) and               *)
(* BluetoothBLESender (BLE), which differ only in their limits and in what *)
(* a write to the link can report.                                         *)
(*                                                                         *)
(* Two FreeRTOS tasks use one sender.  uartBridgeTask calls enqueue() for  *)
(* every packet it routes to Bluetooth; senderTask calls                   *)
(* processSendQueue() every 4 ms.  queueMutex serialises them, each side   *)
(* waits at most 5 ms for it.  The Bluetooth stack connects and            *)
(* disconnects the client at any moment.                                   *)
(*                                                                         *)
(* MaxPacketSize is the literal 512 of enqueue() and processSendQueue().   *)
(***************************************************************************)
EXTENDS PacketSender

CONSTANTS
    OfferedSizes,     \* sizes of the packets the pipeline routes here
    PartialWrites,    \* TRUE: the link may take part of a packet (BLE)
    MaxOffers         \* model bound: packets offered in one behaviour

ASSUME SenderAssumption ==
    /\ OfferedSizes \subseteq Nat
    /\ PartialWrites \in BOOLEAN
    /\ MaxOffers \in Nat

VARIABLES
    owner,        \* holder of queueMutex: "none", "bridge" or "sender"
    bridgePc,     \* "idle", "lock", "admit", "push"
    offer,        \* size of the packet in the bridge task's hands
    senderPc,     \* "idle", "lock", "write", "commit"
    connected,    \* hasClient()
    backoffDelay, \* milliseconds: 0, 1, 2, 4 or 5
    backoffOver,  \* micros() - lastSendAttempt has reached backoffDelay
    offered,      \* ghost: valid packets offered
    wire          \* ghost: what the link took: [id, sent, size]

vars == <<queueVars, owner, bridgePc, offer, senderPc, connected,
          backoffDelay, backoffOver, offered, wire>>

bridgeVars == <<bridgePc, offer, offered>>
linkVars == <<connected, backoffDelay, backoffOver, wire>>

Init ==
    /\ QueueInit
    /\ owner = "none"
    /\ bridgePc = "idle"
    /\ offer = 0
    /\ senderPc = "idle"
    /\ connected = FALSE
    /\ backoffDelay = 0
    /\ backoffOver = TRUE
    /\ offered = 0
    /\ wire = <<>>

-----------------------------------------------------------------------------
(* uartBridgeTask: enqueue(). *)

ValidSize(size) == size > 0 /\ size <= MaxPacketSize

(* A packet enqueue() rejects before it looks at the queue leaves no trace, *)
(* so only valid sizes reach the lock.                                      *)
Offer(size) ==
    /\ bridgePc = "idle"
    /\ offered < MaxOffers
    /\ ValidSize(size)
    /\ bridgePc' = "lock"
    /\ offer' = size
    /\ offered' = offered + 1
    /\ UNCHANGED <<queueVars, owner, senderPc, linkVars>>

BridgeLock ==
    /\ bridgePc = "lock"
    /\ owner = "none"
    /\ owner' = "bridge"
    /\ bridgePc' = "admit"
    /\ UNCHANGED <<queueVars, offer, offered, senderPc, linkVars>>

(* The 5 ms wait ran out while the sender task was inside the link's write. *)
BridgeLockTimeout ==
    /\ bridgePc = "lock"
    /\ owner = "sender"
    /\ totalDropped' = totalDropped + 1
    /\ bridgePc' = "idle"
    /\ UNCHANGED <<packetQueue, currentQueueBytes, totalSent, maxQueueDepth,
                   accepted, streamEnd, live, owner, offer, offered, senderPc,
                   linkVars>>

(* PacketSender::enqueue(): the packet fits, or the oldest one goes.  One   *)
(* packet is dropped, whatever the shortage; a full queue of no packets     *)
(* refuses the new one.                                                     *)
BridgeAdmit ==
    /\ bridgePc = "admit"
    /\ IF WillAccept(offer)
       THEN /\ bridgePc' = "push"
            /\ UNCHANGED <<queueVars, owner>>
       ELSE IF packetQueue # <<>>
       THEN /\ DropOldest
            /\ bridgePc' = "push"
            /\ UNCHANGED <<totalSent, maxQueueDepth, accepted, streamEnd,
                           owner>>
       ELSE /\ totalDropped' = totalDropped + 1
            /\ bridgePc' = "idle"
            /\ owner' = "none"
            /\ UNCHANGED <<packetQueue, currentQueueBytes, totalSent,
                           maxQueueDepth, accepted, streamEnd, live>>
    /\ UNCHANGED <<offer, offered, senderPc, linkVars>>

BridgePush ==
    /\ bridgePc = "push"
    /\ Push(packetQueue, currentQueueBytes, live, offer)
    /\ bridgePc' = "idle"
    /\ owner' = "none"
    /\ UNCHANGED <<totalSent, totalDropped, offer, offered, senderPc,
                   linkVars>>

-----------------------------------------------------------------------------
(* senderTask: processSendQueue(). *)

BackoffUntilReset == backoffDelay > 0  \* mutant: the clock is not read
InBackoff == backoffDelay > 0 /\ ~backoffOver

DoubledBackoff ==                      \* mutant: no upper limit
    IF backoffDelay = 0 THEN 1 ELSE 2 * backoffDelay

NextBackoff ==
    IF backoffDelay = 0 THEN 1
    ELSE IF 2 * backoffDelay < 5 THEN 2 * backoffDelay ELSE 5

SenderEnter ==
    /\ senderPc = "idle"
    /\ ~InBackoff
    /\ connected
    /\ senderPc' = "lock"
    /\ UNCHANGED <<queueVars, owner, bridgeVars, linkVars>>

(* With the mutex taken, an empty queue gives it back at once. *)
SenderLock ==
    /\ senderPc = "lock"
    /\ owner = "none"
    /\ IF packetQueue = <<>>
       THEN senderPc' = "idle" /\ owner' = owner
       ELSE senderPc' = "write" /\ owner' = "sender"
    /\ UNCHANGED <<queueVars, bridgeVars, linkVars>>

SenderLockTimeout ==
    /\ senderPc = "lock"
    /\ owner = "bridge"
    /\ senderPc' = "idle"
    /\ UNCHANGED <<queueVars, owner, bridgeVars, linkVars>>

Corrupt(packet) ==
    packet.data = NULL \/ packet.size = 0 \/ packet.size > MaxPacketSize

(* The link takes a packet while the client is there; a BLE write can stop  *)
(* after some of its notifications.                                         *)
WriteResults(size) ==
    {0} \cup (IF connected
              THEN (IF PartialWrites THEN 1..size ELSE {size})
              ELSE {})

(* Mutant: the mutex is given back before the commit.                      *)
WriteTakenUnlocked(packet, sent) ==
    /\ backoffDelay' = 0
    /\ wire' = Append(wire, [id |-> packet.id, sent |-> sent,
                             size |-> packet.size])
    /\ senderPc' = "commit"
    /\ owner' = "none"
    /\ UNCHANGED backoffOver

WriteTaken(packet, sent) ==
    /\ backoffDelay' = 0
    /\ wire' = Append(wire, [id |-> packet.id, sent |-> sent,
                             size |-> packet.size])
    /\ senderPc' = "commit"
    /\ UNCHANGED <<owner, backoffOver>>

WriteRefused ==
    /\ backoffDelay' = NextBackoff
    /\ backoffOver' = FALSE
    /\ senderPc' = "idle"
    /\ owner' = "none"
    /\ UNCHANGED wire

(* The write of the front packet and the result the code acts on.           *)
SenderWrite(sent) ==
    /\ senderPc = "write"
    /\ LET packet == Head(packetQueue) IN
       IF Corrupt(packet)
       THEN /\ DropOldest
            /\ senderPc' = "idle"
            /\ owner' = "none"
            /\ UNCHANGED <<totalSent, maxQueueDepth, accepted, streamEnd,
                           backoffDelay, backoffOver, wire>>
       ELSE /\ sent \in WriteResults(packet.size)
            /\ IF sent > 0 THEN WriteTaken(packet, sent) ELSE WriteRefused
            /\ UNCHANGED queueVars
    /\ UNCHANGED <<bridgeVars, connected>>

(* commitPackets(1): whatever is at the front now is counted as sent. *)
SenderCommit ==
    /\ senderPc = "commit"
    /\ totalSent' = totalSent + 1
    /\ packetQueue' = Tail(packetQueue)
    /\ currentQueueBytes' =
           SizeSub(currentQueueBytes, Head(packetQueue).size)
    /\ live' = live \ {Head(packetQueue).id}
    /\ senderPc' = "idle"
    /\ owner' = "none"
    /\ UNCHANGED <<totalDropped, maxQueueDepth, accepted, streamEnd,
                   bridgeVars, linkVars>>

-----------------------------------------------------------------------------
(* The Bluetooth stack and the clock. *)

Connect ==
    /\ ~connected
    /\ connected' = TRUE
    /\ UNCHANGED <<queueVars, owner, bridgeVars, senderPc, backoffDelay,
                   backoffOver, wire>>

Disconnect ==
    /\ connected
    /\ connected' = FALSE
    /\ UNCHANGED <<queueVars, owner, bridgeVars, senderPc, backoffDelay,
                   backoffOver, wire>>

BackoffElapses ==
    /\ ~backoffOver
    /\ backoffOver' = TRUE
    /\ UNCHANGED <<queueVars, owner, bridgeVars, senderPc, connected,
                   backoffDelay, wire>>

-----------------------------------------------------------------------------
Bridge ==
    \/ \E size \in OfferedSizes : Offer(size)
    \/ BridgeLock
    \/ BridgeLockTimeout
    \/ BridgeAdmit
    \/ BridgePush

Write == \E sent \in 0..MaxPacketSize : SenderWrite(sent)

Sender ==
    \/ SenderEnter
    \/ SenderLock
    \/ SenderLockTimeout
    \/ Write
    \/ SenderCommit

Link == Connect \/ Disconnect \/ BackoffElapses

Next == Bridge \/ Sender \/ Link

Spec == Init /\ [][Next]_vars

(* The scheduler runs both tasks and the clock advances; a wait for the     *)
(* mutex ends one way or the other.  The one assumption about the outside   *)
(* is that a link asked again and again takes a packet some time.           *)
Fairness ==
    /\ WF_vars(BridgeLock \/ BridgeLockTimeout)
    /\ WF_vars(BridgeAdmit)
    /\ WF_vars(BridgePush)
    /\ WF_vars(SenderEnter)
    /\ WF_vars(SenderLock \/ SenderLockTimeout)
    /\ WF_vars(Write)
    /\ SF_vars(\E sent \in 1..MaxPacketSize : SenderWrite(sent))
    /\ WF_vars(SenderCommit)
    /\ WF_vars(BackoffElapses)

FairSpec == Spec /\ Fairness

-----------------------------------------------------------------------------
TypeOK ==
    /\ packetQueue \in Seq(Packet)
    /\ currentQueueBytes \in Nat
    /\ totalSent \in Nat
    /\ totalDropped \in Nat
    /\ maxQueueDepth \in Nat
    /\ accepted \in Nat
    /\ streamEnd \in Nat
    /\ live \in SUBSET Nat
    /\ owner \in {"none", "bridge", "sender"}
    /\ bridgePc \in {"idle", "lock", "admit", "push"}
    /\ offer \in Nat
    /\ senderPc \in {"idle", "lock", "write", "commit"}
    /\ connected \in BOOLEAN
    /\ backoffDelay \in {0, 1, 2, 4, 5}
    /\ backoffOver \in BOOLEAN
    /\ offered \in Nat
    /\ wire \in Seq([id: Nat, sent: Nat, size: Nat])

(* The queue never holds more than maxQueuePackets packets, although        *)
(* enqueue() checks the limit in one step and pushes in a later one, and    *)
(* the recorded high-water mark is never below the present depth.           *)
DepthBounded ==
    /\ Len(packetQueue) <= maxQueueDepth
    /\ maxQueueDepth <= MaxQueuePackets

(* currentQueueBytes is the total size of the queued packets: it is the     *)
(* length of the gapless stretch of accepted bytes the queue covers.  Were  *)
(* it to drift, willAccept() would refuse packets for ever.                 *)
QueueStart ==
    IF packetQueue = <<>> THEN streamEnd ELSE Head(packetQueue).start

Contiguous ==
    \A i \in 1..Len(packetQueue) :
        packetQueue[i].start + packetQueue[i].size =
            IF i = Len(packetQueue) THEN streamEnd
            ELSE packetQueue[i + 1].start

BytesAccounted ==
    Contiguous /\ QueueStart + currentQueueBytes = streamEnd

(* Memory: the copies not yet returned to the packet pool are exactly those *)
(* in the queue, so neither task leaks a copy or frees one it does not own. *)
NoLeak ==
    live = {packetQueue[i].id : i \in 1..Len(packetQueue)}

(* A freed, empty or oversized packet is never in the queue: the corruption *)
(* recovery of dropOldestPacket() and processSendQueue() has nothing to do. *)
NoCorruptPacket ==
    \A i \in 1..Len(packetQueue) : ~Corrupt(packetQueue[i])

(* The queue stays whole although two tasks change it and the link fails in *)
(* the middle of a packet: its limit, its byte count, its memory and its    *)
(* packets (packet_sender.h, commitPackets()).                              *)
QueueSound == DepthBounded /\ BytesAccounted /\ NoLeak /\ NoCorruptPacket

(* Every valid packet offered is queued, counted as sent, counted as        *)
(* dropped, or still in the hands of enqueue(): none disappears uncounted.  *)
InHand == IF bridgePc = "idle" THEN 0 ELSE 1

Conservation ==
    offered = totalSent + totalDropped + Len(packetQueue) + InHand

(* The packet commitPackets() removes is the one that was written, even     *)
(* though enqueue() may evict the front of the queue at any other time.     *)
CommitsWhatItSent ==
    senderPc = "commit" =>
        /\ wire # <<>>
        /\ packetQueue # <<>>
        /\ wire[Len(wire)].id = Head(packetQueue).id

(* totalSent counts each packet once: it is the number of writes the link   *)
(* took, less the one that is not committed yet.                            *)
SentOnce ==
    /\ totalSent = Len(wire) - (IF senderPc = "commit" THEN 1 ELSE 0)
    /\ \A i \in 1..Len(wire) : \A j \in 1..Len(wire) :
           i < j => wire[i].id < wire[j].id

(* What is counted is what happened: nothing is lost uncounted, and what is *)
(* counted as sent is what the link took, in order and once, although       *)
(* enqueue() may give up its wait for the mutex (bluetooth_sender.h:165) or *)
(* evict the front packet before the commit.                                *)
Delivery == Conservation /\ CommitsWhatItSent /\ SentOnce

(* While a client stays connected every queued packet leaves the queue.     *)
QueueDrains ==
    <>[]connected =>
        \A n \in 1..MaxOffers :
            (\E i \in 1..Len(packetQueue) : packetQueue[i].id = n)
                ~> ~(\E i \in 1..Len(packetQueue) : packetQueue[i].id = n)

-----------------------------------------------------------------------------
(* Between the write and the commit the front packet is already delivered.  *)
Pending == IF senderPc = "commit" THEN Tail(packetQueue) ELSE packetQueue

Channel == INSTANCE PacketChannel WITH
    held <- [i \in 1..Len(Pending) |-> Pending[i].id],
    delivered <- [i \in 1..Len(wire) |-> wire[i].id]

(* The two tasks together behave as a lossy FIFO channel.                   *)
ImplementsChannel == Channel!ChanSpec
=============================================================================
