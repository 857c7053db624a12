---------------------------- MODULE PacketSender ----------------------------
(***************************************************************************)
(* The state and the operations every packet sender inherits from          *)
(* protocols/packet_sender.h, and the packet ownership rules of            *)
(* protocols/packet_memory_pool.h (duplicate and free).                    *)
(*                                                                         *)
(* A queued packet is a record:                                            *)
(*   id          ghost: acceptance number of the copy in the queue         *)
(*   size        ParsedPacket::size; free() sets it to 0                   *)
(*   data        ParsedPacket::data, the memory of this copy, named by the *)
(*               copy's id; free() sets it to NULL                         *)
(*   sendOffset  QueuedPacket::sendOffset, bytes already on the wire       *)
(*   start       ghost: bytes ever accepted before this packet             *)
(* The bytes themselves are not modelled: no property depends on them.     *)
(*                                                                         *)
(* duplicate() always yields a copy: when a pool is exhausted it falls     *)
(* back to operator new, which aborts instead of returning null, so the    *)
(* failure branch of enqueue() is dead code and is left out.               *)
(***************************************************************************)
EXTENDS Naturals, Sequences

CONSTANTS
    MaxQueuePackets,  \* maxQueuePackets of this sender
    MaxQueueBytes,    \* maxQueueBytes of this sender
    MaxPacketSize,    \* largest packet the pipeline routes to this sender
    SizeMod           \* 2^w for the width w of size_t

ASSUME LimitsAssumption ==
    /\ MaxQueuePackets \in Nat \ {0}
    /\ MaxQueueBytes \in Nat \ {0}
    /\ MaxPacketSize \in Nat \ {0}
    /\ SizeMod \in Nat
    /\ SizeMod > MaxQueueBytes
    /\ SizeMod > MaxQueuePackets * MaxPacketSize

VARIABLES
    packetQueue,        \* std::deque<QueuedPacket>
    currentQueueBytes,  \* size_t
    totalSent,
    totalDropped,
    maxQueueDepth,
    accepted,           \* ghost: copies ever put in the queue
    streamEnd,          \* ghost: total size of those copies
    live                \* ghost: ids of copies whose memory is not returned

queueVars == <<packetQueue, currentQueueBytes, totalSent, totalDropped,
               maxQueueDepth, accepted, streamEnd, live>>

(* size_t arithmetic. *)
SizeAdd(a, b) == IF a + b < SizeMod THEN a + b ELSE (a + b) - SizeMod
SizeSubSigned(a, b) == a - b  \* mutant: a signed counter
SizeSub(a, b) == IF b <= a THEN a - b ELSE (a + SizeMod) - b

NULL == 0

Packet == [id: Nat \ {0}, size: Nat, data: Nat, sendOffset: Nat,
           start: Nat]

QueueInit ==
    /\ packetQueue = <<>>
    /\ currentQueueBytes = 0
    /\ totalSent = 0
    /\ totalDropped = 0
    /\ maxQueueDepth = 0
    /\ accepted = 0
    /\ streamEnd = 0
    /\ live = {}

WillAccept(size) ==
    /\ Len(packetQueue) < MaxQueuePackets
    /\ SizeAdd(currentQueueBytes, size) <= MaxQueueBytes

(* What pop_front() leaves, and what the copy it removes gives back.  The  *)
(* "already freed" test of dropOldestPacket() is the data field: such a    *)
(* packet is popped without touching the byte counter.                     *)
BytesWithFront == currentQueueBytes  \* mutant: the evicted bytes still count
BytesWithoutFront ==
    IF Head(packetQueue).data # NULL
    THEN SizeSub(currentQueueBytes, Head(packetQueue).size)
    ELSE currentQueueBytes

(* Mutant: the newest packet is given up.                                  *)
DropNewest ==
    /\ packetQueue' = SubSeq(packetQueue, 1, Len(packetQueue) - 1)
    /\ currentQueueBytes' = SizeSub(currentQueueBytes,
                                    packetQueue[Len(packetQueue)].size)
    /\ live' = live \ {packetQueue[Len(packetQueue)].id}
    /\ totalDropped' = totalDropped + 1

(* dropOldestPacket() on a non-empty queue. *)
DropOldest ==
    /\ packetQueue' = Tail(packetQueue)
    /\ currentQueueBytes' = BytesWithoutFront
    /\ live' = live \ {Head(packetQueue).id}
    /\ totalDropped' = totalDropped + 1

Copy(size) ==
    [id |-> accepted + 1, size |-> size, data |-> accepted + 1,
     sendOffset |-> 0, start |-> streamEnd]

(* The second half of enqueue(): duplicate, push_back, count, track depth. *)
Push(queue, bytes, owned, size) ==
    /\ packetQueue' = Append(queue, Copy(size))
    /\ currentQueueBytes' = SizeAdd(bytes, size)
    /\ live' = owned \cup {accepted + 1}
    /\ accepted' = accepted + 1
    /\ streamEnd' = streamEnd + size
    /\ maxQueueDepth' = IF Len(queue) + 1 > maxQueueDepth
                        THEN Len(queue) + 1 ELSE maxQueueDepth
=============================================================================
