----------------------- MODULE BluetoothSender_proofs -----------------------
(***************************************************************************)
(* Safety of the Bluetooth senders for every queue limit, packet size,     *)
(* number of packets and kind of link.                                     *)
(*                                                                         *)
(* QueueInv says what the mutex protects: whoever is between taking and    *)
(* giving it finds the queue well formed and not changed by the other      *)
(* task.  WireInv relates the queue to what the link has taken.  Each is   *)
(* preserved by every step, WireInv with the help of QueueInv.             *)
(***************************************************************************)
EXTENDS BluetoothSender, PacketSender_proofs

QueueShape ==
    Shape(packetQueue, currentQueueBytes, streamEnd, accepted, live)

(* owner is the mutex: it names the task that is between take and give.    *)
Locking ==
    /\ owner = "bridge" <=> bridgePc \in {"admit", "push"}
    /\ owner = "sender" <=> senderPc \in {"write", "commit"}

(* What each task knows at its program point and the other cannot undo.    *)
Knowledge ==
    /\ senderPc \in {"write", "commit"} => packetQueue # <<>>
    /\ bridgePc # "idle" => offer \in 1..MaxPacketSize
    /\ bridgePc = "push" => Len(packetQueue) < MaxQueuePackets

QueueInv ==
    /\ TypeOK
    /\ QueueShape
    /\ Locking
    /\ Knowledge
    /\ DepthBounded

LEMMA InitQueueInv == Init => QueueInv
  <1> SUFFICES ASSUME Init PROVE QueueInv
    OBVIOUS
  <1> USE DEF Init, QueueInit
  <1>0. packetQueue \in Seq(Packet)
        /\ wire \in Seq([id: Nat, sent: Nat, size: Nat])
    OBVIOUS
  <1>1. TypeOK
    BY <1>0 DEF TypeOK
  <1>2. QueueShape
    BY DEF QueueShape, Shape, Numbered, Intact, Gapless, Spread, FirstByte,
           Owned
  <1>3. Locking /\ Knowledge /\ DepthBounded
    BY LimitsAssumption DEF Locking, Knowledge, DepthBounded
  <1> QED BY <1>1, <1>2, <1>3 DEF QueueInv

(* The front packet leaves: an eviction or a commit.                       *)
LEMMA PopStep ==
    ASSUME QueueInv, packetQueue # <<>>,
           packetQueue' = Tail(packetQueue),
           currentQueueBytes' =
               SizeSub(currentQueueBytes, Head(packetQueue).size),
           live' = live \ {Head(packetQueue).id},
           UNCHANGED <<accepted, streamEnd, maxQueueDepth>>
    PROVE  /\ QueueShape'
           /\ DepthBounded'
           /\ Len(packetQueue') = Len(packetQueue) - 1
           /\ packetQueue' \in Seq(Packet)
           /\ currentQueueBytes' \in Nat
           /\ live' \in SUBSET Nat
  <1>1. Shape(packetQueue, currentQueueBytes, streamEnd, accepted, live)
    BY DEF QueueInv, QueueShape
  <1>2. streamEnd \in Nat /\ accepted \in Nat /\ live \in SUBSET Nat
    BY DEF QueueInv, TypeOK
  <1>3. /\ Shape(packetQueue', currentQueueBytes', streamEnd, accepted, live')
        /\ Len(packetQueue') = Len(packetQueue) - 1
    BY <1>1, <1>2, PopShape
  <1>4. QueueShape'
    BY <1>3 DEF QueueShape
  <1>5. Len(packetQueue) \in Nat /\ maxQueueDepth \in Nat
    BY DEF QueueInv, TypeOK
  <1>6. DepthBounded'
    BY <1>3, <1>5 DEF QueueInv, DepthBounded
  <1>7. packetQueue' \in Seq(Packet) /\ currentQueueBytes' \in Nat
    BY <1>3 DEF Shape
  <1> QED BY <1>2, <1>3, <1>4, <1>6, <1>7

(* dropOldestPacket() finds a packet that has not been freed.              *)
LEMMA DropIsPop ==
    ASSUME QueueInv, packetQueue # <<>>, DropOldest
    PROVE  /\ packetQueue' = Tail(packetQueue)
           /\ currentQueueBytes' =
                  SizeSub(currentQueueBytes, Head(packetQueue).size)
           /\ live' = live \ {Head(packetQueue).id}
           /\ totalDropped' = totalDropped + 1
  <1>1. packetQueue \in Seq(Packet) /\ Intact(packetQueue)
    BY DEF QueueInv, QueueShape, Shape
  <1>2. Head(packetQueue) = packetQueue[1] /\ 1 \in 1..Len(packetQueue)
    BY <1>1
  <1>3. Head(packetQueue).data # NULL
    BY <1>1, <1>2 DEF Intact
  <1> QED BY <1>3 DEF DropOldest, BytesWithoutFront

LEMMA FrontIntact ==
    ASSUME QueueInv
    PROVE  \A i \in 1..Len(packetQueue) : ~Corrupt(packetQueue[i])
  <1>1. Intact(packetQueue) /\ packetQueue \in Seq(Packet)
    BY DEF QueueInv, QueueShape, Shape
  <1> SUFFICES ASSUME NEW i \in 1..Len(packetQueue)
               PROVE  ~Corrupt(packetQueue[i])
    OBVIOUS
  <1>2. packetQueue[i].data # NULL /\ packetQueue[i].size \in 1..MaxPacketSize
    BY <1>1 DEF Intact
  <1> QED BY <1>2, LimitsAssumption DEF Corrupt

(* The write step always takes its second branch.                          *)
LEMMA WriteIsClean ==
    ASSUME QueueInv, NEW sent \in 0..MaxPacketSize, SenderWrite(sent)
    PROVE  /\ UNCHANGED queueVars
           /\ packetQueue # <<>>
           /\ Head(packetQueue) = packetQueue[1]
           /\ 1 \in 1..Len(packetQueue)
           /\ IF sent > 0
              THEN /\ backoffDelay' = 0
                   /\ wire' = Append(wire, [id |-> Head(packetQueue).id,
                                            sent |-> sent,
                                            size |-> Head(packetQueue).size])
                   /\ senderPc' = "commit"
                   /\ UNCHANGED <<owner, backoffOver>>
              ELSE /\ backoffDelay' = NextBackoff
                   /\ backoffOver' = FALSE
                   /\ senderPc' = "idle"
                   /\ owner' = "none"
                   /\ UNCHANGED wire
  <1>1. packetQueue # <<>> /\ packetQueue \in Seq(Packet)
    BY DEF QueueInv, Knowledge, SenderWrite, TypeOK
  <1>2. Head(packetQueue) = packetQueue[1] /\ 1 \in 1..Len(packetQueue)
    BY <1>1
  <1>3. ~Corrupt(Head(packetQueue))
    BY <1>2, FrontIntact
  <1> QED BY <1>1, <1>2, <1>3 DEF SenderWrite, WriteTaken, WriteRefused

LEMMA NextQueueInv == QueueInv /\ [Next]_vars => QueueInv'
  <1> SUFFICES ASSUME QueueInv, [Next]_vars PROVE QueueInv'
    OBVIOUS
  <1> USE DEF QueueInv
  <1>1. ASSUME NEW size \in OfferedSizes, Offer(size)
        PROVE  QueueInv'
    <2>1. size \in 1..MaxPacketSize
      BY <1>1, SenderAssumption, LimitsAssumption DEF Offer, ValidSize
    <2>2. UNCHANGED queueVars
      BY <1>1 DEF Offer
    <2>3. QueueShape' /\ DepthBounded'
      BY <2>2 DEF QueueShape, DepthBounded, queueVars
    <2>4. TypeOK'
      BY <1>1, <2>1, LimitsAssumption DEF Offer, TypeOK, queueVars, linkVars
    <2>5. Locking' /\ Knowledge'
      BY <1>1, <2>1 DEF Offer, Locking, Knowledge, queueVars
    <2> QED BY <2>3, <2>4, <2>5
  <1>2. CASE BridgeLock
    <2>1. QueueShape' /\ DepthBounded'
      BY <1>2 DEF BridgeLock, QueueShape, DepthBounded, queueVars
    <2>2. TypeOK'
      BY <1>2 DEF BridgeLock, TypeOK, queueVars, linkVars
    <2>3. Locking' /\ Knowledge'
      BY <1>2 DEF BridgeLock, Locking, Knowledge, queueVars
    <2> QED BY <2>1, <2>2, <2>3
  <1>3. CASE BridgeLockTimeout
    <2>1. QueueShape' /\ DepthBounded'
      BY <1>3 DEF BridgeLockTimeout, QueueShape, DepthBounded
    <2>2. TypeOK'
      BY <1>3 DEF BridgeLockTimeout, TypeOK, linkVars
    <2>3. Locking' /\ Knowledge'
      BY <1>3 DEF BridgeLockTimeout, Locking, Knowledge
    <2> QED BY <2>1, <2>2, <2>3
  <1>4. CASE BridgeAdmit
    <2>0. /\ bridgePc = "admit"
          /\ UNCHANGED <<offer, offered, senderPc, linkVars>>
      BY <1>4 DEF BridgeAdmit
    <2>1. CASE WillAccept(offer)
      <3>1. /\ bridgePc' = "push"
            /\ UNCHANGED <<queueVars, owner>>
        BY <1>4, <2>1 DEF BridgeAdmit
      <3>2. QueueShape' /\ DepthBounded'
        BY <3>1 DEF QueueShape, DepthBounded, queueVars
      <3>3. TypeOK'
        BY <2>0, <3>1 DEF TypeOK, queueVars, linkVars
      <3>4. Locking' /\ Knowledge'
        BY <2>0, <2>1, <3>1 DEF Locking, Knowledge, queueVars, WillAccept
      <3> QED BY <3>2, <3>3, <3>4
    <2>2. CASE ~WillAccept(offer) /\ packetQueue # <<>>
      <3>1. /\ DropOldest
            /\ bridgePc' = "push"
            /\ UNCHANGED <<totalSent, maxQueueDepth, accepted, streamEnd,
                           owner>>
        BY <1>4, <2>2 DEF BridgeAdmit
      <3>2. /\ packetQueue' = Tail(packetQueue)
            /\ currentQueueBytes' =
                   SizeSub(currentQueueBytes, Head(packetQueue).size)
            /\ live' = live \ {Head(packetQueue).id}
            /\ totalDropped' = totalDropped + 1
        BY <2>2, <3>1, DropIsPop
      <3>3. /\ QueueShape'
            /\ DepthBounded'
            /\ Len(packetQueue') = Len(packetQueue) - 1
            /\ packetQueue' \in Seq(Packet)
            /\ currentQueueBytes' \in Nat
            /\ live' \in SUBSET Nat
        BY <2>2, <3>1, <3>2, PopStep
      <3>4. TypeOK'
        BY <2>0, <3>1, <3>2, <3>3 DEF TypeOK, linkVars
      <3>5. Len(packetQueue) \in Nat /\ Len(packetQueue) <= MaxQueuePackets
        BY LimitsAssumption DEF DepthBounded, TypeOK
      <3>6. Locking'
        BY <2>0, <3>1 DEF Locking
      <3>7. Knowledge'
        BY <2>0, <3>1, <3>3, <3>5, <3>6, LimitsAssumption
        DEF Locking, Knowledge
      <3> QED BY <3>3, <3>4, <3>6, <3>7
    <2>3. CASE ~WillAccept(offer) /\ packetQueue = <<>>
      <3>1. /\ totalDropped' = totalDropped + 1
            /\ bridgePc' = "idle"
            /\ owner' = "none"
            /\ UNCHANGED <<packetQueue, currentQueueBytes, totalSent,
                           maxQueueDepth, accepted, streamEnd, live>>
        BY <1>4, <2>3 DEF BridgeAdmit
      <3>2. QueueShape' /\ DepthBounded'
        BY <3>1 DEF QueueShape, DepthBounded
      <3>3. TypeOK'
        BY <2>0, <3>1 DEF TypeOK, linkVars
      <3>4. Locking' /\ Knowledge'
        BY <2>0, <3>1 DEF Locking, Knowledge
      <3> QED BY <3>2, <3>3, <3>4
    <2> QED BY <2>1, <2>2, <2>3
  <1>5. CASE BridgePush
    <2>1. /\ bridgePc = "push" /\ bridgePc' = "idle" /\ owner' = "none"
          /\ Push(packetQueue, currentQueueBytes, live, offer)
          /\ UNCHANGED <<totalSent, totalDropped, offer, offered, senderPc,
                         linkVars>>
      BY <1>5 DEF BridgePush
    <2>2. offer \in 1..MaxPacketSize /\ Len(packetQueue) < MaxQueuePackets
      BY <2>1 DEF Knowledge
    <2>3. /\ packetQueue \in Seq(Packet) /\ accepted \in Nat
          /\ streamEnd \in Nat /\ live \in SUBSET Nat
          /\ Len(packetQueue) \in Nat /\ maxQueueDepth \in Nat
      BY DEF TypeOK
    <2>4. Shape(packetQueue', currentQueueBytes', streamEnd', accepted',
                live')
      BY <2>1, <2>2, <2>3, PushShape DEF Push, Copy, QueueShape
    <2>5. QueueShape'
      BY <2>4 DEF QueueShape
    <2>6. Len(packetQueue') = Len(packetQueue) + 1
      BY <2>1, <2>3 DEF Push
    <2>7. DepthBounded' /\ maxQueueDepth' \in Nat
      BY <2>1, <2>2, <2>3, <2>6, LimitsAssumption DEF DepthBounded, Push
    <2>8. /\ packetQueue' \in Seq(Packet) /\ currentQueueBytes' \in Nat
          /\ accepted' \in Nat /\ streamEnd' \in Nat
          /\ live' \in SUBSET Nat
      BY <2>1, <2>2, <2>3, <2>4 DEF Shape, Push
    <2>9. TypeOK'
      BY <2>1, <2>7, <2>8 DEF TypeOK, linkVars
    <2>10. Locking'
      BY <2>1 DEF Locking
    <2>11. Knowledge'
      BY <2>1, <2>10 DEF Knowledge, Locking
    <2> QED BY <2>5, <2>7, <2>9, <2>10, <2>11
  <1>6. CASE SenderEnter
    <2>1. QueueShape' /\ DepthBounded'
      BY <1>6 DEF SenderEnter, QueueShape, DepthBounded, queueVars
    <2>2. TypeOK'
      BY <1>6 DEF SenderEnter, TypeOK, queueVars, bridgeVars, linkVars
    <2>3. Locking' /\ Knowledge'
      BY <1>6 DEF SenderEnter, Locking, Knowledge, queueVars, bridgeVars
    <2> QED BY <2>1, <2>2, <2>3
  <1>7. CASE SenderLock
    <2>1. QueueShape' /\ DepthBounded'
      BY <1>7 DEF SenderLock, QueueShape, DepthBounded, queueVars
    <2>2. TypeOK'
      BY <1>7 DEF SenderLock, TypeOK, queueVars, bridgeVars, linkVars
    <2>3. Locking' /\ Knowledge'
      BY <1>7 DEF SenderLock, Locking, Knowledge, queueVars, bridgeVars
    <2> QED BY <2>1, <2>2, <2>3
  <1>8. CASE SenderLockTimeout
    <2>1. QueueShape' /\ DepthBounded'
      BY <1>8 DEF SenderLockTimeout, QueueShape, DepthBounded, queueVars
    <2>2. TypeOK'
      BY <1>8 DEF SenderLockTimeout, TypeOK, queueVars, bridgeVars, linkVars
    <2>3. Locking' /\ Knowledge'
      BY <1>8 DEF SenderLockTimeout, Locking, Knowledge, queueVars,
                  bridgeVars
    <2> QED BY <2>1, <2>2, <2>3
  <1>9. ASSUME NEW sent \in 0..MaxPacketSize, SenderWrite(sent)
        PROVE  QueueInv'
    <2>1. /\ UNCHANGED queueVars
          /\ senderPc = "write"
          /\ UNCHANGED <<bridgeVars, connected>>
      BY <1>9, WriteIsClean DEF SenderWrite
    <2>2. QueueShape' /\ DepthBounded'
      BY <2>1 DEF QueueShape, DepthBounded, queueVars
    <2>3. CASE sent > 0
      <3>1. /\ backoffDelay' = 0
            /\ wire' = Append(wire, [id |-> Head(packetQueue).id,
                                     sent |-> sent,
                                     size |-> Head(packetQueue).size])
            /\ senderPc' = "commit"
            /\ UNCHANGED <<owner, backoffOver>>
        BY <1>9, <2>3, WriteIsClean
      <3>2. Head(packetQueue) = packetQueue[1] /\ 1 \in 1..Len(packetQueue)
            /\ packetQueue \in Seq(Packet)
        BY <1>9, WriteIsClean DEF TypeOK
      <3>3. packetQueue[1] \in Packet
        BY <3>2
      <3>4. Head(packetQueue).id \in Nat /\ Head(packetQueue).size \in Nat
        BY <3>2, <3>3, PacketFields
      <3>5. wire' \in Seq([id: Nat, sent: Nat, size: Nat])
        BY <3>1, <3>4, LimitsAssumption DEF TypeOK
      <3>6. TypeOK'
        BY <2>1, <3>1, <3>5 DEF TypeOK, queueVars, bridgeVars
      <3>7. Locking' /\ Knowledge'
        BY <2>1, <3>1 DEF Locking, Knowledge, queueVars, bridgeVars
      <3> QED BY <2>2, <3>6, <3>7
    <2>4. CASE ~(sent > 0)
      <3>1. /\ backoffDelay' = NextBackoff
            /\ backoffOver' = FALSE
            /\ senderPc' = "idle"
            /\ owner' = "none"
            /\ UNCHANGED wire
        BY <1>9, <2>4, WriteIsClean
      <3>2. NextBackoff \in {0, 1, 2, 4, 5}
        BY DEF NextBackoff, TypeOK
      <3>3. TypeOK'
        BY <2>1, <3>1, <3>2 DEF TypeOK, queueVars, bridgeVars
      <3>4. Locking' /\ Knowledge'
        BY <2>1, <3>1 DEF Locking, Knowledge, queueVars, bridgeVars
      <3> QED BY <2>2, <3>3, <3>4
    <2> QED BY <2>3, <2>4
  <1>10. CASE SenderCommit
    <2>1. /\ senderPc = "commit" /\ senderPc' = "idle" /\ owner' = "none"
          /\ totalSent' = totalSent + 1
          /\ packetQueue' = Tail(packetQueue)
          /\ currentQueueBytes' =
                 SizeSub(currentQueueBytes, Head(packetQueue).size)
          /\ live' = live \ {Head(packetQueue).id}
          /\ UNCHANGED <<totalDropped, maxQueueDepth, accepted, streamEnd,
                         bridgeVars, linkVars>>
      BY <1>10 DEF SenderCommit
    <2>2. packetQueue # <<>>
      BY <2>1 DEF Knowledge
    <2>3. /\ QueueShape'
          /\ DepthBounded'
          /\ packetQueue' \in Seq(Packet)
          /\ currentQueueBytes' \in Nat
          /\ live' \in SUBSET Nat
      BY <2>1, <2>2, PopStep
    <2>4. TypeOK'
      BY <2>1, <2>3 DEF TypeOK, bridgeVars, linkVars
    <2>5. Locking'
      BY <2>1 DEF Locking, bridgeVars
    <2>6. Knowledge'
      BY <2>1, <2>5 DEF Knowledge, Locking, bridgeVars
    <2> QED BY <2>3, <2>4, <2>5, <2>6
  <1>11. CASE Link
    <2>1. UNCHANGED <<queueVars, owner, bridgeVars, senderPc, wire>>
      BY <1>11 DEF Link, Connect, Disconnect, BackoffElapses
    <2>2. QueueShape' /\ DepthBounded'
      BY <2>1 DEF QueueShape, DepthBounded, queueVars
    <2>a. /\ connected' \in BOOLEAN
          /\ backoffDelay' = backoffDelay
          /\ backoffOver' \in BOOLEAN
      <3>1. connected \in BOOLEAN /\ backoffOver \in BOOLEAN
        BY DEF TypeOK
      <3>2. CASE Connect
        BY <3>1, <3>2 DEF Connect
      <3>3. CASE Disconnect
        BY <3>1, <3>3 DEF Disconnect
      <3>4. CASE BackoffElapses
        BY <3>1, <3>4 DEF BackoffElapses
      <3> QED BY <1>11, <3>2, <3>3, <3>4 DEF Link
    <2>3. TypeOK'
      BY <2>a, <2>1 DEF TypeOK, queueVars, bridgeVars
    <2>4. Locking' /\ Knowledge'
      BY <2>1 DEF Locking, Knowledge, queueVars, bridgeVars
    <2> QED BY <2>2, <2>3, <2>4
  <1>12. CASE UNCHANGED vars
    <2>1. QueueShape' /\ DepthBounded'
      BY <1>12 DEF vars, QueueShape, DepthBounded, queueVars
    <2>2. TypeOK'
      BY <1>12 DEF vars, TypeOK, queueVars
    <2>3. Locking' /\ Knowledge'
      BY <1>12 DEF vars, Locking, Knowledge, queueVars
    <2> QED BY <2>1, <2>2, <2>3
  <1> QED
    BY <1>1, <1>2, <1>3, <1>4, <1>5, <1>6, <1>7, <1>8, <1>9, <1>10, <1>11,
       <1>12
    DEF Next, Bridge, Sender, Write

-----------------------------------------------------------------------------
(***************************************************************************)
(* The queue and the wire.  Behind says that whatever the link has taken   *)
(* was accepted before everything still to be written: with Numbered it    *)
(* gives the order on the wire.                                            *)
(***************************************************************************)
Committing == IF senderPc = "commit" THEN 1 ELSE 0

SentCounted == totalSent + Committing = Len(wire)

Ordered ==
    \A i \in 1..Len(wire) : \A j \in 1..Len(wire) :
        i < j => wire[i].id < wire[j].id

Behind ==
    \A i \in 1..Len(wire) :
        wire[i].id + Len(packetQueue) <= accepted + Committing

WireInv ==
    /\ Conservation
    /\ SentCounted
    /\ Ordered
    /\ Behind
    /\ CommitsWhatItSent

LEMMA InitWireInv == Init => WireInv
  <1> SUFFICES ASSUME Init PROVE WireInv
    OBVIOUS
  <1>1. /\ packetQueue = <<>> /\ wire = <<>> /\ Len(wire) = 0
        /\ Len(packetQueue) = 0
        /\ offered = 0 /\ totalSent = 0 /\ totalDropped = 0
        /\ bridgePc = "idle" /\ senderPc = "idle"
    BY DEF Init, QueueInit
  <1> QED
    BY <1>1 DEF WireInv, Conservation, InHand, SentCounted, Committing,
                Ordered, Behind, CommitsWhatItSent

(* A step that leaves the queue, the wire and the committing alone.        *)
LEMMA QuietWire ==
    ASSUME WireInv, Conservation',
           UNCHANGED <<packetQueue, wire, accepted, totalSent>>,
           senderPc' = "commit" <=> senderPc = "commit"
    PROVE  WireInv'
  <1>1. Committing' = Committing
    BY DEF Committing
  <1>2. SentCounted' /\ Ordered' /\ Behind'
    BY <1>1 DEF WireInv, SentCounted, Ordered, Behind
  <1>3. CommitsWhatItSent'
    BY DEF WireInv, CommitsWhatItSent
  <1> QED BY <1>2, <1>3 DEF WireInv

(* The numbers the proofs below calculate with.                            *)
LEMMA WireNumbers ==
    ASSUME QueueInv
    PROVE  /\ Len(packetQueue) \in Nat
           /\ Len(wire) \in Nat
           /\ accepted \in Nat /\ offered \in Nat
           /\ totalSent \in Nat /\ totalDropped \in Nat
           /\ \A i \in 1..Len(wire) : wire[i].id \in Nat
           /\ packetQueue # <<>> =>
                  /\ Head(packetQueue).id \in Nat
                  /\ Head(packetQueue).id + Len(packetQueue) = accepted + 1
  <1>1. /\ packetQueue \in Seq(Packet)
        /\ wire \in Seq([id: Nat, sent: Nat, size: Nat])
        /\ accepted \in Nat /\ offered \in Nat
        /\ totalSent \in Nat /\ totalDropped \in Nat
    BY DEF QueueInv, TypeOK
  <1>2. \A i \in 1..Len(wire) : wire[i].id \in Nat
    <2> SUFFICES ASSUME NEW i \in 1..Len(wire) PROVE wire[i].id \in Nat
      OBVIOUS
    <2>1. wire[i] \in [id: Nat, sent: Nat, size: Nat]
      BY <1>1, ElementOfSeq
    <2> QED BY <2>1
  <1>3. ASSUME packetQueue # <<>>
        PROVE  /\ Head(packetQueue).id \in Nat
               /\ Head(packetQueue).id + Len(packetQueue) = accepted + 1
    <2>1. /\ Head(packetQueue) = packetQueue[1]
          /\ 1 \in 1..Len(packetQueue)
          /\ packetQueue[1] \in Packet
      BY <1>1, <1>3
    <2>2. packetQueue[1].id + Len(packetQueue) = accepted + 1
      BY <2>1 DEF QueueInv, QueueShape, Shape, Numbered
    <2> QED BY <2>1, <2>2, PacketFields
  <1> QED BY <1>1, <1>2, <1>3

LEMMA NextWireInv ==
    ASSUME QueueInv, QueueInv', WireInv, [Next]_vars
    PROVE  WireInv'
  <1>0. /\ Len(packetQueue) \in Nat /\ Len(packetQueue') \in Nat
        /\ Len(wire) \in Nat
        /\ accepted \in Nat /\ offered \in Nat
        /\ totalSent \in Nat /\ totalDropped \in Nat
        /\ \A i \in 1..Len(wire) : wire[i].id \in Nat
        /\ packetQueue \in Seq(Packet)
    BY WireNumbers DEF QueueInv, TypeOK
  <1>L. /\ owner = "bridge" <=> bridgePc \in {"admit", "push"}
        /\ owner = "sender" <=> senderPc \in {"write", "commit"}
    BY DEF QueueInv, Locking
  <1>C. offered = totalSent + totalDropped + Len(packetQueue) + InHand
        /\ SentCounted /\ Ordered /\ Behind /\ CommitsWhatItSent
    BY DEF WireInv, Conservation
  <1>1. ASSUME NEW size \in OfferedSizes, Offer(size)
        PROVE  WireInv'
    <2>1. Conservation'
      BY <1>0, <1>C, <1>1
      DEF Offer, Conservation, InHand, queueVars, linkVars
    <2> QED BY <1>1, <2>1, QuietWire DEF Offer, queueVars, linkVars
  <1>2. CASE BridgeLock
    <2>1. Conservation'
      BY <1>0, <1>C, <1>2
      DEF BridgeLock, Conservation, InHand, queueVars, linkVars
    <2> QED BY <1>2, <2>1, QuietWire DEF BridgeLock, queueVars, linkVars
  <1>3. CASE BridgeLockTimeout
    <2>1. Conservation'
      BY <1>0, <1>C, <1>3
      DEF BridgeLockTimeout, Conservation, InHand, linkVars
    <2> QED BY <1>3, <2>1, QuietWire DEF BridgeLockTimeout, linkVars
  <1>4. CASE BridgeAdmit
    <2>0. /\ bridgePc = "admit" /\ senderPc' = senderPc /\ wire' = wire
          /\ offered' = offered
          /\ senderPc # "commit"
      BY <1>4, <1>L DEF BridgeAdmit, linkVars
    <2>1. CASE WillAccept(offer)
      <3>1. /\ bridgePc' = "push"
            /\ UNCHANGED queueVars
        BY <1>4, <2>1 DEF BridgeAdmit
      <3>2. Conservation'
        BY <1>0, <1>C, <2>0, <3>1 DEF Conservation, InHand, queueVars
      <3> QED BY <2>0, <3>1, <3>2, QuietWire DEF queueVars
    <2>2. CASE ~WillAccept(offer) /\ packetQueue # <<>>
      <3>1. /\ DropOldest
            /\ bridgePc' = "push"
            /\ UNCHANGED <<totalSent, accepted>>
        BY <1>4, <2>2 DEF BridgeAdmit
      <3>2. /\ packetQueue' = Tail(packetQueue)
            /\ totalDropped' = totalDropped + 1
        BY <2>2, <3>1, DropIsPop
      <3>3. Len(packetQueue') = Len(packetQueue) - 1
        BY <1>0, <2>2, <3>2
      <3>n. /\ Len(packetQueue) \in Nat /\ totalSent \in Nat
            /\ totalDropped \in Nat /\ InHand = 1 /\ InHand' = 1
            /\ totalSent' = totalSent /\ offered' = offered
            /\ totalDropped' = totalDropped + 1
        BY <1>0, <2>0, <3>1, <3>2 DEF InHand
      <3>m. offered = totalSent + totalDropped + Len(packetQueue) + InHand
        BY <1>C
      <3>4. Conservation'
        BY <3>m, <3>n, <3>3 DEF Conservation
      <3>5. Committing = 0 /\ Committing' = 0
        BY <2>0 DEF Committing
      <3>6. SentCounted' /\ Ordered'
        BY <1>C, <2>0, <3>1, <3>5 DEF SentCounted, Ordered
      <3>7. Behind'
        <4> SUFFICES ASSUME NEW i \in 1..Len(wire)
                     PROVE  wire[i].id + Len(packetQueue') <= accepted
          BY <2>0, <3>1, <3>5, <1>0 DEF Behind
        <4>1. wire[i].id + Len(packetQueue) <= accepted
          BY <1>0, <1>C, <3>5 DEF Behind
        <4> QED BY <4>1, <3>3, <1>0
      <3>8. CommitsWhatItSent'
        BY <2>0 DEF CommitsWhatItSent
      <3> QED BY <3>4, <3>6, <3>7, <3>8 DEF WireInv
    <2>3. CASE ~WillAccept(offer) /\ packetQueue = <<>>
      <3>1. /\ totalDropped' = totalDropped + 1
            /\ bridgePc' = "idle"
            /\ UNCHANGED <<packetQueue, totalSent, accepted>>
        BY <1>4, <2>3 DEF BridgeAdmit
      <3>2. Conservation'
        BY <1>0, <1>C, <2>0, <3>1 DEF Conservation, InHand
      <3> QED BY <2>0, <3>1, <3>2, QuietWire
    <2> QED BY <2>1, <2>2, <2>3
  <1>5. CASE BridgePush
    <2>1. /\ bridgePc = "push" /\ bridgePc' = "idle"
          /\ packetQueue' = Append(packetQueue, Copy(offer))
          /\ accepted' = accepted + 1
          /\ UNCHANGED <<totalSent, totalDropped, offered, senderPc, wire>>
          /\ senderPc # "commit"
      BY <1>5, <1>L DEF BridgePush, Push, linkVars
    <2>2. Len(packetQueue') = Len(packetQueue) + 1
      BY <2>1, <1>0
    <2>3. Conservation'
      BY <1>0, <1>C, <2>1, <2>2 DEF Conservation, InHand
    <2>4. Committing = 0 /\ Committing' = 0
      BY <2>1 DEF Committing
    <2>5. SentCounted' /\ Ordered'
      BY <1>C, <2>1, <2>4 DEF SentCounted, Ordered
    <2>6. Behind'
      <3> SUFFICES ASSUME NEW i \in 1..Len(wire)
                   PROVE  wire[i].id + Len(packetQueue') <= accepted + 1
        BY <2>1, <2>4, <1>0 DEF Behind
      <3>1. wire[i].id + Len(packetQueue) <= accepted
        BY <1>0, <1>C, <2>4 DEF Behind
      <3> QED BY <3>1, <2>2, <1>0
    <2>7. CommitsWhatItSent'
      BY <2>1 DEF CommitsWhatItSent
    <2> QED BY <2>3, <2>5, <2>6, <2>7 DEF WireInv
  <1>6. CASE SenderEnter \/ SenderLock \/ SenderLockTimeout
    <2>1. /\ UNCHANGED <<queueVars, bridgeVars, wire>>
          /\ senderPc # "commit" /\ senderPc' # "commit"
      BY <1>6 DEF SenderEnter, SenderLock, SenderLockTimeout, linkVars
    <2>2. Conservation'
      BY <1>C, <2>1 DEF Conservation, InHand, queueVars, bridgeVars
    <2> QED BY <2>1, <2>2, QuietWire DEF queueVars
  <1>7. ASSUME NEW sent \in 0..MaxPacketSize, SenderWrite(sent)
        PROVE  WireInv'
    <2>1. /\ UNCHANGED queueVars
          /\ senderPc = "write"
          /\ UNCHANGED bridgeVars
          /\ packetQueue # <<>>
      BY <1>7, WriteIsClean DEF SenderWrite
    <2>2. Conservation'
      BY <1>C, <2>1 DEF Conservation, InHand, queueVars, bridgeVars
    <2>3. CASE sent > 0
      <3> DEFINE entry == [id |-> Head(packetQueue).id, sent |-> sent,
                           size |-> Head(packetQueue).size]
      <3>1. /\ wire' = Append(wire, entry)
            /\ senderPc' = "commit"
        BY <1>7, <2>3, WriteIsClean
      <3>2. entry.id = Head(packetQueue).id
        OBVIOUS
      <3>3. /\ Head(packetQueue).id \in Nat
            /\ Head(packetQueue).id + Len(packetQueue) = accepted + 1
        BY <2>1, WireNumbers
      <3>w. wire \in Seq([id: Nat, sent: Nat, size: Nat])
        BY DEF QueueInv, TypeOK
      <3> HIDE DEF entry
      <3>4. /\ Len(wire') = Len(wire) + 1
            /\ wire'[Len(wire) + 1] = entry
            /\ \A i \in 1..Len(wire) : wire'[i] = wire[i]
        BY <3>1, <3>w
      <3>n. Len(wire) \in Nat /\ Len(wire') = Len(wire) + 1
        BY <1>0, <3>4
      <3>5. Committing = 0 /\ Committing' = 1
        BY <2>1, <3>1 DEF Committing
      <3>6. SentCounted'
        BY <1>0, <1>C, <2>1, <3>4, <3>5 DEF SentCounted, queueVars
      <3>7. \A i \in 1..Len(wire) : wire[i].id < Head(packetQueue).id
        <4> SUFFICES ASSUME NEW i \in 1..Len(wire)
                     PROVE  wire[i].id < Head(packetQueue).id
          OBVIOUS
        <4>1. wire[i].id + Len(packetQueue) <= accepted
          BY <1>0, <1>C, <3>5 DEF Behind
        <4>2. wire[i].id \in Nat
          BY <1>0
        <4> QED BY <1>0, <3>3, <4>1, <4>2
      <3>8. Ordered'
        <4> SUFFICES ASSUME NEW i \in 1..Len(wire'), NEW j \in 1..Len(wire'),
                            i < j
                     PROVE  wire'[i].id < wire'[j].id
          BY DEF Ordered
        <4>0. j \in 1..Len(wire) \/ j = Len(wire) + 1
          BY <3>n
        <4>1. i \in 1..Len(wire)
          BY <3>n
        <4>2. CASE j = Len(wire) + 1
          BY <4>1, <4>2, <3>2, <3>4, <3>7
        <4>3. CASE j \in 1..Len(wire)
          BY <4>1, <4>3, <3>4, <1>C DEF Ordered
        <4> QED BY <4>0, <4>2, <4>3
      <3>9. Behind'
        <4> SUFFICES ASSUME NEW i \in 1..Len(wire')
                     PROVE  wire'[i].id + Len(packetQueue) <= accepted + 1
          BY <2>1, <3>5 DEF Behind, queueVars
        <4>0. i \in 1..Len(wire) \/ i = Len(wire) + 1
          BY <3>n
        <4>1. CASE i \in 1..Len(wire)
          <5>1. wire[i].id + Len(packetQueue) <= accepted
            BY <1>0, <1>C, <3>5, <4>1 DEF Behind
          <5>2. wire'[i] = wire[i] /\ wire[i].id \in Nat
            BY <4>1, <3>4, <1>0
          <5> QED BY <5>1, <5>2, <1>0
        <4>2. CASE i = Len(wire) + 1
          BY <4>2, <3>2, <3>3, <3>4, <1>0
        <4> QED BY <4>0, <4>1, <4>2
      <3>10. CommitsWhatItSent'
        <4>1. /\ packetQueue' = packetQueue
              /\ wire'[Len(wire')].id = Head(packetQueue).id
              /\ wire' # <<>>
          BY <2>1, <3>2, <3>4, <1>0 DEF queueVars
        <4> QED BY <4>1, <2>1 DEF CommitsWhatItSent
      <3> QED BY <2>2, <3>6, <3>8, <3>9, <3>10 DEF WireInv
    <2>4. CASE ~(sent > 0)
      <3>1. wire' = wire /\ senderPc' = "idle"
        BY <1>7, <2>4, WriteIsClean
      <3> QED BY <2>1, <2>2, <3>1, QuietWire DEF queueVars
    <2> QED BY <2>3, <2>4
  <1>8. CASE SenderCommit
    <2>1. /\ senderPc = "commit" /\ senderPc' = "idle"
          /\ totalSent' = totalSent + 1
          /\ packetQueue' = Tail(packetQueue)
          /\ UNCHANGED <<totalDropped, accepted, bridgeVars, wire>>
      BY <1>8 DEF SenderCommit, linkVars
    <2>2. packetQueue # <<>>
      BY <2>1 DEF QueueInv, Knowledge
    <2>3. Len(packetQueue') = Len(packetQueue) - 1
      BY <1>0, <2>1, <2>2
    <2>n. /\ Len(packetQueue) \in Nat /\ totalSent \in Nat
          /\ totalDropped \in Nat /\ InHand \in Nat
          /\ InHand' = InHand /\ offered' = offered
          /\ totalSent' = totalSent + 1 /\ totalDropped' = totalDropped
      BY <1>0, <2>1 DEF InHand, bridgeVars
    <2>m. offered = totalSent + totalDropped + Len(packetQueue) + InHand
      BY <1>C
    <2>4. Conservation'
      BY <2>m, <2>n, <2>3 DEF Conservation
    <2>5. Committing = 1 /\ Committing' = 0
      BY <2>1 DEF Committing
    <2>6. SentCounted' /\ Ordered'
      BY <1>0, <1>C, <2>1, <2>5 DEF SentCounted, Ordered
    <2>7. Behind'
      <3> SUFFICES ASSUME NEW i \in 1..Len(wire)
                   PROVE  wire[i].id + Len(packetQueue') <= accepted
        BY <1>0, <2>1, <2>5 DEF Behind
      <3>1. wire[i].id + Len(packetQueue) <= accepted + 1
        BY <1>C, <2>5 DEF Behind
      <3> QED BY <3>1, <2>3, <1>0
    <2>8. CommitsWhatItSent'
      BY <2>1 DEF CommitsWhatItSent
    <2> QED BY <2>4, <2>6, <2>7, <2>8 DEF WireInv
  <1>9. CASE Link \/ UNCHANGED vars
    <2>1. UNCHANGED <<queueVars, bridgeVars, senderPc, wire>>
      BY <1>9 DEF Link, Connect, Disconnect, BackoffElapses, vars, bridgeVars
    <2>2. Conservation'
      BY <1>C, <2>1 DEF Conservation, InHand, queueVars, bridgeVars
    <2> QED BY <2>1, <2>2, QuietWire DEF queueVars
  <1> QED
    BY <1>1, <1>2, <1>3, <1>4, <1>5, <1>6, <1>7, <1>8, <1>9
    DEF Next, Bridge, Sender, Write

-----------------------------------------------------------------------------
(* What holds of every behaviour.                                          *)

LEMMA Invariance == Spec => [](QueueInv /\ WireInv)
  <1>1. Init => QueueInv /\ WireInv
    BY InitQueueInv, InitWireInv
  <1>2. QueueInv /\ WireInv /\ [Next]_vars => (QueueInv /\ WireInv)'
    <2> SUFFICES ASSUME QueueInv, WireInv, [Next]_vars
                 PROVE  QueueInv' /\ WireInv'
      OBVIOUS
    <2>1. QueueInv'
      BY NextQueueInv
    <2>2. WireInv'
      BY <2>1, NextWireInv
    <2> QED BY <2>1, <2>2
  <1> QED BY <1>1, <1>2, PTL DEF Spec

(* Every variable keeps its type in every behaviour of the two tasks.      *)
THEOREM TypeCorrect == Spec => []TypeOK
  <1>1. QueueInv => TypeOK
    BY DEF QueueInv
  <1> QED BY <1>1, Invariance, PTL

(* The queue never outgrows maxQueuePackets, whatever the two tasks do     *)
(* between the admission test of enqueue() and its push_back.              *)
THEOREM DepthSafe == Spec => []DepthBounded
  <1>1. QueueInv => DepthBounded
    BY DEF QueueInv
  <1> QED BY <1>1, Invariance, PTL

(* currentQueueBytes is always the exact size of what is queued.           *)
THEOREM BytesSafe == Spec => []BytesAccounted
  <1>1. QueueInv => BytesAccounted
    <2> SUFFICES ASSUME QueueInv PROVE BytesAccounted
      OBVIOUS
    <2>1. /\ packetQueue \in Seq(Packet)
          /\ Gapless(packetQueue, streamEnd)
          /\ FirstByte(packetQueue, streamEnd) + currentQueueBytes
                 = streamEnd
      BY DEF QueueInv, QueueShape, Shape
    <2>2. QueueStart = FirstByte(packetQueue, streamEnd)
      BY <2>1 DEF QueueStart, FirstByte
    <2> QED BY <2>1, <2>2 DEF BytesAccounted, Contiguous, Gapless
  <1> QED BY <1>1, Invariance, PTL

(* No copy is leaked and none is freed twice: the memory held is exactly   *)
(* that of the queued packets.                                             *)
THEOREM MemorySafe == Spec => []NoLeak
  <1>1. QueueInv => NoLeak
    BY DEF QueueInv, QueueShape, Shape, Owned, NoLeak
  <1> QED BY <1>1, Invariance, PTL

(* A freed or oversized packet is never in the queue.                      *)
THEOREM QueueClean == Spec => []NoCorruptPacket
  <1>1. QueueInv => NoCorruptPacket
    BY FrontIntact DEF NoCorruptPacket
  <1> QED BY <1>1, Invariance, PTL

(* Every packet offered to enqueue() is accounted for.                     *)
THEOREM NothingLost == Spec => []Conservation
  <1>1. WireInv => Conservation
    BY DEF WireInv
  <1> QED BY <1>1, Invariance, PTL

(* commitPackets() removes the packet that was written.                    *)
THEOREM CommitSafe == Spec => []CommitsWhatItSent
  <1>1. WireInv => CommitsWhatItSent
    BY DEF WireInv
  <1> QED BY <1>1, Invariance, PTL

(* Packets reach the link in the order of acceptance, each at most once,   *)
(* and totalSent counts them.                                              *)
THEOREM SendSafe == Spec => []SentOnce
  <1>1. QueueInv /\ WireInv => SentOnce
    <2> SUFFICES ASSUME QueueInv, WireInv PROVE SentOnce
      OBVIOUS
    <2>1. totalSent \in Nat /\ Len(wire) \in Nat
      BY WireNumbers
    <2> QED BY <2>1 DEF WireInv, SentCounted, Committing, Ordered, SentOnce
  <1> QED BY <1>1, Invariance, PTL

(* The queue of the Bluetooth senders is sound, in all the ways above.       *)
THEOREM QueueIsSound == Spec => []QueueSound
  BY DepthSafe, BytesSafe, MemorySafe, QueueClean, PTL DEF QueueSound

(* What is delivered: every valid packet is accounted for, and what was sent *)
(* is what was committed, in order and once.                                 *)
THEOREM DeliverySafe == Spec => []Delivery
  BY NothingLost, CommitSafe, SendSafe, PTL DEF Delivery

-----------------------------------------------------------------------------
(***************************************************************************)
(* The two tasks implement the lossy FIFO channel of PacketChannel.        *)
(***************************************************************************)
Ids(q) == [i \in 1..Len(q) |-> q[i].id]

LEMMA IdsAppend ==
    ASSUME NEW S, NEW q \in Seq(S), NEW p \in S
    PROVE  Ids(Append(q, p)) = Append(Ids(q), p.id)
  <1> DEFINE r == Append(q, p)
             n == Len(q)
  <1>1. /\ n \in Nat /\ Len(r) = n + 1 /\ r[n + 1] = p
        /\ \A i \in 1..n : r[i] = q[i]
    OBVIOUS
  <1>2. Ids(q) \in Seq({q[i].id : i \in 1..n}) /\ Len(Ids(q)) = n
    BY <1>1 DEF Ids
  <1>3. /\ Append(Ids(q), p.id) \in Seq({q[i].id : i \in 1..n} \cup {p.id})
        /\ Len(Append(Ids(q), p.id)) = n + 1
        /\ Append(Ids(q), p.id)[n + 1] = p.id
        /\ \A i \in 1..n : Append(Ids(q), p.id)[i] = q[i].id
    <2>1. Ids(q) \in Seq({q[i].id : i \in 1..n} \cup {p.id})
      BY <1>1 DEF Ids
    <2> QED BY <1>2, <2>1 DEF Ids
  <1>4. Append(Ids(q), p.id) =
            [i \in 1..(n + 1) |-> Append(Ids(q), p.id)[i]]
    BY <1>3, <1>1
  <1>5. \A i \in 1..(n + 1) : Append(Ids(q), p.id)[i] = r[i].id
    BY <1>1, <1>3
  <1> HIDE DEF r, n
  <1>6. Ids(r) = [i \in 1..(n + 1) |-> r[i].id]
    BY <1>1 DEF Ids
  <1>7. Ids(r) = Append(Ids(q), p.id)
    BY <1>4, <1>5, <1>6
  <1> QED BY <1>7 DEF r

LEMMA SequenceIsFunction ==
    ASSUME NEW S, NEW s \in Seq(S)
    PROVE  s = [i \in 1..Len(s) |-> s[i]]
  OBVIOUS

LEMMA IdsTail ==
    ASSUME NEW S, NEW q \in Seq(S), q # <<>>
    PROVE  /\ Ids(q) # <<>>
           /\ Ids(Tail(q)) = Tail(Ids(q))
           /\ Head(Ids(q)) = Head(q).id
  <1> DEFINE n == Len(q)
  <1>1. /\ n \in Nat /\ n > 0 /\ Len(Tail(q)) = n - 1
        /\ \A i \in 1..(n - 1) : Tail(q)[i] = q[i + 1]
        /\ Head(q) = q[1]
    OBVIOUS
  <1>2. /\ Ids(q) \in Seq({q[i].id : i \in 1..n}) /\ Len(Ids(q)) = n
        /\ \A i \in 1..n : Ids(q)[i] = q[i].id
    BY <1>1 DEF Ids
  <1>3. /\ Ids(q) # <<>> /\ Head(Ids(q)) = Head(q).id
        /\ Tail(Ids(q)) \in Seq({q[i].id : i \in 1..n})
        /\ Len(Tail(Ids(q))) = n - 1
        /\ \A i \in 1..(n - 1) : Tail(Ids(q))[i] = Ids(q)[i + 1]
    BY <1>1, <1>2
  <1>4. \A i \in 1..(n - 1) : Tail(Ids(q))[i] = Tail(q)[i].id
    BY <1>1, <1>2, <1>3
  <1>5. Tail(Ids(q)) = [i \in 1..(n - 1) |-> Tail(Ids(q))[i]]
    BY <1>3, SequenceIsFunction
  <1> HIDE DEF n
  <1>6. Ids(Tail(q)) = [i \in 1..(n - 1) |-> Tail(q)[i].id]
    BY <1>1 DEF Ids
  <1>7. Ids(Tail(q)) = Tail(Ids(q))
    BY <1>4, <1>5, <1>6
  <1> QED BY <1>3, <1>7

(* A step that changes neither what is still to be written nor the wire.   *)
LEMMA StepMaps ==
    ASSUME QueueInv, [Next]_vars
    PROVE  \/ /\ accepted' = accepted + 1
              /\ Ids(Pending') = Append(Ids(Pending), accepted + 1)
              /\ Ids(wire') = Ids(wire)
           \/ /\ Ids(Pending) # <<>>
              /\ Ids(Pending') = Tail(Ids(Pending))
              /\ accepted' = accepted
              /\ Ids(wire') = Ids(wire)
           \/ /\ Ids(Pending) # <<>>
              /\ Ids(Pending') = Tail(Ids(Pending))
              /\ accepted' = accepted
              /\ Ids(wire') = Append(Ids(wire), Head(Ids(Pending)))
           \/ /\ accepted' = accepted
              /\ Ids(Pending') = Ids(Pending)
              /\ Ids(wire') = Ids(wire)
  <1>0. /\ packetQueue \in Seq(Packet)
        /\ wire \in Seq([id: Nat, sent: Nat, size: Nat])
        /\ owner = "bridge" <=> bridgePc \in {"admit", "push"}
        /\ owner = "sender" <=> senderPc \in {"write", "commit"}
    BY DEF QueueInv, TypeOK, Locking
  <1>1. ASSUME NEW size \in OfferedSizes, Offer(size)
        PROVE  UNCHANGED <<packetQueue, accepted, senderPc, wire>>
    BY <1>1 DEF Offer, queueVars, linkVars
  <1>2. ASSUME BridgeLock \/ BridgeLockTimeout
        PROVE  UNCHANGED <<packetQueue, accepted, senderPc, wire>>
    BY <1>2 DEF BridgeLock, BridgeLockTimeout, queueVars, linkVars
  <1>3. ASSUME SenderEnter \/ SenderLock \/ SenderLockTimeout
        PROVE  /\ UNCHANGED <<packetQueue, accepted, wire>>
               /\ senderPc # "commit" /\ senderPc' # "commit"
    BY <1>3 DEF SenderEnter, SenderLock, SenderLockTimeout, queueVars,
                linkVars
  <1>4. ASSUME Link \/ UNCHANGED vars
        PROVE  UNCHANGED <<packetQueue, accepted, senderPc, wire>>
    BY <1>4 DEF Link, Connect, Disconnect, BackoffElapses, vars, queueVars
  <1>5. CASE BridgeAdmit
    <2>1. /\ senderPc # "commit" /\ senderPc' = senderPc /\ wire' = wire
      BY <1>0, <1>5 DEF BridgeAdmit, linkVars
    <2>2. Pending = packetQueue /\ Pending' = packetQueue'
      BY <2>1 DEF Pending
    <2>3. CASE ~WillAccept(offer) /\ packetQueue # <<>>
      <3>1. DropOldest /\ accepted' = accepted
        BY <1>5, <2>3 DEF BridgeAdmit
      <3>2. packetQueue' = Tail(packetQueue)
        BY <3>1 DEF DropOldest
      <3> QED BY <1>0, <2>1, <2>2, <2>3, <3>1, <3>2, IdsTail
    <2>4. CASE WillAccept(offer) \/ packetQueue = <<>>
      <3>1. UNCHANGED <<packetQueue, accepted>>
        BY <1>5, <2>4 DEF BridgeAdmit, queueVars
      <3> QED BY <2>1, <2>2, <3>1
    <2> QED BY <2>3, <2>4
  <1>6. CASE BridgePush
    <2>1. /\ senderPc # "commit" /\ senderPc' = senderPc /\ wire' = wire
          /\ packetQueue' = Append(packetQueue, Copy(offer))
          /\ accepted' = accepted + 1
      BY <1>0, <1>6 DEF BridgePush, Push, linkVars
    <2>2. Pending = packetQueue /\ Pending' = packetQueue'
      BY <2>1 DEF Pending
    <2>3. Copy(offer) \in Packet /\ Copy(offer).id = accepted + 1
      BY DEF QueueInv, TypeOK, Copy, Packet
    <2> QED BY <1>0, <2>1, <2>2, <2>3, IdsAppend
  <1>7. ASSUME NEW sent \in 0..MaxPacketSize, SenderWrite(sent), sent > 0
        PROVE  /\ Ids(Pending) # <<>>
               /\ Ids(Pending') = Tail(Ids(Pending))
               /\ accepted' = accepted
               /\ Ids(wire') = Append(Ids(wire), Head(Ids(Pending)))
    <2> DEFINE entry == [id |-> Head(packetQueue).id, sent |-> sent,
                         size |-> Head(packetQueue).size]
    <2>1. /\ senderPc = "write" /\ senderPc' = "commit"
          /\ UNCHANGED <<packetQueue, accepted>>
          /\ wire' = Append(wire, entry)
          /\ packetQueue # <<>>
      BY <1>7, WriteIsClean DEF SenderWrite, queueVars
    <2>2. Pending = packetQueue /\ Pending' = Tail(packetQueue)
      BY <2>1 DEF Pending
    <2>3. entry \in [id: Nat, sent: Nat, size: Nat]
      <3>1. /\ Head(packetQueue) = packetQueue[1]
            /\ packetQueue[1] \in Packet
        BY <1>0, <2>1
      <3>2. Head(packetQueue).id \in Nat /\ Head(packetQueue).size \in Nat
        BY <3>1, PacketFields
      <3> QED BY <3>2, LimitsAssumption
    <2>4. entry.id = Head(packetQueue).id
      OBVIOUS
    <2> HIDE DEF entry
    <2>5. Ids(wire') = Append(Ids(wire), Head(packetQueue).id)
      BY <1>0, <2>1, <2>3, <2>4, IdsAppend
    <2> QED BY <1>0, <2>1, <2>2, <2>5, IdsTail
  <1>8. ASSUME NEW sent \in 0..MaxPacketSize, SenderWrite(sent), ~(sent > 0)
        PROVE  /\ UNCHANGED <<packetQueue, accepted, wire>>
               /\ senderPc # "commit" /\ senderPc' # "commit"
    <2>1. /\ UNCHANGED <<queueVars, wire>> /\ senderPc' = "idle"
          /\ senderPc = "write"
      BY <1>8, WriteIsClean DEF SenderWrite
    <2> QED BY <2>1 DEF queueVars
  <1>9. CASE SenderCommit
    <2>1. /\ senderPc = "commit" /\ senderPc' = "idle" /\ wire' = wire
          /\ packetQueue' = Tail(packetQueue) /\ accepted' = accepted
      BY <1>9 DEF SenderCommit, linkVars
    <2>2. Pending = Tail(packetQueue) /\ Pending' = Tail(packetQueue)
      BY <2>1 DEF Pending
    <2> QED BY <2>1, <2>2
  <1>10. ASSUME UNCHANGED <<packetQueue, accepted, wire>>,
                senderPc' = "commit" <=> senderPc = "commit"
         PROVE  /\ accepted' = accepted
                /\ Ids(Pending') = Ids(Pending)
                /\ Ids(wire') = Ids(wire)
    BY <1>10 DEF Pending
  <1> QED
    BY <1>1, <1>2, <1>3, <1>4, <1>5, <1>6, <1>7, <1>8, <1>9, <1>10
    DEF Next, Bridge, Sender, Write

(* In every behaviour the tasks, the mutex and the queue together are a    *)
(* lossy FIFO channel: what the link takes comes in the order of           *)
(* acceptance, once, and only the oldest packet is ever given up.          *)
THEOREM Refinement == Spec => ImplementsChannel
  <1>1. Init => Channel!ChanInit
    <2> SUFFICES ASSUME Init PROVE Channel!ChanInit
      OBVIOUS
    <2>1. accepted = 0 /\ wire = <<>> /\ packetQueue = <<>>
          /\ senderPc = "idle" /\ Len(packetQueue) = 0 /\ Len(wire) = 0
      BY DEF Init, QueueInit
    <2>2. Pending = packetQueue
      BY <2>1 DEF Pending
    <2>3. [i \in 1..Len(Pending) |-> Pending[i].id] = <<>>
      BY <2>1, <2>2
    <2>4. [i \in 1..Len(wire) |-> wire[i].id] = <<>>
      BY <2>1
    <2> QED BY <2>1, <2>3, <2>4 DEF Channel!ChanInit
  <1>2. QueueInv /\ [Next]_vars => [Channel!ChanNext]_(Channel!chanVars)
    <2> SUFFICES ASSUME QueueInv, [Next]_vars
                 PROVE  [Channel!ChanNext]_(Channel!chanVars)
      OBVIOUS
    <2> QED
      BY StepMaps
      DEF Ids, Channel!ChanNext, Channel!chanVars, Channel!Accept,
          Channel!Displace, Channel!Deliver
  <1> QED
    BY <1>1, <1>2, Invariance, PTL
    DEF Spec, ImplementsChannel, Channel!ChanSpec
=============================================================================
