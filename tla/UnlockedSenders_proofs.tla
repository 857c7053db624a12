----------------------- MODULE UnlockedSenders_proofs -----------------------
(***************************************************************************)
(* What the unlocked queues keep, of a UART sender, a UDP sender and the   *)
(* USB sender, for every queue limit, packet size, number of packets and   *)
(* time.                                                                   *)
(*                                                                         *)
(* In each of them the sender task holds a pointer to a packet, or counts  *)
(* packets from the front, while enqueue() may evict at any point.  The    *)
(* invariants say what it still knows then.  The UART sender comes first:  *)
(* Packets is about its queue, InHand relates the pointer to the front of  *)
(* the queue, and Offsets both to the last bytes that were written.  The   *)
(* other two are instances over the same queue, with a shape of the queue, *)
(* Loose, that they share.                                                 *)
(***************************************************************************)
EXTENDS UartSender, UdpState, UsbState, PacketSender_proofs

(* The steps of processSendQueue() that hold the pointer item. *)
Busy == {"measure", "load", "write", "advance", "count", "fetch", "store",
         "free", "clear", "pop"}

(* No packet is larger than the largest, and none was sent further than its *)
(* end, but for one that is freed already and about to be popped.           *)
Sound(p) == /\ p.size <= MaxPacketSize /\ p.sendOffset <= MaxPacketSize
            /\ p.data # NULL => p.sendOffset <= p.size

Packets ==
    /\ Numbered(packetQueue, accepted)
    /\ \A i \in 1..Len(packetQueue) :
          /\ Sound(packetQueue[i])
          /\ packetQueue[i].data = NULL => i = 1 /\ senderPc = "pop"

InHand ==
    /\ itemOffset <= MaxPacketSize /\ itemSize <= MaxPacketSize
    /\ senderPc \in Busy => packetQueue # <<>> /\ item # 0 /\ item <= packetQueue[1].id
    /\ senderPc = "measure" /\ packetQueue[1].id = item =>
          itemOffset = packetQueue[1].sendOffset
    /\ senderPc \in {"load", "write", "advance"} /\ packetQueue[1].id = item =>
          itemOffset + toSend <= packetQueue[1].size
    /\ senderPc = "advance" \/ (senderPc = "write" /\ source # NULL) =>
          itemOffset + toSend <= MaxPacketSize

SafeInv == TypeOK /\ DepthBounded /\ Packets /\ InHand

-----------------------------------------------------------------------------
(* Sizes, and what an enqueue() makes of the queue                          *)

LEMMA SmallSizes ==
    /\ MaxPacketSize \in Nat /\ SizeMod \in Nat /\ MaxPacketSize < SizeMod
    /\ MaxQueuePackets \in Nat /\ MaxQueuePackets >= 1
    /\ OfferedSizes \subseteq 1..MaxPacketSize /\ NULL = 0
  <1>1. 1 * MaxPacketSize <= MaxQueuePackets * MaxPacketSize
    BY LimitsAssumption, ProductMonotonic
  <1>2. MaxQueuePackets * MaxPacketSize \in Nat /\ 1 * MaxPacketSize = MaxPacketSize
    BY LimitsAssumption
  <1> QED BY <1>1, <1>2, LimitsAssumption, OfferAssumption DEF NULL

LEMMA SizeSubType ==
    ASSUME NEW a \in 0..(SizeMod - 1), NEW b \in Nat, b < SizeMod
    PROVE  SizeSub(a, b) \in 0..(SizeMod - 1)
  BY SmallSizes DEF SizeSub

LEMMA SizeAddType ==
    ASSUME NEW a \in 0..(SizeMod - 1), NEW b \in Nat, b < SizeMod
    PROVE  SizeAdd(a, b) \in 0..(SizeMod - 1)
  BY SmallSizes DEF SizeAdd

(* An enqueue() either drops what it was offered, or puts a new packet at    *)
(* the end, at most one going at the front for it.                           *)
LEMMA EnqueueCases ==
    ASSUME TypeOK, DepthBounded, NEW size \in OfferedSizes, Enqueue(size)
    PROVE  \/ packetQueue = <<>> /\ UNCHANGED <<packetQueue, accepted>>
           \/ \E d \in {0, 1} :
                /\ d <= Len(packetQueue) /\ Len(packetQueue) + 1 - d <= MaxQueuePackets
                /\ packetQueue' = Append(IF d = 0 THEN packetQueue ELSE Tail(packetQueue),
                                         Copy(size))
                /\ accepted' = accepted + 1
  <1>1. packetQueue \in Seq(Packet) /\ Len(packetQueue) \in Nat /\ maxQueueDepth \in Nat
    BY DEF TypeOK
  <1>2. CASE WillAccept(size)
    <2>1. /\ packetQueue' = Append(packetQueue, Copy(size)) /\ accepted' = accepted + 1
          /\ Len(packetQueue) < MaxQueuePackets
      BY <1>2 DEF Enqueue, Push, WillAccept
    <2>2. 0 <= Len(packetQueue) /\ Len(packetQueue) + 1 - 0 <= MaxQueuePackets
      BY <1>1, <2>1, SmallSizes
    <2> QED BY <2>1, <2>2
  <1>3. CASE ~WillAccept(size) /\ packetQueue # <<>>
    <2>1. packetQueue' = Append(Tail(packetQueue), Copy(size)) /\ accepted' = accepted + 1
      BY <1>3 DEF Enqueue, Push, PushAfterEviction
    <2>2. 1 <= Len(packetQueue) /\ Len(packetQueue) + 1 - 1 <= MaxQueuePackets
      BY <1>1, <1>3, SmallSizes DEF DepthBounded
    <2> QED BY <2>1, <2>2
  <1>4. CASE ~WillAccept(size) /\ packetQueue = <<>>
    BY <1>4 DEF Enqueue
  <1> QED BY <1>2, <1>3, <1>4

LEMMA CopyType ==
    ASSUME TypeOK, NEW size \in OfferedSizes
    PROVE  Copy(size) \in Packet /\ Copy(size).id = accepted + 1
           /\ Copy(size).sendOffset = 0 /\ Copy(size).data # NULL /\ Sound(Copy(size))
  <1>1. accepted \in Nat /\ streamEnd \in Nat /\ size \in Nat /\ size <= MaxPacketSize
    BY SmallSizes DEF TypeOK
  <1> QED BY <1>1, SmallSizes DEF Copy, Packet, Sound

-----------------------------------------------------------------------------
(* Packets                                                                  *)

LEMMA EnqueuePackets ==
    ASSUME SafeInv, NEW size \in OfferedSizes, Enqueue(size)
    PROVE  Packets' /\ packetQueue' \in Seq(Packet)
  <1>1. /\ packetQueue \in Seq(Packet) /\ Len(packetQueue) \in Nat /\ accepted \in Nat
        /\ senderPc' = senderPc
    BY DEF SafeInv, TypeOK, Enqueue, senderVars
  <1>2. CASE packetQueue = <<>> /\ UNCHANGED <<packetQueue, accepted>>
    BY <1>1, <1>2 DEF SafeInv, Packets, Numbered
  <1>3. ASSUME NEW d \in {0, 1}, d <= Len(packetQueue), accepted' = accepted + 1,
               packetQueue' = Append(IF d = 0 THEN packetQueue ELSE Tail(packetQueue),
                                     Copy(size))
        PROVE  Packets' /\ packetQueue' \in Seq(Packet)
    <2> DEFINE q == packetQueue
               r == packetQueue'
    <2>1. /\ Copy(size) \in Packet /\ Copy(size).id = accepted + 1
          /\ Copy(size).data # NULL /\ Sound(Copy(size))
      BY CopyType DEF SafeInv
    <2>2. /\ r \in Seq(Packet) /\ Len(r) = Len(q) + 1 - d
          /\ \A i \in 1..Len(r) : IF i = Len(r) THEN r[i] = Copy(size)
                                  ELSE i + d \in 1..Len(q) /\ r[i] = q[i + d]
      BY <1>1, <1>3, <2>1, Shifted
    <2>3. \A i \in 1..Len(q) : q[i].id \in Nat /\ q[i].id + Len(q) = accepted + i
      BY <1>1, PacketFields, ElementOfSeq DEF SafeInv, Packets, Numbered
    <2>4. \A i \in 1..Len(q) : Sound(q[i]) /\ (q[i].data = NULL => i = 1 /\ senderPc = "pop")
      BY DEF SafeInv, Packets
    <2> HIDE DEF q, r
    <2>5. Numbered(r, accepted + 1)
      BY <1>1, <1>3, <2>1, ShiftNumbered DEF SafeInv, Packets, q, r
    <2>6. ASSUME NEW i \in 1..Len(r)
          PROVE  Sound(r[i]) /\ (r[i].data = NULL => i = 1 /\ senderPc = "pop")
      <3>1. CASE i = Len(r)
        BY <2>1, <2>2, <3>1
      <3>2. CASE i # Len(r)
        <4>1. i + d \in 1..Len(q) /\ r[i] = q[i + d]
          BY <2>2, <3>2
        <4>2. i + d = 1 => i = 1
          BY <4>1
        <4> QED BY <2>4, <4>1, <4>2
      <3> QED BY <3>1, <3>2
    <2> QED BY <1>1, <1>3, <2>2, <2>5, <2>6 DEF Packets, Numbered, q, r
  <1> QED BY <1>2, <1>3, EnqueueCases DEF SafeInv

(* The front packet is advanced, freed or popped by the sender task. *)
LEMMA FrontPackets ==
    ASSUME SafeInv, packetQueue # <<>>, accepted' = accepted, NEW p \in Packet,
           packetQueue' = [packetQueue EXCEPT ![1] = p],
           p.id = packetQueue[1].id, Sound(p), p.data = NULL => senderPc' = "pop",
           \A i \in 1..Len(packetQueue) : packetQueue[i].data # NULL
    PROVE  Packets' /\ packetQueue' \in Seq(Packet)
  <1> DEFINE q == packetQueue
             r == packetQueue'
  <1>1. q \in Seq(Packet) /\ Len(q) \in Nat
    BY DEF SafeInv, TypeOK
  <1>2. /\ r \in Seq(Packet) /\ Len(r) = Len(q) /\ r[1] = p
        /\ \A i \in 1..Len(q) : i # 1 => r[i] = q[i]
    BY <1>1, FrontSet
  <1>3. \A i \in 1..Len(q) : q[i].id + Len(q) = accepted + i /\ Sound(q[i])
    BY DEF SafeInv, Packets, Numbered
  <1>4. p.id = q[1].id /\ \A i \in 1..Len(q) : q[i].data # NULL
    OBVIOUS
  <1> HIDE DEF q, r
  <1>5. ASSUME NEW i \in 1..Len(r)
        PROVE  /\ r[i].id + Len(r) = accepted + i /\ Sound(r[i])
               /\ r[i].data = NULL => i = 1 /\ senderPc' = "pop"
    <2>1. CASE i = 1
      BY <1>2, <1>3, <1>4, <2>1
    <2>2. CASE i # 1
      BY <1>2, <1>3, <1>4, <2>2
    <2> QED BY <2>1, <2>2
  <1> QED BY <1>2, <1>5 DEF Packets, Numbered, q, r

LEMMA PopPackets ==
    ASSUME SafeInv, packetQueue # <<>>, packetQueue' = Tail(packetQueue),
           accepted' = accepted
    PROVE  Packets' /\ packetQueue' \in Seq(Packet) /\ Len(packetQueue') = Len(packetQueue) - 1
  <1> DEFINE q == packetQueue
             r == packetQueue'
  <1>1. q \in Seq(Packet) /\ Len(q) \in Nat
    BY DEF SafeInv, TypeOK
  <1>2. /\ r \in Seq(Packet) /\ Len(r) = Len(q) - 1
        /\ \A i \in 1..Len(r) : i + 1 \in 1..Len(q) /\ r[i] = q[i + 1]
    BY <1>1, Popped
  <1>3. \A i \in 1..Len(q) : /\ q[i].id \in Nat /\ q[i].id + Len(q) = accepted + i
                              /\ Sound(q[i]) /\ (i # 1 => q[i].data # NULL)
    BY <1>1, PacketFields, ElementOfSeq DEF SafeInv, Packets, Numbered
  <1> HIDE DEF q, r
  <1>4. Numbered(r, accepted)
    BY <1>1, TailNumbered DEF SafeInv, TypeOK, Packets, q, r
  <1>5. ASSUME NEW i \in 1..Len(r) PROVE Sound(r[i]) /\ r[i].data # NULL
    BY <1>2, <1>3
  <1> QED BY <1>2, <1>4, <1>5 DEF Packets, Numbered, q, r

LEMMA NoneFreed ==
    ASSUME SafeInv, senderPc # "pop"
    PROVE  \A i \in 1..Len(packetQueue) : packetQueue[i].data # NULL
  BY DEF SafeInv, Packets

LEMMA SamePackets ==
    ASSUME SafeInv, senderPc # "pop", UNCHANGED <<packetQueue, accepted>>
    PROVE  Packets'
  BY NoneFreed DEF SafeInv, Packets, Numbered

LEMMA Front ==
    ASSUME SafeInv, packetQueue # <<>>
    PROVE  /\ Head(packetQueue) = packetQueue[1] /\ packetQueue[1] \in Packet
           /\ packetQueue[1].id \in Nat \ {0} /\ packetQueue[1].id <= accepted
           /\ packetQueue[1].size \in Nat /\ packetQueue[1].sendOffset \in Nat
           /\ packetQueue[1].data \in Nat /\ Sound(packetQueue[1])
           /\ 1 \in 1..Len(packetQueue)
  <1>1. packetQueue \in Seq(Packet) /\ accepted \in Nat /\ Numbered(packetQueue, accepted)
    BY DEF SafeInv, TypeOK, Packets
  <1>2. Len(packetQueue) \in Nat /\ 1 \in 1..Len(packetQueue) /\ Head(packetQueue) = packetQueue[1]
    BY <1>1
  <1>3. packetQueue[1] \in Packet
    BY <1>1, <1>2, ElementOfSeq
  <1>4. packetQueue[1].id \in Nat \ {0} /\ packetQueue[1].id <= accepted
    BY <1>1, <1>2, Ascending
  <1>5. Sound(packetQueue[1])
    BY <1>2 DEF SafeInv, Packets
  <1> QED BY <1>2, <1>3, <1>4, <1>5 DEF Packet

(* What the pointer item names. *)
LEMMA ItemCases ==
    ASSUME SafeInv, packetQueue # <<>>
    PROVE  /\ ItemQueued <=> packetQueue[1].id = item
           /\ ItemQueued => ItemData = packetQueue[1].data /\ ItemSize = packetQueue[1].size
           /\ ~ItemQueued => ItemData = NULL /\ ItemSize = 0
           /\ ItemData \in Nat /\ ItemSize \in Nat /\ ItemSize <= MaxPacketSize
  BY Front, SmallSizes DEF ItemQueued, ItemData, ItemSize, Sound

-----------------------------------------------------------------------------
(* The steps of the bridge task                                             *)

(* A packet at the front stays, or makes room for a younger one. *)
LEMMA EnqueueFront ==
    ASSUME SafeInv, packetQueue # <<>>, NEW size \in OfferedSizes, Enqueue(size)
    PROVE  /\ packetQueue' # <<>> /\ packetQueue'[1].id \in Nat
           /\ packetQueue'[1] = packetQueue[1] \/ packetQueue[1].id < packetQueue'[1].id
  <1>1. /\ packetQueue \in Seq(Packet) /\ Len(packetQueue) \in Nat /\ accepted \in Nat
        /\ Len(packetQueue) >= 1 /\ 1 \in 1..Len(packetQueue)
    BY Front DEF SafeInv, TypeOK
  <1>2. PICK d \in {0, 1} :
          /\ d <= Len(packetQueue) /\ accepted' = accepted + 1
          /\ packetQueue' = Append(IF d = 0 THEN packetQueue ELSE Tail(packetQueue), Copy(size))
    BY EnqueueCases DEF SafeInv
  <1>3. Copy(size) \in Packet /\ Copy(size).id = accepted + 1
    BY CopyType DEF SafeInv
  <1> DEFINE q == packetQueue
             r == packetQueue'
  <1>4. /\ r \in Seq(Packet) /\ Len(r) = Len(q) + 1 - d
        /\ \A i \in 1..Len(r) : IF i = Len(r) THEN r[i] = Copy(size)
                                ELSE i + d \in 1..Len(q) /\ r[i] = q[i + d]
    BY <1>1, <1>2, <1>3, Shifted
  <1>5. /\ \A i \in 1..Len(q) : q[i].id \in Nat \ {0} /\ q[i].id <= accepted
        /\ \A i, j \in 1..Len(q) : i < j => q[i].id < q[j].id
    BY <1>1, Ascending DEF SafeInv, Packets
  <1> HIDE DEF q, r
  <1>6. Len(r) >= 1 /\ 1 \in 1..Len(r) /\ Len(q) \in Nat /\ 1 \in 1..Len(q)
    BY <1>1, <1>4 DEF q
  <1>7. r # <<>>
    BY <1>4, <1>6
  <1>8. CASE Len(r) = 1
    <2>1. r[1].id = accepted + 1
      BY <1>3, <1>4, <1>6, <1>8
    <2>2. q[1].id \in Nat /\ q[1].id <= accepted
      BY <1>5, <1>6
    <2> QED BY <1>1, <1>7, <2>1, <2>2 DEF q, r
  <1>9. CASE Len(r) # 1
    <2>1. 1 + d \in 1..Len(q) /\ r[1] = q[1 + d]
      BY <1>4, <1>6, <1>9
    <2>2. q[1 + d].id \in Nat /\ (d = 1 => q[1].id < q[1 + d].id)
      BY <1>5, <1>6, <2>1
    <2> QED BY <1>7, <2>1, <2>2 DEF q, r
  <1> QED BY <1>8, <1>9

LEMMA EnqueueSafe ==
    ASSUME SafeInv, NEW size \in OfferedSizes, Enqueue(size) PROVE SafeInv'
  <1>1. Packets' /\ packetQueue' \in Seq(Packet)
    BY EnqueuePackets
  <1>2. size \in Nat /\ size < SizeMod
    BY SmallSizes
  <1>3. BytesWithoutFront \in 0..(SizeMod - 1) \/ packetQueue = <<>>
    <2> SUFFICES ASSUME packetQueue # <<>> PROVE BytesWithoutFront \in 0..(SizeMod - 1)
      OBVIOUS
    <2>1. Head(packetQueue).size \in Nat /\ Head(packetQueue).size < SizeMod
      BY Front, SmallSizes DEF Sound
    <2> QED BY <2>1, SizeSubType DEF BytesWithoutFront, SafeInv, TypeOK
  <1>4. /\ accepted' \in Nat /\ streamEnd' \in Nat /\ totalDropped' \in Nat
        /\ currentQueueBytes' \in 0..(SizeMod - 1) /\ live' \subseteq Nat
        /\ Len(packetQueue') <= maxQueueDepth'
        /\ maxQueueDepth' <= MaxQueuePackets /\ maxQueueDepth' \in Nat
    <2>1. /\ accepted \in Nat /\ streamEnd \in Nat /\ totalDropped \in Nat /\ maxQueueDepth \in Nat
          /\ currentQueueBytes \in 0..(SizeMod - 1) /\ live \subseteq Nat
          /\ packetQueue \in Seq(Packet) /\ Len(packetQueue) \in Nat
          /\ Len(packetQueue) <= maxQueueDepth /\ maxQueueDepth <= MaxQueuePackets
      BY DEF SafeInv, TypeOK, DepthBounded
    <2>2. CASE WillAccept(size)
      <3>1. SizeAdd(currentQueueBytes, size) \in 0..(SizeMod - 1)
        BY <2>1, <1>2, SizeAddType
      <3>2. Len(packetQueue') = Len(packetQueue) + 1
        BY <2>1, <2>2, CopyType DEF SafeInv, Enqueue, Push
      <3>3. /\ maxQueueDepth' = IF Len(packetQueue) + 1 > maxQueueDepth
                                THEN Len(packetQueue) + 1 ELSE maxQueueDepth
            /\ Len(packetQueue) < MaxQueuePackets
        BY <2>2 DEF Enqueue, Push, WillAccept
      <3>4. /\ accepted' = accepted + 1 /\ streamEnd' = streamEnd + size
            /\ totalDropped' = totalDropped /\ live' = live \cup {accepted + 1}
            /\ currentQueueBytes' = SizeAdd(currentQueueBytes, size)
        BY <2>2 DEF Enqueue, Push
      <3>5. maxQueueDepth' \in Nat /\ maxQueueDepth' <= MaxQueuePackets
            /\ Len(packetQueue') <= maxQueueDepth'
        BY <2>1, <3>2, <3>3, SmallSizes
      <3> QED BY <1>2, <2>1, <3>1, <3>4, <3>5
    <2>3. CASE ~WillAccept(size) /\ packetQueue # <<>>
      <3>1. SizeAdd(BytesWithoutFront, size) \in 0..(SizeMod - 1)
        BY <2>3, <1>2, <1>3, SizeAddType
      <3>2. Len(Tail(packetQueue)) = Len(packetQueue) - 1 /\ Tail(packetQueue) \in Seq(Packet)
        BY <2>1, <2>3
      <3>3. /\ packetQueue' = Append(Tail(packetQueue), Copy(size))
            /\ maxQueueDepth' = IF Len(Tail(packetQueue)) + 1 > maxQueueDepth
                                THEN Len(Tail(packetQueue)) + 1 ELSE maxQueueDepth
            /\ accepted' = accepted + 1 /\ streamEnd' = streamEnd + size
            /\ totalDropped' = totalDropped + 1
            /\ live' = (live \ {Head(packetQueue).id}) \cup {accepted + 1}
            /\ currentQueueBytes' = SizeAdd(BytesWithoutFront, size)
        BY <2>3 DEF Enqueue, Push, PushAfterEviction
      <3>4. Len(packetQueue') = Len(packetQueue)
        BY <2>1, <3>2, <3>3, CopyType DEF SafeInv
      <3>5. maxQueueDepth' = maxQueueDepth
        <4> DEFINE n == Len(packetQueue)
                   t == Len(Tail(packetQueue))
        <4>1. t = n - 1 /\ n \in Nat /\ n <= maxQueueDepth /\ maxQueueDepth \in Nat
          BY <2>1, <3>2
        <4>2. maxQueueDepth' = IF t + 1 > maxQueueDepth THEN t + 1 ELSE maxQueueDepth
          BY <3>3
        <4> HIDE DEF n, t
        <4> QED BY <4>1, <4>2
      <3>6. live' \subseteq Nat /\ accepted' \in Nat
        <4>1. accepted + 1 \in Nat
          BY <2>1
        <4>3. live \subseteq Nat
          BY <2>1
        <4>2. accepted' = accepted + 1
              /\ live' = (live \ {Head(packetQueue).id}) \cup {accepted + 1}
          BY <3>3
        <4> QED BY <4>1, <4>2, <4>3, Zenon
      <3>7. streamEnd' \in Nat /\ totalDropped' \in Nat
        BY <1>2, <2>1, <3>3
      <3> QED BY <2>1, <3>1, <3>3, <3>4, <3>5, <3>6, <3>7
    <2>4. CASE ~WillAccept(size) /\ packetQueue = <<>>
      <3>1. /\ totalDropped' = totalDropped + 1
            /\ UNCHANGED <<packetQueue, currentQueueBytes, maxQueueDepth, accepted, streamEnd,
                           live>>
        BY <2>4 DEF Enqueue
      <3> QED BY <2>1, <3>1
    <2> QED BY <2>2, <2>3, <2>4
  <1>5. /\ UNCHANGED <<totalSent, senderPc, item, itemOffset, toSend, source, itemSize,
                       bytesRead, wire>>
        /\ offered' = offered + 1
    BY DEF Enqueue, senderVars
  <1>6. TypeOK' /\ DepthBounded'
    BY <1>1, <1>4, <1>5 DEF SafeInv, TypeOK, DepthBounded
  <1>7. InHand'
    <2>1. CASE packetQueue = <<>>
      <3>1. senderPc \notin Busy
        BY <2>1 DEF SafeInv, InHand
      <3> QED BY <3>1, <1>5 DEF SafeInv, InHand, Busy
    <2>2. CASE packetQueue # <<>>
      <3>1. /\ packetQueue' # <<>> /\ packetQueue'[1].id \in Nat
            /\ packetQueue'[1] = packetQueue[1] \/ packetQueue[1].id < packetQueue'[1].id
        BY <2>2, EnqueueFront
      <3>2. packetQueue[1].id \in Nat /\ item \in Nat
        BY <2>2, Front DEF SafeInv, TypeOK
      <3>3. senderPc \in Busy => item <= packetQueue[1].id
        BY DEF SafeInv, InHand
      <3>4. senderPc \in Busy /\ packetQueue'[1].id = item => packetQueue'[1] = packetQueue[1]
        BY <3>1, <3>2, <3>3
      <3>5. senderPc \in Busy => item <= packetQueue'[1].id
        BY <3>1, <3>2, <3>3
      <3> QED BY <1>5, <3>1, <3>4, <3>5 DEF SafeInv, InHand, Busy
    <2> QED BY <2>1, <2>2
  <1> QED BY <1>1, <1>6, <1>7 DEF SafeInv

-----------------------------------------------------------------------------
(* The steps of the sender task                                             *)

LEMMA MeasureSafe ==
    ASSUME SafeInv, NEW space \in 0..TxSpace, SenderMeasure(space) PROVE SafeInv'
  <1>1. /\ senderPc = "measure" /\ packetQueue # <<>>
        /\ UNCHANGED <<queueVars, item, itemOffset, source, itemSize, bytesRead, offered, wire>>
    BY DEF SenderMeasure, SenderGoes, SafeInv, InHand, Busy
  <1> DEFINE remaining == SizeSub(ItemSize, itemOffset)
  <1>2. /\ ItemSize \in Nat /\ ItemSize <= MaxPacketSize
        /\ itemOffset \in Nat /\ itemOffset <= MaxPacketSize /\ item \in Nat
    BY <1>1, ItemCases DEF SafeInv, TypeOK, InHand
  <1>3. remaining \in Nat /\ (itemOffset <= ItemSize => itemOffset + remaining = ItemSize)
    BY <1>2, SmallSizes DEF SizeSub
  <1>4. /\ toSend' = IF remaining < space THEN remaining ELSE space
        /\ senderPc' \in {"idle", "load"}
    BY DEF SenderMeasure, SenderGoes
  <1> HIDE DEF remaining
  <1>5. toSend' \in Nat /\ toSend' <= remaining
    BY <1>3, <1>4, UartAssumption
  <1>6. packetQueue[1].id = item => itemOffset + toSend' <= packetQueue[1].size
    <2> SUFFICES ASSUME packetQueue[1].id = item
                 PROVE  itemOffset + toSend' <= packetQueue[1].size
      OBVIOUS
    <2>1. itemOffset = packetQueue[1].sendOffset
      BY <1>1 DEF SafeInv, InHand
    <2>2. ItemSize = packetQueue[1].size
      BY <1>1, ItemCases
    <2>3. packetQueue[1].data # NULL
      BY <1>1, NoneFreed, Front
    <2>4. itemOffset <= ItemSize
      BY <1>1, <2>1, <2>2, <2>3, Front DEF Sound
    <2> QED BY <1>2, <1>3, <1>5, <2>2, <2>4
  <1>7. Packets'
    BY <1>1, SamePackets DEF queueVars
  <1>8. TypeOK' /\ DepthBounded'
    BY <1>1, <1>4, <1>5 DEF SafeInv, TypeOK, DepthBounded, queueVars
  <1>9. InHand'
    BY <1>1, <1>4, <1>6 DEF SafeInv, InHand, Busy, queueVars
  <1> QED BY <1>7, <1>8, <1>9 DEF SafeInv

LEMMA CallSafe == SafeInv /\ (SenderCall \/ SenderStops) => SafeInv'
  <1> SUFFICES ASSUME SafeInv, SenderCall \/ SenderStops PROVE SafeInv'
    OBVIOUS
  <1>1. Packets'
    BY SamePackets DEF SenderCall, SenderStops, SenderGoes, queueVars
  <1>2. TypeOK' /\ DepthBounded'
    BY DEF SafeInv, TypeOK, DepthBounded, SenderCall, SenderStops, SenderGoes, queueVars
  <1>3. InHand'
    BY DEF SafeInv, InHand, Busy, SenderCall, SenderStops, SenderGoes, queueVars
  <1> QED BY <1>1, <1>2, <1>3 DEF SafeInv

LEMMA FrontSafe == SafeInv /\ SenderFront => SafeInv'
  <1> SUFFICES ASSUME SafeInv, SenderFront PROVE SafeInv'
    OBVIOUS
  <1>1. /\ item' = packetQueue[1].id /\ itemOffset' = packetQueue[1].sendOffset
        /\ packetQueue # <<>> /\ senderPc = "test" /\ senderPc' = "measure"
        /\ UNCHANGED <<queueVars, toSend, source, itemSize, bytesRead, offered, wire>>
    BY Front DEF SenderFront, SenderGoes
  <1>2. Packets'
    BY <1>1, SamePackets DEF queueVars
  <1>3. /\ item' \in Nat \ {0} /\ itemOffset' \in Nat /\ itemOffset' <= MaxPacketSize
    BY <1>1, Front DEF Sound
  <1>4. TypeOK' /\ DepthBounded'
    BY <1>1, <1>3 DEF SafeInv, TypeOK, DepthBounded, queueVars
  <1>5. InHand'
    BY <1>1, <1>3 DEF SafeInv, InHand, Busy, queueVars
  <1> QED BY <1>2, <1>4, <1>5 DEF SafeInv

LEMMA LoadSafe == SafeInv /\ SenderLoad => SafeInv'
  <1> SUFFICES ASSUME SafeInv, SenderLoad PROVE SafeInv'
    OBVIOUS
  <1>1. /\ source' = ItemData /\ packetQueue # <<>> /\ senderPc = "load" /\ senderPc' = "write"
        /\ UNCHANGED <<queueVars, item, itemOffset, toSend, itemSize, bytesRead, offered, wire>>
    BY DEF SenderLoad, SenderGoes, SafeInv, InHand, Busy
  <1>2. Packets'
    BY <1>1, SamePackets DEF queueVars
  <1>3. source' \in Nat
    BY <1>1, ItemCases
  <1>4. TypeOK' /\ DepthBounded'
    BY <1>1, <1>3 DEF SafeInv, TypeOK, DepthBounded, queueVars
  <1>5. source' # NULL => itemOffset + toSend <= MaxPacketSize
    <2> SUFFICES ASSUME source' # NULL PROVE itemOffset + toSend <= MaxPacketSize
      OBVIOUS
    <2>1. packetQueue[1].id = item
      BY <1>1, ItemCases
    <2>2. itemOffset + toSend <= packetQueue[1].size
      BY <1>1, <2>1 DEF SafeInv, InHand
    <2>3. /\ packetQueue[1].size \in Nat /\ packetQueue[1].size <= MaxPacketSize
          /\ itemOffset \in Nat /\ toSend \in Nat
      BY <1>1, Front DEF Sound, SafeInv, TypeOK
    <2> QED BY <2>2, <2>3, SmallSizes
  <1>6. InHand'
    BY <1>1, <1>5 DEF SafeInv, InHand, Busy, queueVars
  <1> QED BY <1>2, <1>4, <1>6 DEF SafeInv

LEMMA WriteSafe == SafeInv /\ SenderWrite => SafeInv'
  <1> SUFFICES ASSUME SafeInv, SenderWrite PROVE SafeInv'
    OBVIOUS
  <1>1. /\ packetQueue # <<>> /\ senderPc = "write"
        /\ UNCHANGED <<queueVars, item, itemOffset, toSend, source, itemSize, bytesRead, offered>>
    BY DEF SenderWrite, SafeInv, InHand, Busy
  <1>2. Packets'
    BY <1>1, SamePackets DEF queueVars
  <1>3. wire' \in Seq([id: Nat, from: Nat, len: Nat, intact: BOOLEAN])
    <2> DEFINE e == [id |-> item, from |-> itemOffset, len |-> toSend,
                     intact |-> source \in live]
    <2>1. item \in Nat /\ itemOffset \in Nat /\ toSend \in Nat /\ (source \in live) \in BOOLEAN
      BY DEF SafeInv, TypeOK
    <2>2. e \in [id: Nat, from: Nat, len: Nat, intact: BOOLEAN]
      BY <2>1
    <2>3. wire' = wire \/ wire' = Append(wire, e)
      BY DEF SenderWrite
    <2> DEFINE W == [id: Nat, from: Nat, len: Nat, intact: BOOLEAN]
    <2>4. wire \in Seq(W) /\ e \in W
      BY <2>2 DEF SafeInv, TypeOK
    <2> HIDE DEF e, W
    <2>5. wire' \in Seq(W)
      BY <2>3, <2>4, AppendProperties
    <2> QED BY <2>5 DEF W
  <1>4. senderPc' \in {"advance", "idle", "panic"} /\ (senderPc' = "advance" => source # NULL)
    BY DEF SenderWrite
  <1>5. TypeOK' /\ DepthBounded'
    BY <1>1, <1>3, <1>4 DEF SafeInv, TypeOK, DepthBounded, queueVars
  <1>6. InHand'
    BY <1>1, <1>4 DEF SafeInv, InHand, Busy, queueVars
  <1> QED BY <1>2, <1>5, <1>6 DEF SafeInv

LEMMA AdvanceSafe == SafeInv /\ SenderAdvance => SafeInv'
  <1> SUFFICES ASSUME SafeInv, SenderAdvance PROVE SafeInv'
    OBVIOUS
  <1>1. /\ packetQueue # <<>> /\ senderPc = "advance"
        /\ itemOffset' = itemOffset + toSend /\ senderPc' \in {"count", "test"}
        /\ UNCHANGED <<currentQueueBytes, totalSent, totalDropped, maxQueueDepth, accepted,
                       streamEnd, live, item, toSend, source, itemSize, bytesRead, offered, wire>>
    BY DEF SenderAdvance, SenderGoes, SafeInv, InHand, Busy
  <1>2. /\ itemOffset' \in Nat /\ itemOffset' <= MaxPacketSize
    BY <1>1 DEF SafeInv, TypeOK, InHand
  <1>3. /\ Packets' /\ packetQueue' \in Seq(Packet) /\ Len(packetQueue') = Len(packetQueue)
        /\ packetQueue' # <<>> /\ packetQueue'[1].id = packetQueue[1].id
    <2>1. CASE ~ItemQueued
      <3>1. packetQueue' = packetQueue
        BY <2>1 DEF SenderAdvance
      <3> QED BY <1>1, <3>1, SamePackets DEF SafeInv, TypeOK
    <2>2. CASE ItemQueued
      <3> DEFINE p == [packetQueue[1] EXCEPT !.sendOffset = itemOffset']
      <3>1. packetQueue' = [packetQueue EXCEPT ![1] = p]
        BY <2>2 DEF SenderAdvance
      <3>2. /\ packetQueue[1] \in Packet /\ packetQueue[1].data # NULL
            /\ Sound(packetQueue[1]) /\ 1 \in 1..Len(packetQueue)
            /\ packetQueue \in Seq(Packet)
        BY <1>1, Front, NoneFreed DEF SafeInv, TypeOK
      <3>3. itemOffset' <= packetQueue[1].size
        BY <1>1, <2>2, ItemCases DEF SafeInv, InHand
      <3>4. /\ p \in Packet /\ p.id = packetQueue[1].id /\ p.data # NULL
            /\ p.size = packetQueue[1].size /\ p.sendOffset = itemOffset'
        BY <1>2, <3>2 DEF Packet
      <3> HIDE DEF p
      <3>5. Sound(p)
        BY <1>2, <3>2, <3>3, <3>4 DEF Sound
      <3>6. Packets' /\ packetQueue' \in Seq(Packet)
        BY <1>1, <3>1, <3>4, <3>5, FrontPackets, NoneFreed
      <3>7. Len(packetQueue') = Len(packetQueue) /\ packetQueue'[1] = p
        BY <1>1, <3>1, <3>2, <3>4, FrontSet
      <3>8. packetQueue' # <<>>
        BY <3>2, <3>6, <3>7
      <3> QED BY <3>4, <3>6, <3>7, <3>8
    <2> QED BY <2>1, <2>2
  <1>4. TypeOK' /\ DepthBounded'
    BY <1>1, <1>2, <1>3 DEF SafeInv, TypeOK, DepthBounded
  <1>5. InHand'
    BY <1>1, <1>2, <1>3 DEF SafeInv, InHand, Busy
  <1> QED BY <1>3, <1>4, <1>5 DEF SafeInv

LEMMA CountSafe == SafeInv /\ (SenderCount \/ SenderFetch \/ SenderStore \/ SenderFree) => SafeInv'
  <1> SUFFICES ASSUME SafeInv, SenderCount \/ SenderFetch \/ SenderStore \/ SenderFree
               PROVE  SafeInv'
    OBVIOUS
  <1>1. /\ senderPc \in {"count", "fetch", "store", "free"}
        /\ senderPc' \in {"fetch", "store", "free", "clear", "pop"}
        /\ UNCHANGED <<packetQueue, totalDropped, maxQueueDepth, accepted, streamEnd, item,
                       itemOffset, toSend, source, offered, wire>>
    BY DEF SenderCount, SenderFetch, SenderStore, SenderFree, SenderGoes, queueVars
  <1>2. packetQueue # <<>>
    BY <1>1 DEF SafeInv, InHand, Busy
  <1>3. Packets'
    BY <1>1, SamePackets
  <1>4. itemSize' \in Nat /\ itemSize' <= MaxPacketSize
    BY <1>2, ItemCases
       DEF SenderCount, SenderFetch, SenderStore, SenderFree, SafeInv, TypeOK, InHand
  <1>5. /\ currentQueueBytes' \in 0..(SizeMod - 1) /\ bytesRead' \in 0..(SizeMod - 1)
    <2>1. SizeSub(bytesRead, itemSize) \in 0..(SizeMod - 1)
      <3>1. bytesRead \in 0..(SizeMod - 1) /\ itemSize \in Nat
        BY DEF SafeInv, TypeOK
      <3>2. itemSize < SizeMod
        BY <3>1, SmallSizes DEF SafeInv, InHand
      <3> QED BY <3>1, <3>2, SizeSubType
    <2> QED BY <2>1
            DEF SenderCount, SenderFetch, SenderStore, SenderFree, SafeInv, TypeOK, queueVars
  <1>6. totalSent' \in Nat
    BY DEF SenderCount, SenderFetch, SenderStore, SenderFree, SafeInv, TypeOK, queueVars
  <1>9. live' \subseteq Nat
    <2>1. live' = live \/ live' = live \ {ItemData}
      BY DEF SenderCount, SenderFetch, SenderStore, SenderFree, queueVars
    <2>2. live \subseteq Nat
      BY DEF SafeInv, TypeOK
    <2> QED BY <2>1, <2>2, Zenon
  <1>7. TypeOK' /\ DepthBounded'
    BY <1>1, <1>4, <1>5, <1>6, <1>9 DEF SafeInv, TypeOK, DepthBounded
  <1>8. InHand'
    BY <1>1, <1>4 DEF SafeInv, InHand, Busy
  <1> QED BY <1>3, <1>7, <1>8 DEF SafeInv

LEMMA ClearSafe == SafeInv /\ SenderClear => SafeInv'
  <1> SUFFICES ASSUME SafeInv, SenderClear PROVE SafeInv'
    OBVIOUS
  <1>1. /\ packetQueue # <<>> /\ senderPc = "clear" /\ senderPc' = "pop"
        /\ UNCHANGED <<currentQueueBytes, totalSent, totalDropped, maxQueueDepth, accepted,
                       streamEnd, live, item, itemOffset, toSend, source, itemSize, bytesRead,
                       offered, wire>>
    BY DEF SenderClear, SenderGoes, SafeInv, InHand, Busy
  <1>2. /\ Packets' /\ packetQueue' \in Seq(Packet) /\ Len(packetQueue') = Len(packetQueue)
        /\ packetQueue' # <<>> /\ packetQueue'[1].id = packetQueue[1].id
    <2>1. CASE ~ItemQueued
      <3>1. packetQueue' = packetQueue
        BY <2>1 DEF SenderClear
      <3> QED BY <1>1, <3>1, SamePackets DEF SafeInv, TypeOK
    <2>2. CASE ItemQueued
      <3> DEFINE p == [packetQueue[1] EXCEPT !.data = NULL, !.size = 0]
      <3>1. packetQueue' = [packetQueue EXCEPT ![1] = p]
        BY <2>2 DEF SenderClear
      <3>2. /\ packetQueue[1] \in Packet /\ Sound(packetQueue[1]) /\ 1 \in 1..Len(packetQueue)
            /\ packetQueue \in Seq(Packet)
        BY <1>1, Front DEF SafeInv, TypeOK
      <3>3. /\ p \in Packet /\ p.id = packetQueue[1].id /\ p.data = NULL
            /\ p.size = 0 /\ p.sendOffset = packetQueue[1].sendOffset
        BY <3>2, SmallSizes DEF Packet
      <3> HIDE DEF p
      <3>4. Sound(p)
        BY <3>2, <3>3, SmallSizes DEF Sound
      <3>5. Packets' /\ packetQueue' \in Seq(Packet)
        BY <1>1, <3>1, <3>3, <3>4, FrontPackets, NoneFreed
      <3>6. Len(packetQueue') = Len(packetQueue) /\ packetQueue'[1] = p
        BY <1>1, <3>1, <3>2, <3>3, FrontSet
      <3>7. packetQueue' # <<>>
        BY <3>2, <3>5, <3>6
      <3> QED BY <3>3, <3>5, <3>6, <3>7
    <2> QED BY <2>1, <2>2
  <1>3. TypeOK' /\ DepthBounded'
    BY <1>1, <1>2 DEF SafeInv, TypeOK, DepthBounded
  <1>4. InHand'
    BY <1>1, <1>2 DEF SafeInv, InHand, Busy
  <1> QED BY <1>2, <1>3, <1>4 DEF SafeInv

LEMMA PopSafe == SafeInv /\ SenderPop => SafeInv'
  <1> SUFFICES ASSUME SafeInv, SenderPop PROVE SafeInv'
    OBVIOUS
  <1>1. /\ packetQueue # <<>> /\ senderPc = "pop" /\ senderPc' = "test"
        /\ packetQueue' = Tail(packetQueue)
        /\ UNCHANGED <<currentQueueBytes, totalSent, totalDropped, maxQueueDepth, accepted,
                       streamEnd, live, item, itemOffset, toSend, source, itemSize, bytesRead,
                       offered, wire>>
    BY DEF SenderPop, SenderGoes, SafeInv, InHand, Busy
  <1>2. /\ Packets' /\ packetQueue' \in Seq(Packet) /\ Len(packetQueue') = Len(packetQueue) - 1
    BY <1>1, PopPackets
  <1>3. TypeOK'
    BY <1>1, <1>2 DEF SafeInv, TypeOK
  <1>4. DepthBounded'
    BY <1>1, <1>2 DEF SafeInv, TypeOK, DepthBounded
  <1>5. InHand'
    BY <1>1 DEF SafeInv, InHand, Busy
  <1> QED BY <1>2, <1>3, <1>4, <1>5 DEF SafeInv

LEMMA SenderSafe == SafeInv /\ Sender => SafeInv'
  BY CallSafe, FrontSafe, MeasureSafe, LoadSafe, WriteSafe, AdvanceSafe, CountSafe, ClearSafe,
     PopSafe DEF Sender, Measure

-----------------------------------------------------------------------------
LEMMA FreshSafe ==
    ASSUME packetQueue' = <<>>, currentQueueBytes' = 0, totalSent' = 0, totalDropped' = 0,
           maxQueueDepth' = 0, accepted' = 0, streamEnd' = 0, live' = {}, senderPc' = "idle",
           item' = 0, itemOffset' = 0, toSend' = 0, source' = NULL, itemSize' = 0,
           bytesRead' = 0, offered' \in Nat, wire' = <<>>
    PROVE  SafeInv'
  <1>1. /\ packetQueue' \in Seq(Packet) /\ Len(packetQueue') = 0
        /\ wire' \in Seq([id: Nat, from: Nat, len: Nat, intact: BOOLEAN])
    OBVIOUS
  <1>2. TypeOK' /\ DepthBounded'
    BY <1>1, SmallSizes DEF TypeOK, DepthBounded
  <1>3. Packets' /\ InHand'
    BY <1>1, SmallSizes DEF Packets, Numbered, InHand, Busy
  <1> QED BY <1>2, <1>3 DEF SafeInv

LEMMA SafeInit == Init => SafeInv
  <1> SUFFICES ASSUME Init PROVE SafeInv
    OBVIOUS
  <1>1. /\ packetQueue \in Seq(Packet) /\ Len(packetQueue) = 0
        /\ wire \in Seq([id: Nat, from: Nat, len: Nat, intact: BOOLEAN])
    BY DEF Init, QueueInit
  <1>2. TypeOK /\ DepthBounded
    BY <1>1, SmallSizes DEF Init, QueueInit, Idle, TypeOK, DepthBounded
  <1>3. Packets /\ InHand
    BY <1>1, SmallSizes DEF Init, QueueInit, Idle, Packets, Numbered, InHand, Busy
  <1> QED BY <1>2, <1>3 DEF SafeInv

LEMMA SafeStep == SafeInv /\ [Next]_vars => SafeInv'
  <1> SUFFICES ASSUME SafeInv, [Next]_vars PROVE SafeInv'
    OBVIOUS
  <1>1. CASE Bridge
    BY <1>1, EnqueueSafe DEF Bridge
  <1>2. CASE Sender
    BY <1>2, SenderSafe
  <1>3. CASE Reboot
    BY <1>3, FreshSafe DEF Reboot, SafeInv, TypeOK
  <1>4. CASE UNCHANGED vars
    BY <1>4 DEF vars, queueVars, senderVars, SafeInv, TypeOK, DepthBounded, Packets, InHand,
                Numbered
  <1> QED BY <1>1, <1>2, <1>3, <1>4 DEF Next

(* The types of the UART sender's state, whatever an enqueue() falls between: *)
(* the byte counter stays a size_t, offsets and sizes natural numbers.        *)
THEOREM TypeCorrect == Spec => []TypeOK
  <1>1. SafeInv => TypeOK
    BY DEF SafeInv
  <1> QED BY <1>1, SafeInit, SafeStep, PTL DEF Spec

(* What is left of a queue that nobody locks (uart_sender.h:61-104): its      *)
(* limit holds and the sender task never pops an empty deque, for every limit *)
(* and every number of packets.                                               *)
THEOREM QueueSafe == Spec => []QueueHolds
  <1>1. SafeInv => QueueHolds
    BY DEF SafeInv, QueueHolds, PopsFromNonEmpty, InHand, Busy
  <1> QED BY <1>1, SafeInit, SafeStep, PTL DEF Spec

-----------------------------------------------------------------------------
(* The order of the bytes on the UART                                       *)

LastId == IF wire = <<>> THEN 0 ELSE wire[Len(wire)].id
LastEnd == IF wire = <<>> THEN 0 ELSE wire[Len(wire)].from + wire[Len(wire)].len

(* Where a packet has to go on: where the wire left it, or at its start. *)
Goes(id, offset) == offset = IF id = LastId THEN LastEnd ELSE 0

(* Nothing queued is older than what was written last, and every offset is  *)
(* where its packet goes on, but for the one that was just written.         *)
Ahead ==
    /\ LastId <= accepted
    /\ \A i \in 1..Len(packetQueue) :
          /\ LastId <= packetQueue[i].id
          /\ \/ senderPc = "advance" /\ packetQueue[i].id = LastId
             \/ Goes(packetQueue[i].id, packetQueue[i].sendOffset)

ItemAhead ==
    /\ senderPc \in {"measure", "load", "write"} => LastId <= item /\ Goes(item, itemOffset)
    /\ senderPc = "advance" => item = LastId /\ itemOffset + toSend = LastEnd

OrderInv == SafeInv /\ WireInOrder /\ Ahead /\ ItemAhead

LEMMA LastType == SafeInv => LastId \in Nat /\ LastEnd \in Nat
  <1> DEFINE W == [id: Nat, from: Nat, len: Nat, intact: BOOLEAN]
  <1> SUFFICES ASSUME SafeInv, wire # <<>> PROVE LastId \in Nat /\ LastEnd \in Nat
    BY DEF LastId, LastEnd
  <1>1. wire \in Seq(W) /\ Len(wire) \in Nat /\ Len(wire) \in 1..Len(wire)
    BY DEF SafeInv, TypeOK
  <1>2. wire[Len(wire)] \in W
    BY <1>1, ElementOfSeq
  <1> QED BY <1>2 DEF LastId, LastEnd

(* Every packet of the queue is one: its number and its offset. *)
LEMMA QueueTypes ==
    ASSUME SafeInv, NEW i \in 1..Len(packetQueue)
    PROVE  /\ packetQueue[i].id \in Nat \ {0} /\ packetQueue[i].id <= accepted
           /\ packetQueue[i].sendOffset \in Nat /\ accepted \in Nat
           /\ i # 1 => packetQueue[1].id < packetQueue[i].id
  <1>1. packetQueue \in Seq(Packet) /\ accepted \in Nat /\ Numbered(packetQueue, accepted)
    BY DEF SafeInv, TypeOK, Packets
  <1>2. 1 \in 1..Len(packetQueue) /\ (i # 1 => 1 < i)
    BY <1>1
  <1>3. /\ packetQueue[i].id \in Nat \ {0} /\ packetQueue[i].id <= accepted
        /\ i # 1 => packetQueue[1].id < packetQueue[i].id
    BY <1>1, <1>2, Ascending
  <1>4. packetQueue[i] \in Packet
    BY <1>1, ElementOfSeq
  <1> QED BY <1>1, <1>3, <1>4 DEF Packet

(* A step that writes nothing and leaves every queued offset as it was. *)
LEMMA QuietOrder ==
    ASSUME OrderInv, wire' = wire, accepted' = accepted, senderPc # "advance",
           \A i \in 1..Len(packetQueue') : \E j \in 1..Len(packetQueue) :
              /\ packetQueue'[i].id = packetQueue[j].id
              /\ packetQueue'[i].sendOffset = packetQueue[j].sendOffset
    PROVE  WireInOrder' /\ Ahead'
  <1>1. LastId' = LastId /\ LastEnd' = LastEnd
    BY DEF LastId, LastEnd
  <1>2. ASSUME NEW i \in 1..Len(packetQueue')
        PROVE  /\ LastId <= packetQueue'[i].id
               /\ Goes(packetQueue'[i].id, packetQueue'[i].sendOffset)
    BY <1>2 DEF OrderInv, Ahead
  <1> QED BY <1>1, <1>2 DEF OrderInv, WireInOrder, Ahead, Goes

LEMMA EnqueueOrder ==
    ASSUME OrderInv, NEW size \in OfferedSizes, Enqueue(size)
    PROVE  WireInOrder' /\ Ahead' /\ ItemAhead'
  <1>1. UNCHANGED <<wire, senderPc, item, itemOffset, toSend>>
    BY DEF Enqueue, senderVars
  <1>2. LastId' = LastId /\ LastEnd' = LastEnd
    BY <1>1 DEF LastId, LastEnd
  <1>3. WireInOrder' /\ ItemAhead'
    BY <1>1, <1>2 DEF OrderInv, WireInOrder, ItemAhead, Goes
  <1>4. CASE packetQueue = <<>> /\ UNCHANGED <<packetQueue, accepted>>
    BY <1>1, <1>2, <1>3, <1>4 DEF OrderInv, Ahead, Goes
  <1>5. ASSUME NEW d \in {0, 1}, d <= Len(packetQueue), accepted' = accepted + 1,
               packetQueue' = Append(IF d = 0 THEN packetQueue ELSE Tail(packetQueue),
                                     Copy(size))
        PROVE  Ahead'
    <2> DEFINE q == packetQueue
               r == packetQueue'
               At(p) == /\ LastId <= p.id
                        /\ \/ senderPc = "advance" /\ p.id = LastId
                           \/ Goes(p.id, p.sendOffset)
    <2>1. q \in Seq(Packet) /\ accepted \in Nat /\ LastId \in Nat /\ LastId <= accepted
      BY LastType DEF OrderInv, Ahead, SafeInv, TypeOK
    <2>2. /\ Copy(size) \in Packet /\ Copy(size).id = accepted + 1
          /\ Copy(size).sendOffset = 0
      BY CopyType DEF OrderInv, SafeInv
    <2>3. /\ Len(r) = Len(q) + 1 - d
          /\ \A i \in 1..Len(r) : IF i = Len(r) THEN r[i] = Copy(size)
                                  ELSE i + d \in 1..Len(q) /\ r[i] = q[i + d]
      BY <1>5, <2>1, <2>2, Shifted
    <2>4. \A i \in 1..Len(q) : At(q[i])
      BY DEF OrderInv, Ahead
    <2>5. At(Copy(size))
      <3>1. LastId <= accepted + 1 /\ accepted + 1 # LastId
        BY <2>1
      <3> QED BY <2>2, <3>1 DEF Goes
    <2>6. \A i \in 1..Len(r) : At(r[i])
      <3> HIDE DEF q, r, At
      <3> QED BY <2>3, <2>4, <2>5
    <2>7. LastId' <= accepted'
      BY <1>2, <1>5, <2>1
    <2> QED BY <1>1, <1>2, <2>6, <2>7 DEF Ahead, Goes
  <1> QED BY <1>3, <1>4, <1>5, EnqueueCases DEF OrderInv, SafeInv

LEMMA WriteOrder ==
    ASSUME OrderInv, SenderWrite
    PROVE  WireInOrder' /\ Ahead' /\ ItemAhead'
  <1>1. /\ senderPc = "write" /\ packetQueue # <<>>
        /\ UNCHANGED <<packetQueue, accepted, item, itemOffset, toSend>>
    BY DEF SenderWrite, queueVars, OrderInv, SafeInv, InHand, Busy
  <1>2. CASE source = NULL
    <2>1. wire' = wire /\ senderPc' \in {"idle", "panic"}
      BY <1>2 DEF SenderWrite
    <2>2. WireInOrder' /\ Ahead'
      <3>1. \A i \in 1..Len(packetQueue') : \E j \in 1..Len(packetQueue) :
               /\ packetQueue'[i].id = packetQueue[j].id
               /\ packetQueue'[i].sendOffset = packetQueue[j].sendOffset
        BY <1>1
      <3> QED BY <1>1, <2>1, <3>1, QuietOrder
    <2> QED BY <2>1, <2>2 DEF ItemAhead
  <1>3. CASE source # NULL
    <2> DEFINE e == [id |-> item, from |-> itemOffset, len |-> toSend,
                     intact |-> source \in live]
               W == [id: Nat, from: Nat, len: Nat, intact: BOOLEAN]
    <2>1. wire' = Append(wire, e) /\ senderPc' = "advance"
      BY <1>3 DEF SenderWrite
    <2>2. /\ item \in Nat /\ item # 0 /\ itemOffset \in Nat /\ toSend \in Nat
          /\ item <= packetQueue[1].id
      BY <1>1 DEF OrderInv, SafeInv, TypeOK, InHand, Busy
    <2>3. e \in W /\ wire \in Seq(W)
      <3>1. (source \in live) \in BOOLEAN
        OBVIOUS
      <3> QED BY <2>2, <3>1 DEF OrderInv, SafeInv, TypeOK
    <2>4. e.id = item /\ e.from = itemOffset /\ e.len = toSend
      OBVIOUS
    <2>5. LastId <= item /\ Goes(item, itemOffset) /\ LastId \in Nat
      BY <1>1, LastType DEF OrderInv, ItemAhead
    <2> HIDE DEF e, W
    <2>6. /\ Len(wire') = Len(wire) + 1 /\ wire' # <<>> /\ Len(wire) \in Nat
          /\ wire'[Len(wire) + 1] = e
          /\ \A i \in 1..Len(wire) : wire'[i] = wire[i]
      BY <2>1, <2>3, AppendProperties
    <2>7. LastId' = item /\ LastEnd' = itemOffset + toSend
      BY <2>4, <2>6 DEF LastId, LastEnd
    <2>8. WireInOrder'
      <3> DEFINE Fits(w, i) == IF i > 1 /\ w[i - 1].id = w[i].id
                               THEN w[i].from = w[i - 1].from + w[i - 1].len
                               ELSE /\ w[i].from = 0
                                    /\ i > 1 => w[i - 1].id < w[i].id
      <3>1. ASSUME NEW i \in 1..Len(wire') PROVE Fits(wire', i)
        <4>1. CASE i <= Len(wire)
          <5>1. i \in 1..Len(wire) /\ wire'[i] = wire[i]
            BY <2>6, <4>1
          <5>2. i > 1 => wire'[i - 1] = wire[i - 1]
            BY <2>6, <4>1
          <5>3. Fits(wire, i)
            BY <5>1 DEF OrderInv, WireInOrder
          <5> QED BY <5>1, <5>2, <5>3
        <4>2. CASE i = Len(wire) + 1
          <5>1. CASE wire = <<>>
            <6>1. i = 1 /\ LastId = 0 /\ itemOffset = 0
              BY <2>2, <2>5, <4>2, <5>1 DEF LastId, Goes
            <6> QED BY <2>4, <2>6, <4>2, <6>1
          <5>2. CASE wire # <<>>
            <6>1. /\ i - 1 = Len(wire) /\ i > 1 /\ Len(wire) \in 1..Len(wire)
              BY <2>3, <4>2, <5>2
            <6>2. /\ wire'[i - 1].id = LastId
                  /\ wire'[i - 1].from + wire'[i - 1].len = LastEnd
              BY <2>6, <5>2, <6>1 DEF LastId, LastEnd
            <6>3. wire'[i].id = item /\ wire'[i].from = itemOffset
              BY <2>4, <2>6, <4>2
            <6>4. itemOffset = IF item = LastId THEN LastEnd ELSE 0
              BY <2>5 DEF Goes
            <6>5. LastId # item => LastId < item
              BY <2>2, <2>5
            <6> QED BY <6>1, <6>2, <6>3, <6>4, <6>5
          <5> QED BY <5>1, <5>2
        <4> QED BY <2>6, <4>1, <4>2
      <3> QED BY <3>1 DEF WireInOrder
    <2>9. ASSUME NEW i \in 1..Len(packetQueue)
          PROVE  /\ item <= packetQueue[i].id
                 /\ packetQueue[i].id # item => packetQueue[i].sendOffset = 0
      <3>1. /\ packetQueue[1].id \in Nat /\ packetQueue[i].id \in Nat
            /\ i # 1 => packetQueue[1].id < packetQueue[i].id
        BY <1>1, Front, QueueTypes DEF OrderInv
      <3>2. item <= packetQueue[i].id
        BY <2>2, <3>1
      <3>3. Goes(packetQueue[i].id, packetQueue[i].sendOffset)
        BY <1>1 DEF OrderInv, Ahead
      <3>4. packetQueue[i].id # item => packetQueue[i].id # LastId
        BY <2>2, <2>5, <3>1, <3>2
      <3> QED BY <3>2, <3>3, <3>4 DEF Goes
    <2>10. item <= accepted
      <3>1. packetQueue[1].id \in Nat /\ packetQueue[1].id <= accepted /\ accepted \in Nat
        BY <1>1, Front DEF OrderInv, SafeInv, TypeOK
      <3> QED BY <2>2, <3>1
    <2>11. Ahead'
      BY <1>1, <2>1, <2>7, <2>9, <2>10 DEF Ahead, Goes
    <2>12. ItemAhead'
      BY <1>1, <2>1, <2>7 DEF ItemAhead
    <2> QED BY <2>8, <2>11, <2>12
  <1> QED BY <1>2, <1>3

LEMMA AdvanceOrder ==
    ASSUME OrderInv, SenderAdvance
    PROVE  WireInOrder' /\ Ahead' /\ ItemAhead'
  <1>1. /\ senderPc = "advance" /\ senderPc' \in {"count", "test"} /\ packetQueue # <<>>
        /\ itemOffset' = itemOffset + toSend /\ UNCHANGED <<wire, accepted, item, toSend>>
    BY DEF SenderAdvance, SenderGoes, OrderInv, SafeInv, InHand, Busy
  <1>2. LastId' = LastId /\ LastEnd' = LastEnd
    BY <1>1 DEF LastId, LastEnd
  <1>3. item = LastId /\ itemOffset' = LastEnd
    BY <1>1 DEF OrderInv, ItemAhead
  <1>4. WireInOrder' /\ ItemAhead'
    BY <1>1 DEF OrderInv, WireInOrder, ItemAhead
  <1>5. ASSUME NEW i \in 1..Len(packetQueue), i # 1 \/ packetQueue[1].id # item
        PROVE  Goes(packetQueue[i].id, packetQueue[i].sendOffset)
    <2>1. /\ packetQueue[1].id \in Nat /\ packetQueue[i].id \in Nat /\ item \in Nat
          /\ i # 1 => packetQueue[1].id < packetQueue[i].id
      BY <1>1, Front, QueueTypes DEF OrderInv, SafeInv, TypeOK
    <2>2. item <= packetQueue[1].id
      BY <1>1 DEF OrderInv, SafeInv, InHand, Busy
    <2>3. packetQueue[i].id # LastId
      BY <1>3, <1>5, <2>1, <2>2
    <2> QED BY <2>3 DEF OrderInv, Ahead
  <1>6. CASE ~ItemQueued
    <2>1. packetQueue' = packetQueue
      BY <1>6 DEF SenderAdvance
    <2>2. packetQueue[1].id # item
      BY <1>1, <1>6, ItemCases DEF OrderInv
    <2> QED BY <1>1, <1>2, <1>4, <1>5, <2>1, <2>2 DEF OrderInv, Ahead, Goes
  <1>7. CASE ItemQueued
    <2> DEFINE p == [packetQueue[1] EXCEPT !.sendOffset = itemOffset']
    <2>1. packetQueue' = [packetQueue EXCEPT ![1] = p]
      BY <1>7 DEF SenderAdvance
    <2>2. /\ packetQueue[1] \in Packet /\ packetQueue \in Seq(Packet)
          /\ itemOffset' \in Nat /\ packetQueue[1].id = item
      BY <1>1, <1>7, Front, ItemCases DEF OrderInv, SafeInv, TypeOK
    <2>3. p \in Packet /\ p.id = item /\ p.sendOffset = itemOffset'
      BY <2>2 DEF Packet
    <2> HIDE DEF p
    <2>4. /\ Len(packetQueue') = Len(packetQueue) /\ packetQueue'[1] = p
          /\ \A i \in 1..Len(packetQueue) : i # 1 => packetQueue'[i] = packetQueue[i]
      BY <1>1, <2>1, <2>2, <2>3, FrontSet
    <2>5. ASSUME NEW i \in 1..Len(packetQueue')
          PROVE  /\ LastId <= packetQueue'[i].id
                 /\ Goes(packetQueue'[i].id, packetQueue'[i].sendOffset)
      <3>1. CASE i = 1
        <4>1. LastId <= LastId
          BY LastType DEF OrderInv
        <4> QED BY <1>3, <2>3, <2>4, <3>1, <4>1 DEF Goes
      <3>2. CASE i # 1
        BY <1>5, <2>4, <3>2 DEF OrderInv, Ahead
      <3> QED BY <3>1, <3>2
    <2>6. Ahead'
      BY <1>1, <1>2, <2>5 DEF OrderInv, Ahead, Goes
    <2> QED BY <1>4, <2>6
  <1> QED BY <1>6, <1>7

LEMMA FrontOrder ==
    ASSUME OrderInv, SenderFront
    PROVE  WireInOrder' /\ Ahead' /\ ItemAhead'
  <1>1. /\ item' = packetQueue[1].id /\ itemOffset' = packetQueue[1].sendOffset
        /\ packetQueue # <<>> /\ senderPc = "test" /\ senderPc' = "measure"
        /\ UNCHANGED <<packetQueue, accepted, wire>> /\ 1 \in 1..Len(packetQueue)
    BY Front DEF SenderFront, SenderGoes, queueVars, OrderInv
  <1>2. WireInOrder' /\ Ahead'
    BY <1>1, QuietOrder
  <1>3. LastId <= packetQueue[1].id /\ Goes(packetQueue[1].id, packetQueue[1].sendOffset)
    BY <1>1 DEF OrderInv, Ahead
  <1>4. LastId' = LastId /\ LastEnd' = LastEnd
    BY <1>1 DEF LastId, LastEnd
  <1> QED BY <1>1, <1>2, <1>3, <1>4 DEF ItemAhead, Goes

LEMMA StillOrder ==
    ASSUME OrderInv,
           \/ SenderCall \/ SenderStops \/ Measure \/ SenderLoad
           \/ SenderCount \/ SenderFetch \/ SenderStore \/ SenderFree
    PROVE  WireInOrder' /\ Ahead' /\ ItemAhead'
  <1>1. /\ UNCHANGED <<packetQueue, accepted, item, itemOffset, wire>>
        /\ senderPc # "advance" /\ senderPc' # "advance"
        /\ senderPc' \in {"measure", "load", "write"} => senderPc \in {"measure", "load"}
    BY DEF SenderCall, SenderStops, Measure, SenderMeasure, SenderLoad, SenderCount,
           SenderFetch, SenderStore, SenderFree, SenderGoes, queueVars
  <1>2. WireInOrder' /\ Ahead'
    BY <1>1, QuietOrder
  <1>3. LastId' = LastId /\ LastEnd' = LastEnd
    BY <1>1 DEF LastId, LastEnd
  <1> QED BY <1>1, <1>2, <1>3 DEF OrderInv, ItemAhead, Goes

LEMMA ClearOrder ==
    ASSUME OrderInv, SenderClear
    PROVE  WireInOrder' /\ Ahead' /\ ItemAhead'
  <1>1. /\ UNCHANGED <<accepted, wire>> /\ packetQueue # <<>>
        /\ senderPc = "clear" /\ senderPc' = "pop"
    BY DEF SenderClear, SenderGoes, OrderInv, SafeInv, InHand, Busy
  <1>2. \A i \in 1..Len(packetQueue') : \E j \in 1..Len(packetQueue) :
           /\ packetQueue'[i].id = packetQueue[j].id
           /\ packetQueue'[i].sendOffset = packetQueue[j].sendOffset
    <2>1. CASE ~ItemQueued
      BY <2>1 DEF SenderClear
    <2>2. CASE ItemQueued
      <3> DEFINE p == [packetQueue[1] EXCEPT !.data = NULL, !.size = 0]
      <3>1. packetQueue' = [packetQueue EXCEPT ![1] = p]
        BY <2>2 DEF SenderClear
      <3>2. packetQueue[1] \in Packet /\ packetQueue \in Seq(Packet)
        BY <1>1, Front DEF OrderInv, SafeInv, TypeOK
      <3>3. p \in Packet /\ p.id = packetQueue[1].id /\ p.sendOffset = packetQueue[1].sendOffset
        BY <3>2, SmallSizes DEF Packet
      <3> HIDE DEF p
      <3>4. /\ Len(packetQueue') = Len(packetQueue) /\ packetQueue'[1] = p
            /\ \A i \in 1..Len(packetQueue) : i # 1 => packetQueue'[i] = packetQueue[i]
        BY <1>1, <3>1, <3>2, <3>3, FrontSet
      <3> QED BY <3>3, <3>4
    <2> QED BY <2>1, <2>2
  <1>3. WireInOrder' /\ Ahead'
    BY <1>1, <1>2, QuietOrder
  <1> QED BY <1>1, <1>3 DEF ItemAhead

LEMMA PopOrder ==
    ASSUME OrderInv, SenderPop
    PROVE  WireInOrder' /\ Ahead' /\ ItemAhead'
  <1>1. /\ UNCHANGED <<accepted, wire>> /\ packetQueue # <<>>
        /\ packetQueue' = Tail(packetQueue) /\ senderPc = "pop" /\ senderPc' = "test"
    BY DEF SenderPop, SenderGoes, OrderInv, SafeInv, InHand, Busy
  <1>2. packetQueue \in Seq(Packet)
    BY DEF OrderInv, SafeInv, TypeOK
  <1>3. \A i \in 1..Len(packetQueue') : i + 1 \in 1..Len(packetQueue)
                                        /\ packetQueue'[i] = packetQueue[i + 1]
    BY <1>1, <1>2, Popped
  <1>4. WireInOrder' /\ Ahead'
    BY <1>1, <1>3, QuietOrder
  <1> QED BY <1>1, <1>4 DEF ItemAhead

LEMMA EmptyOrder ==
    ASSUME packetQueue' = <<>>, accepted' = 0, wire' = <<>>, senderPc' = "idle"
    PROVE  WireInOrder' /\ Ahead' /\ ItemAhead'
  BY DEF WireInOrder, Ahead, ItemAhead, LastId

LEMMA OrderInit == Init => OrderInv
  BY SafeInit DEF Init, QueueInit, Idle, OrderInv, WireInOrder, Ahead, ItemAhead, LastId

LEMMA OrderStep == OrderInv /\ [Next]_vars => OrderInv'
  <1> SUFFICES ASSUME OrderInv, [Next]_vars PROVE OrderInv'
    OBVIOUS
  <1>1. SafeInv'
    BY SafeStep DEF OrderInv
  <1>2. CASE Bridge
    BY <1>1, <1>2, EnqueueOrder DEF Bridge, OrderInv
  <1>3. CASE Sender
    BY <1>1, <1>3, FrontOrder, StillOrder, WriteOrder, AdvanceOrder, ClearOrder, PopOrder
       DEF Sender, OrderInv
  <1>4. CASE Reboot
    BY <1>1, <1>4, EmptyOrder DEF Reboot, OrderInv
  <1>5. CASE UNCHANGED vars
    BY <1>1, <1>5 DEF vars, queueVars, senderVars, OrderInv, WireInOrder, Ahead, ItemAhead,
                      Goes, LastId, LastEnd
  <1> QED BY <1>2, <1>3, <1>4, <1>5 DEF Next

(* Whatever packets the bridge task evicts between two steps of the sender   *)
(* task, the bytes on the UART are in the order of acceptance, each packet    *)
(* from its first byte on and none twice (uart_sender.h:61-104).              *)
THEOREM WireSafe == Spec => []WireInOrder
  <1>1. OrderInv => WireInOrder
    BY DEF OrderInv
  <1> QED BY <1>1, OrderInit, OrderStep, PTL DEF Spec

-----------------------------------------------------------------------------
(* The queue of the other two unlocked senders                              *)

(* Only the packet at the front may be freed; the copies are their own.     *)
Loose(q, acc) ==
    /\ q \in Seq(Packet) /\ Numbered(q, acc)
    /\ \A i \in 1..Len(q) : /\ q[i].size <= MaxPacketSize
                            /\ q[i].data \in {NULL, q[i].id}
                            /\ i # 1 => q[i].data # NULL
Kept(q) == q # <<>> => q[1].data # NULL

(* What an enqueue() makes of queue q: an appended copy c, for which d packets *)
(* had to go.                                                                  *)
Shift(q, d, c) == Append(IF d = 0 THEN q ELSE Tail(q), c)

LEMMA LooseFront ==
    ASSUME NEW q, NEW acc \in Nat, Loose(q, acc), q # <<>>
    PROVE  /\ Len(q) \in Nat \ {0} /\ 1 \in 1..Len(q) /\ Head(q) = q[1] /\ q[1] \in Packet
           /\ q[1].id \in Nat \ {0} /\ q[1].id = acc + 1 - Len(q) /\ q[1].id <= acc
           /\ q[1].size \in 0..MaxPacketSize /\ q[1].data \in Nat
           /\ q[1].data \in {NULL, q[1].id}
  <1>1. q \in Seq(Packet) /\ Len(q) \in Nat \ {0} /\ 1 \in 1..Len(q) /\ Head(q) = q[1]
    BY DEF Loose
  <1>2. q[1] \in Packet
    BY <1>1, ElementOfSeq
  <1>3. /\ q[1].id \in Nat \ {0} /\ q[1].size \in Nat /\ q[1].data \in Nat
    BY <1>2 DEF Packet
  <1>4. q[1].id + Len(q) = acc + 1 /\ q[1].size <= MaxPacketSize
        /\ q[1].data \in {NULL, q[1].id}
    BY <1>1 DEF Loose, Numbered
  <1>5. q[1].id = acc + 1 - Len(q) /\ q[1].id <= acc
    BY <1>1, <1>3, <1>4
  <1> QED BY <1>1, <1>2, <1>3, <1>4, <1>5, SmallSizes

LEMMA LoosePop ==
    ASSUME NEW q, NEW acc \in Nat, Loose(q, acc), q # <<>>
    PROVE  Loose(Tail(q), acc) /\ Kept(Tail(q)) /\ Len(Tail(q)) = Len(q) - 1
  <1> DEFINE r == Tail(q)
  <1>1. q \in Seq(Packet) /\ Len(q) \in Nat
    BY DEF Loose
  <1>2. /\ r \in Seq(Packet) /\ Len(r) = Len(q) - 1
        /\ \A i \in 1..Len(r) : i + 1 \in 1..Len(q) /\ r[i] = q[i + 1]
    BY <1>1, Popped
  <1>3. \A i \in 1..Len(q) : /\ q[i].id \in Nat /\ q[i].id + Len(q) = acc + i
    BY <1>1, PacketFields, ElementOfSeq DEF Loose, Numbered
  <1>4. \A i \in 1..Len(q) : /\ q[i].size <= MaxPacketSize /\ q[i].data \in {NULL, q[i].id}
                             /\ i # 1 => q[i].data # NULL
    BY DEF Loose
  <1> HIDE DEF r
  <1>5. Numbered(r, acc)
    BY <1>1, TailNumbered DEF Loose, r
  <1>6. ASSUME NEW i \in 1..Len(r)
        PROVE  /\ r[i].size <= MaxPacketSize /\ r[i].data \in {NULL, r[i].id}
               /\ r[i].data # NULL
    <2>1. i + 1 \in 1..Len(q) /\ r[i] = q[i + 1] /\ i + 1 # 1
      BY <1>2
    <2> QED BY <1>4, <2>1
  <1>7. Loose(r, acc)
    BY <1>2, <1>5, <1>6 DEF Loose, Numbered
  <1>8. Kept(r)
    <2>1. r # <<>> => 1 \in 1..Len(r)
      BY <1>2
    <2> QED BY <1>6, <2>1 DEF Kept
  <1> QED BY <1>2, <1>7, <1>8 DEF r

(* free() of the packet at the front. *)
LEMMA LooseSet ==
    ASSUME NEW q, NEW acc \in Nat, Loose(q, acc), q # <<>>, NEW r \in Seq(Packet),
           Len(r) = Len(q), \A i \in 1..Len(q) : i # 1 => r[i] = q[i],
           r[1].id = q[1].id, r[1].data = 0, r[1].size = 0
    PROVE  Loose(r, acc) /\ r # <<>>
  <1>1. q[1] \in Packet /\ Len(q) \in Nat \ {0} /\ q \in Seq(Packet)
    BY LooseFront DEF Loose
  <1>2. /\ r \in Seq(Packet) /\ Len(r) = Len(q)
        /\ r[1].id = q[1].id /\ r[1].data = 0 /\ r[1].size = 0
        /\ \A i \in 1..Len(q) : i # 1 => r[i] = q[i]
    OBVIOUS
  <1>3. ASSUME NEW i \in 1..Len(r)
        PROVE  /\ r[i].id + Len(r) = acc + i /\ r[i].size <= MaxPacketSize
               /\ r[i].data \in {NULL, r[i].id} /\ (i # 1 => r[i].data # NULL)
    <2>1. CASE i = 1
      <3>1. q[1].id + Len(q) = acc + 1
        BY <1>1 DEF Loose, Numbered
      <3> QED BY <1>2, <2>1, <3>1, SmallSizes
    <2>2. CASE i # 1
      BY <1>2, <2>2 DEF Loose, Numbered
    <2> QED BY <2>1, <2>2
  <1>4. Loose(r, acc)
    BY <1>2, <1>3 DEF Loose, Numbered
  <1>5. r # <<>>
    BY <1>1, <1>2
  <1> QED BY <1>2, <1>4, <1>5

Freed(q) == [q EXCEPT ![1].data = 0, ![1].size = 0]
LEMMA LooseFree ==
    ASSUME NEW q, NEW acc \in Nat, Loose(q, acc), q # <<>>
    PROVE  /\ Loose(Freed(q), acc) /\ Len(Freed(q)) = Len(q) /\ Freed(q) # <<>>
           /\ Freed(q)[1].id = q[1].id
           /\ Freed(q)[1].data = 0 /\ Freed(q)[1].size = 0
  <1> DEFINE p == [q[1] EXCEPT !.data = 0, !.size = 0]
             r == Freed(q)
  <1>1. q[1] \in Packet
    BY LooseFront
  <1>2. r = [q EXCEPT ![1] = p]
    BY DEF Freed
  <1>3. p \in Packet /\ p.id = q[1].id /\ p.data = 0 /\ p.size = 0
    BY <1>1 DEF Packet
  <1>4. q \in Seq(Packet) /\ 1 \in 1..Len(q)
    BY LooseFront DEF Loose
  <1> HIDE DEF p
  <1>5. /\ [q EXCEPT ![1] = p] \in Seq(Packet) /\ Len([q EXCEPT ![1] = p]) = Len(q)
        /\ \A i \in 1..Len(q) : [q EXCEPT ![1] = p][i] = IF i = 1 THEN p ELSE q[i]
    BY <1>3, <1>4, ExceptSeq
  <1> HIDE DEF r
  <1>6. /\ r \in Seq(Packet) /\ Len(r) = Len(q) /\ r[1] = p
        /\ \A i \in 1..Len(q) : i # 1 => r[i] = q[i]
    BY <1>2, <1>4, <1>5
  <1>7. Loose(r, acc) /\ r # <<>>
    BY <1>3, <1>6, LooseSet
  <1> QED BY <1>3, <1>6, <1>7 DEF r

(* enqueue() *)
LEMMA LooseShift ==
    ASSUME NEW q, NEW acc \in Nat, Loose(q, acc), NEW c \in Packet, NEW d \in {0, 1},
           d <= Len(q), c.id = acc + 1, c.data = acc + 1, c.size <= MaxPacketSize
    PROVE  /\ Loose(Shift(q, d, c), acc + 1) /\ Len(Shift(q, d, c)) = Len(q) + 1 - d
           /\ Shift(q, d, c) # <<>> /\ (Kept(q) => Kept(Shift(q, d, c)))
           /\ q # <<>> /\ d = 0 => Shift(q, d, c)[1] = q[1]
           /\ d = 1 => Shift(q, d, c)[1].id = q[1].id + 1 /\ Kept(Shift(q, d, c))
  <1> DEFINE r == Shift(q, d, c)
  <1>1. q \in Seq(Packet) /\ Len(q) \in Nat
    BY DEF Loose
  <1>2. /\ r \in Seq(Packet) /\ Len(r) = Len(q) + 1 - d
        /\ \A i \in 1..Len(r) : IF i = Len(r) THEN r[i] = c
                                ELSE i + d \in 1..Len(q) /\ r[i] = q[i + d]
    BY <1>1, Shifted DEF Shift
  <1>3. \A i \in 1..Len(q) : q[i].id \in Nat /\ q[i].id + Len(q) = acc + i
    BY <1>1, PacketFields, ElementOfSeq DEF Loose, Numbered
  <1>4. \A i \in 1..Len(q) : /\ q[i].size <= MaxPacketSize /\ q[i].data \in {NULL, q[i].id}
                             /\ i # 1 => q[i].data # NULL
    BY DEF Loose
  <1> HIDE DEF r
  <1>5. Numbered(r, acc + 1)
    BY <1>1, ShiftNumbered DEF Loose, Shift, r
  <1>6. ASSUME NEW i \in 1..Len(r)
        PROVE  /\ r[i].size <= MaxPacketSize /\ r[i].data \in {NULL, r[i].id}
               /\ (i # 1 \/ d = 1 \/ Len(r) = 1) => r[i].data # NULL
    <2>1. CASE i = Len(r)
      BY <1>2, <2>1, SmallSizes
    <2>2. CASE i # Len(r)
      <3>1. i + d \in 1..Len(q) /\ r[i] = q[i + d]
        BY <1>2, <2>2
      <3>2. i # 1 \/ d = 1 \/ Len(r) = 1 => i + d # 1
        BY <1>2, <2>2
      <3> QED BY <1>4, <3>1, <3>2
    <2> QED BY <2>1, <2>2
  <1>7. Loose(r, acc + 1)
    BY <1>2, <1>5, <1>6 DEF Loose, Numbered
  <1>8. Len(r) \in Nat /\ Len(r) >= 1 /\ 1 \in 1..Len(r)
    BY <1>1, <1>2
  <1>9. r # <<>>
    BY <1>2, <1>8
  <1>10. ASSUME q # <<>>, d = 0 PROVE r[1] = q[1]
    <2>1. Len(q) >= 1
      BY <1>1, <1>10
    <2>2. Len(r) # 1
      BY <1>1, <1>2, <1>10, <2>1
    <2> QED BY <1>2, <1>8, <1>10, <2>2
  <1>11. ASSUME d = 1 PROVE r[1].id = q[1].id + 1 /\ r[1].data # NULL
    <2>1. Len(r) = Len(q) /\ 1 \in 1..Len(q)
      BY <1>1, <1>2, <1>11
    <2>2. CASE Len(q) = 1
      BY <1>2, <1>3, <1>6, <1>8, <1>11, <2>1, <2>2
    <2>3. CASE Len(q) # 1
      <3>1. 2 \in 1..Len(q) /\ r[1] = q[2]
        BY <1>1, <1>2, <1>8, <1>11, <2>1, <2>3
      <3>2. /\ q[1].id \in Nat /\ q[1].id + Len(q) = acc + 1
            /\ q[2].id \in Nat /\ q[2].id + Len(q) = acc + 2
        BY <1>3, <2>1, <3>1
      <3>3. q[2].id = q[1].id + 1
        BY <1>1, <3>2
      <3> QED BY <1>6, <1>8, <1>11, <3>1, <3>3
    <2> QED BY <2>2, <2>3
  <1>12. Kept(q) => Kept(r)
    <2> SUFFICES ASSUME Kept(q) PROVE r[1].data # NULL
      BY DEF Kept
    <2>1. CASE d = 1
      BY <1>11, <2>1
    <2>2. CASE d = 0 /\ q = <<>>
      BY <1>2, <1>6, <1>8, <2>2
    <2>3. CASE d = 0 /\ q # <<>>
      BY <1>10, <2>3 DEF Kept
    <2> QED BY <2>1, <2>2, <2>3
  <1> QED BY <1>2, <1>7, <1>9, <1>10, <1>11, <1>12 DEF r, Kept

-----------------------------------------------------------------------------
(* The UDP sender: its types, its batches and the order of its packets      *)

Udp == INSTANCE UdpSender

(* The number of the packet that the queue gives next, and the first number  *)
(* that neither the wire nor a batch may hold yet.                           *)
UdpNext == accepted + 1 - Len(packetQueue)
UdpUnsent == IF senderPc \in {"fit", "add"} THEN item
             ELSE IF senderPc \in {"free", "pop"} /\ ~clearing THEN item + 1
             ELSE UdpNext

UdpQueue == Loose(packetQueue, accepted) /\ (senderPc # "pop" => Kept(packetQueue))

(* The pointer of the sender task: its packet is at the front, or evicted. *)
UdpHeld == {"fit", "add", "free", "pop"}
UdpHand ==
    /\ senderPc \in UdpHeld => packetQueue # <<>>
    /\ senderPc \in {"fit", "add"} => ~clearing
    /\ senderPc \in UdpHeld /\ ~clearing =>
          item \in Nat \ {0} /\ item <= UdpNext /\ (itemWhole <=> item \in wholes)

(* The room that was made is still there: an evicted packet is smaller. *)
UdpRoom ==
    senderPc = "add" =>
        /\ itemWhole /\ batching => atomicBatchSize + Udp!ItemSize <= MTU_SIZE
        /\ ~itemWhole => rawBatchSize + Udp!ItemSize <= MTU_SIZE

(* The batch of the SBUS output has an age while it has a frame. *)
UdpSbus ==
    role = "sbus" => /\ senderPc = "idle" /\ atomicBatch = <<>>
                     /\ atomicBatchSize = 0 <=> atomicAge = Unset

(* The batches and the wire. *)
Below(s, n) == \A i \in 1..Len(s) : s[i] < n
UdpGood(s, kind, n) ==
    /\ Udp!InOrder(s.wire, s.batch, kind) /\ Udp!InOrder(s.wire, s.raw, Nat \ kind)
    /\ Below(s.wire, n) /\ Below(s.batch, n) /\ Below(s.raw, n)

LEMMA BelowNat ==
    ASSUME NEW s \in Seq(Nat), NEW n, Below(s, n)
    PROVE  \A i \in 1..Len(s) : s[i] \in Nat /\ s[i] < n
  BY ElementOfSeq DEF Below

UdpInv ==
    /\ Udp!UdpTypeOK /\ UdpQueue /\ UdpHand /\ UdpRoom /\ UdpSbus
    /\ wholes \subseteq 1..accepted /\ (~batching => atomicBatch = <<>>)
    /\ UdpGood(Udp!State, wholes, UdpUnsent) /\ Udp!FreshFrames

UdpStates == [batch : Seq(Nat), size : 0..MTU_SIZE, packets : Nat, age : Nat \cup {Unset},
              raw : Seq(Nat), rawSize : 0..MTU_SIZE, rawAge : Nat \cup {Unset},
              sent : Nat, wire : Seq(Nat)]

LEMMA BulkTimeout == BATCH_TIMEOUT[TRUE] \in Nat
  <1>1. BATCH_TIMEOUT \in [BOOLEAN -> Nat \ {0}]
    BY UdpAssumption
  <1> QED BY <1>1, ForTrue

LEMMA UdpConstants ==
           /\ MaxPacketSize \in Nat /\ MTU_SIZE \in Nat /\ MaxPacketSize <= MTU_SIZE
           /\ OfferedSizes \subseteq 1..MaxPacketSize
           /\ Gaps \subseteq Nat \ {0} /\ Periods \subseteq Nat \ {0} /\ Rates \subseteq 1..1000
           /\ FrameSize \in 1..MTU_SIZE /\ MaxOffers \in Nat
           /\ SBUS_STALE \in Nat /\ SBUS_STALE > 0 /\ RAW_TIMEOUT \in Nat /\ SBUS_FRAMES \in Nat
           /\ BATCH_TIMEOUT[TRUE] \in Nat /\ Unset \notin Nat
           /\ Udp!Packet = Packet /\ Udp!NULL = 0 /\ NULL = 0
  <1>1. /\ MaxPacketSize \in Nat /\ MaxPacketSize <= MTU_SIZE
        /\ OfferedSizes \subseteq 1..MaxPacketSize
        /\ Gaps \subseteq Nat \ {0} /\ Periods \subseteq Nat \ {0} /\ Rates \subseteq 1..1000
        /\ FrameSize \in 1..MTU_SIZE /\ Unset \notin Nat
        /\ BATCH_TIMEOUT \in [BOOLEAN -> Nat \ {0}]
    BY LimitsAssumption, OfferAssumption, UnsetAssumption, UdpAssumption
  <1>2. /\ MTU_SIZE \in Nat \ {0} /\ RAW_TIMEOUT \in Nat \ {0}
        /\ SBUS_FRAMES \in Nat \ {0} /\ SBUS_STALE \in Nat \ {0}
    BY UdpAssumption
  <1>3. Udp!Packet = Packet /\ Udp!NULL = 0 /\ NULL = 0
    BY DEF Udp!Packet, Packet, Udp!NULL, NULL
  <1>4. BATCH_TIMEOUT[TRUE] \in Nat
    BY BulkTimeout
  <1>5. /\ SBUS_STALE > 0 /\ SBUS_STALE \in Nat /\ MTU_SIZE \in Nat
        /\ MaxOffers \in Nat /\ RAW_TIMEOUT \in Nat /\ SBUS_FRAMES \in Nat
    BY <1>2, OfferAssumption
  <1> QED BY <1>1, <1>3, <1>4, <1>5

(* A batch goes out at the end of what was sent of its kind. *)
LEMMA JoinInOrder ==
    ASSUME NEW w \in Seq(Nat), NEW b \in Seq(Nat), NEW c \in Seq(Nat), NEW K, NEW M,
           Udp!InOrder(w, b, K), Udp!InOrder(w, c, M), K \cap M = {}
    PROVE  /\ w \o b \in Seq(Nat)
           /\ Udp!InOrder(w \o b, <<>>, K) /\ Udp!InOrder(w \o b, c, M)
  <1> DEFINE v == w \o b
  <1>1. /\ v \in Seq(Nat) /\ Len(v) = Len(w) + Len(b)
        /\ \A i \in 1..Len(w) + Len(b) : v[i] = IF i <= Len(w) THEN w[i] ELSE b[i - Len(w)]
    BY ConcatProperties
  <1>2. Len(w) \in Nat /\ Len(b) \in Nat
    OBVIOUS
  <1> HIDE DEF v
  <1>3. \A i \in 1..Len(v) : \/ i \in 1..Len(w) /\ v[i] = w[i]
                             \/ i - Len(w) \in 1..Len(b) /\ v[i] = b[i - Len(w)]
    BY <1>1, <1>2
  <1>4. \A i \in 1..Len(b) : b[i] \in K /\ b[i] \notin M
    BY DEF Udp!InOrder
  <1>w. v \in Seq(Nat)
    BY <1>1
  <1>a. ASSUME NEW i \in 1..Len(v), i \in 1..Len(w) PROVE v[i] = w[i]
    BY <1>1, <1>2, <1>a
  <1>b. ASSUME NEW i \in 1..Len(v), i \notin 1..Len(w)
        PROVE  i - Len(w) \in 1..Len(b) /\ v[i] = b[i - Len(w)] /\ i > Len(w)
    BY <1>3, <1>2, <1>b
  <1>5. ASSUME NEW i \in 1..Len(v), NEW j \in 1..Len(v), i < j, v[i] \in K, v[j] \in K
        PROVE  v[i] < v[j]
    <2>1. CASE i \in 1..Len(w) /\ j \in 1..Len(w)
      <3>1. v[i] = w[i] /\ v[j] = w[j]
        BY <1>a, <2>1
      <3> QED BY <2>1, <3>1, <1>5 DEF Udp!InOrder
    <2>2. CASE i \in 1..Len(w) /\ j \notin 1..Len(w)
      <3>1. v[i] = w[i] /\ j - Len(w) \in 1..Len(b) /\ v[j] = b[j - Len(w)]
        BY <1>a, <1>b, <2>2
      <3> QED BY <2>2, <3>1, <1>5 DEF Udp!InOrder
    <2>3. CASE i \notin 1..Len(w)
      <3>1. j \notin 1..Len(w)
        BY <1>2, <1>5, <2>3, <1>b
      <3>2. /\ i - Len(w) \in 1..Len(b) /\ v[i] = b[i - Len(w)]
            /\ j - Len(w) \in 1..Len(b) /\ v[j] = b[j - Len(w)]
        BY <1>b, <2>3, <3>1
      <3>3. i - Len(w) < j - Len(w)
        BY <1>2, <1>5
      <3> QED BY <3>2, <3>3 DEF Udp!InOrder
    <2> QED BY <2>1, <2>2, <2>3
  <1>6. ASSUME NEW i \in 1..Len(v), NEW j \in 1..Len(v), i < j, v[i] \in M, v[j] \in M
        PROVE  v[i] < v[j]
    <2>1. i \in 1..Len(w) /\ v[i] = w[i] /\ j \in 1..Len(w) /\ v[j] = w[j]
      BY <1>3, <1>4, <1>6
    <2> QED BY <2>1, <1>6 DEF Udp!InOrder
  <1>7. ASSUME NEW i \in 1..Len(c), NEW j \in 1..Len(v), v[j] \in M
        PROVE  v[j] < c[i]
    <2>1. j \in 1..Len(w) /\ v[j] = w[j]
      BY <1>3, <1>4, <1>7
    <2> QED BY <2>1, <1>7 DEF Udp!InOrder
  <1>8. Udp!InOrder(v, <<>>, K)
    BY <1>5 DEF Udp!InOrder
  <1>9. \A i \in 1..Len(c) : c[i] \in M /\ \A j \in 1..Len(c) : i < j => c[i] < c[j]
    BY DEF Udp!InOrder
  <1>10. Udp!InOrder(v, c, M)
    BY <1>6, <1>7, <1>9 DEF Udp!InOrder
  <1> QED BY <1>w, <1>8, <1>10 DEF v

LEMMA JoinBelow ==
    ASSUME NEW w \in Seq(Nat), NEW b \in Seq(Nat), NEW n, Below(w, n), Below(b, n)
    PROVE  Below(w \o b, n)
  <1>1. /\ Len(w \o b) = Len(w) + Len(b)
        /\ \A i \in 1..Len(w) + Len(b) : (w \o b)[i] = IF i <= Len(w) THEN w[i] ELSE b[i - Len(w)]
    BY ConcatProperties
  <1>2. Len(w) \in Nat /\ Len(b) \in Nat
    OBVIOUS
  <1>3. ASSUME NEW i \in 1..Len(w \o b) PROVE (w \o b)[i] < n
    <2>1. CASE i \in 1..Len(w)
      BY <1>1, <1>2, <2>1 DEF Below
    <2>2. CASE i \notin 1..Len(w)
      <3>1. i - Len(w) \in 1..Len(b) /\ (w \o b)[i] = b[i - Len(w)]
        BY <1>1, <1>2, <2>2
      <3> QED BY <3>1 DEF Below
    <2> QED BY <2>1, <2>2
  <1> QED BY <1>3 DEF Below

(* A packet newer than all that was sent or gathered joins its batch. *)
LEMMA AppendInOrder ==
    ASSUME NEW w \in Seq(Nat), NEW b \in Seq(Nat), NEW n \in Nat, NEW K,
           Udp!InOrder(w, b, K), n \in K, Below(w, n), Below(b, n)
    PROVE  /\ b \o <<n>> \in Seq(Nat) /\ Udp!InOrder(w, b \o <<n>>, K)
           /\ Below(b \o <<n>>, n + 1) /\ Below(w, n + 1) /\ Below(b, n + 1)
  <1> DEFINE c == b \o <<n>>
  <1>1. /\ c \in Seq(Nat) /\ Len(c) = Len(b) + 1
        /\ \A i \in 1..Len(b) + 1 : c[i] = IF i <= Len(b) THEN b[i] ELSE <<n>>[i - Len(b)]
    <2>1. <<n>> \in Seq(Nat)
      OBVIOUS
    <2>2. Len(<<n>>) = 1
      OBVIOUS
    <2> QED BY <2>1, <2>2, ConcatProperties
  <1>2. Len(b) \in Nat /\ <<n>>[1] = n
    OBVIOUS
  <1>3. \A i \in 1..Len(c) : \/ i \in 1..Len(b) /\ c[i] = b[i]
                             \/ i = Len(b) + 1 /\ c[i] = n
    <2> SUFFICES ASSUME NEW i \in 1..Len(c)
                 PROVE  \/ i \in 1..Len(b) /\ c[i] = b[i]
                        \/ i = Len(b) + 1 /\ c[i] = n
      OBVIOUS
    <2>1. CASE i <= Len(b)
      BY <1>1, <1>2, <2>1
    <2>2. CASE ~(i <= Len(b))
      <3>1. i = Len(b) + 1 /\ i - Len(b) = 1
        BY <1>1, <1>2, <2>2
      <3> QED BY <1>1, <1>2, <3>1
    <2> QED BY <2>1, <2>2
  <1>4. /\ \A i \in 1..Len(b) : b[i] \in Nat /\ b[i] < n
        /\ \A i \in 1..Len(w) : w[i] \in Nat /\ w[i] < n
    BY DEF Below
  <1>5. Len(b) \in Nat /\ c \in Seq(Nat) /\ Len(c) = Len(b) + 1
    BY <1>1, <1>2
  <1> HIDE DEF c
  <1>6. ASSUME NEW i \in 1..Len(c)
        PROVE  /\ c[i] \in K /\ c[i] < n + 1
               /\ \A j \in 1..Len(w) : w[j] \in K => w[j] < c[i]
    <2>1. CASE i \in 1..Len(b) /\ c[i] = b[i]
      BY <2>1, <1>4 DEF Udp!InOrder
    <2>2. CASE c[i] = n
      BY <2>2, <1>4
    <2> QED BY <1>3, <2>1, <2>2
  <1>7. ASSUME NEW i \in 1..Len(c), NEW j \in 1..Len(c), i < j PROVE c[i] < c[j]
    <2>1. i \in 1..Len(b) /\ c[i] = b[i]
      BY <1>3, <1>5, <1>7
    <2>2. CASE j \in 1..Len(b) /\ c[j] = b[j]
      BY <2>1, <2>2, <1>7 DEF Udp!InOrder
    <2>3. CASE c[j] = n
      BY <2>1, <2>3, <1>4
    <2> QED BY <1>3, <2>2, <2>3
  <1>8. Udp!InOrder(w, c, K)
    BY <1>6, <1>7 DEF Udp!InOrder
  <1>9. Below(c, n + 1) /\ Below(w, n + 1) /\ Below(b, n + 1)
    BY <1>4, <1>6 DEF Below
  <1> QED BY <1>5, <1>8, <1>9 DEF c

LEMMA RaiseBelow ==
    ASSUME NEW s \in Seq(Nat), NEW m \in Int, NEW n \in Int, m <= n, Below(s, m)
    PROVE  Below(s, n)
  <1>1. \A i \in 1..Len(s) : s[i] \in Nat /\ s[i] < m
    BY DEF Below
  <1> QED BY <1>1 DEF Below

LEMMA FlushedState ==
    ASSUME NEW s \in UdpStates, NEW b \in Seq(Nat), NEW z \in 0..MTU_SIZE, NEW p \in Nat,
           NEW w \in Seq(Nat)
    PROVE  [s EXCEPT !.batch = b, !.size = z, !.packets = 0, !.age = Unset, !.sent = p,
                     !.wire = w] \in UdpStates
  BY DEF UdpStates

LEMMA FlushedRawState ==
    ASSUME NEW s \in UdpStates, NEW b \in Seq(Nat), NEW z \in 0..MTU_SIZE, NEW p \in Nat,
           NEW w \in Seq(Nat)
    PROVE  [s EXCEPT !.raw = b, !.rawSize = z, !.sent = p, !.wire = w] \in UdpStates
  BY DEF UdpStates

(* flushBatch(), flushRawBatch() *)
LEMMA FlushGood ==
    ASSUME NEW s \in UdpStates, NEW K, NEW n, UdpGood(s, K, n)
    PROVE  /\ Udp!Flush(s) \in UdpStates /\ UdpGood(Udp!Flush(s), K, n)
           /\ Udp!Flush(s).size = 0 /\ Udp!Flush(s).raw = s.raw
           /\ Udp!Flush(s).rawSize = s.rawSize /\ Udp!Flush(s).batch \in {s.batch, <<>>}
  <1>1. CASE s.size = 0
    BY <1>1 DEF Udp!Flush
  <1>2. CASE s.size # 0
    <2> DEFINE t == [s EXCEPT !.batch = <<>>, !.size = 0, !.packets = 0, !.age = Unset,
                              !.sent = @ + s.packets, !.wire = @ \o s.batch]
    <2>1. Udp!Flush(s) = t
      BY <1>2 DEF Udp!Flush
    <2>2. /\ s.wire \in Seq(Nat) /\ s.batch \in Seq(Nat) /\ s.raw \in Seq(Nat)
          /\ s.sent + s.packets \in Nat /\ MTU_SIZE \in Nat
      BY UdpConstants DEF UdpStates
    <2>3. /\ s.wire \o s.batch \in Seq(Nat)
          /\ Udp!InOrder(s.wire \o s.batch, <<>>, K)
          /\ Udp!InOrder(s.wire \o s.batch, s.raw, Nat \ K)
      BY <2>2, JoinInOrder DEF UdpGood
    <2>4. Below(s.wire \o s.batch, n) /\ Below(s.raw, n)
      BY <2>2, JoinBelow DEF UdpGood
    <2>e. Below(<<>>, n)
      BY DEF Below
    <2>5. /\ t.batch = <<>> /\ t.size = 0 /\ t.raw = s.raw /\ t.rawSize = s.rawSize
          /\ t.wire = s.wire \o s.batch
      BY DEF UdpStates
    <2>6. t \in UdpStates
      <3>1. <<>> \in Seq(Nat) /\ 0 \in 0..MTU_SIZE
        BY <2>2
      <3> QED BY <2>2, <2>3, <3>1, FlushedState
    <2> HIDE DEF t
    <2> QED BY <2>1, <2>3, <2>4, <2>e, <2>5, <2>6 DEF UdpGood
  <1> QED BY <1>1, <1>2

LEMMA FlushRawGood ==
    ASSUME NEW s \in UdpStates, NEW K, NEW n, UdpGood(s, K, n)
    PROVE  /\ Udp!FlushRaw(s) \in UdpStates /\ UdpGood(Udp!FlushRaw(s), K, n)
           /\ Udp!FlushRaw(s).rawSize = 0 /\ Udp!FlushRaw(s).batch = s.batch
           /\ Udp!FlushRaw(s).size = s.size
  <1>1. CASE s.rawSize = 0
    BY <1>1 DEF Udp!FlushRaw
  <1>2. CASE s.rawSize # 0
    <2> DEFINE t == [s EXCEPT !.raw = <<>>, !.rawSize = 0, !.sent = @ + 1,
                              !.wire = @ \o s.raw]
    <2>1. Udp!FlushRaw(s) = t
      BY <1>2 DEF Udp!FlushRaw
    <2>2. /\ s.wire \in Seq(Nat) /\ s.batch \in Seq(Nat) /\ s.raw \in Seq(Nat)
          /\ s.sent + 1 \in Nat /\ MTU_SIZE \in Nat
      BY UdpConstants DEF UdpStates
    <2>3. /\ s.wire \o s.raw \in Seq(Nat)
          /\ Udp!InOrder(s.wire \o s.raw, <<>>, Nat \ K)
          /\ Udp!InOrder(s.wire \o s.raw, s.batch, K)
      BY <2>2, JoinInOrder DEF UdpGood
    <2>4. Below(s.wire \o s.raw, n) /\ Below(s.batch, n)
      BY <2>2, JoinBelow DEF UdpGood
    <2>e. Below(<<>>, n)
      BY DEF Below
    <2>5. /\ t.raw = <<>> /\ t.rawSize = 0 /\ t.batch = s.batch /\ t.size = s.size
          /\ t.wire = s.wire \o s.raw
      BY DEF UdpStates
    <2>6. t \in UdpStates
      <3>1. <<>> \in Seq(Nat) /\ 0 \in 0..MTU_SIZE
        BY <2>2
      <3> QED BY <2>2, <2>3, <3>1, FlushedRawState
    <2> HIDE DEF t
    <2> QED BY <2>1, <2>3, <2>4, <2>e, <2>5, <2>6 DEF UdpGood
  <1> QED BY <1>1, <1>2

(* Other fields change, and older packets are all that there were. *)
LEMMA SameGood ==
    ASSUME NEW s \in UdpStates, NEW t \in UdpStates, NEW K, NEW m \in Int, NEW n \in Int,
           UdpGood(s, K, m), m <= n, t.wire = s.wire, t.batch = s.batch, t.raw = s.raw
    PROVE  UdpGood(t, K, n)
  <1>1. s.wire \in Seq(Nat) /\ s.batch \in Seq(Nat) /\ s.raw \in Seq(Nat)
    BY DEF UdpStates
  <1> QED BY <1>1, RaiseBelow DEF UdpGood

(* A packet that comes with the next number does not change the others' kind. *)
LEMMA KindGood ==
    ASSUME NEW s \in UdpStates, NEW K, NEW L, NEW acc \in Nat, NEW m \in Int,
           UdpGood(s, K, m), m <= acc + 1, K \subseteq L, L \subseteq K \cup {acc + 1}
    PROVE  UdpGood(s, L, m)
  <1>1. /\ \A i \in 1..Len(s.wire) : s.wire[i] \in Nat /\ s.wire[i] < m
        /\ \A i \in 1..Len(s.batch) : s.batch[i] \in Nat /\ s.batch[i] < m
        /\ \A i \in 1..Len(s.raw) : s.raw[i] \in Nat /\ s.raw[i] < m
    <2>1. s.wire \in Seq(Nat) /\ s.batch \in Seq(Nat) /\ s.raw \in Seq(Nat)
      BY DEF UdpStates
    <2>2. Below(s.wire, m) /\ Below(s.batch, m) /\ Below(s.raw, m)
      BY DEF UdpGood
    <2> QED BY <2>1, <2>2, BelowNat
  <1>2. \A k \in Nat : k < m => (k \in K <=> k \in L)
    OBVIOUS
  <1>3. Udp!InOrder(s.wire, s.batch, L)
    BY <1>1, <1>2 DEF UdpGood, Udp!InOrder
  <1>4. Udp!InOrder(s.wire, s.raw, Nat \ L)
    BY <1>1, <1>2 DEF UdpGood, Udp!InOrder
  <1> QED BY <1>3, <1>4 DEF UdpGood

(* The batches and the wire as one value. *)
LEMMA UdpState ==
    ASSUME Udp!UdpTypeOK
    PROVE  /\ Udp!State \in UdpStates
           /\ Udp!State.batch = atomicBatch /\ Udp!State.size = atomicBatchSize
           /\ Udp!State.raw = rawBatch /\ Udp!State.rawSize = rawBatchSize
           /\ Udp!State.wire = wire /\ Udp!State.age = atomicAge
  BY DEF Udp!UdpTypeOK, Udp!State, UdpStates

UdpBatchTypes ==
    /\ atomicBatch \in Seq(Nat) /\ rawBatch \in Seq(Nat) /\ wire \in Seq(Nat)
    /\ atomicBatchSize \in 0..MTU_SIZE /\ rawBatchSize \in 0..MTU_SIZE
    /\ atomicBatchPackets \in Nat /\ totalSent \in Nat
    /\ atomicAge \in Nat \cup {Unset} /\ rawAge \in Nat \cup {Unset}

LEMMA UdpBecomes ==
    ASSUME NEW s \in UdpStates, Udp!Becomes(s)
    PROVE  /\ UdpBatchTypes' /\ Udp!State' = s
           /\ atomicBatch' = s.batch /\ atomicBatchSize' = s.size /\ atomicAge' = s.age
           /\ rawBatchSize' = s.rawSize
  <1>1. UdpBatchTypes'
    BY DEF Udp!Becomes, UdpStates, UdpBatchTypes
  <1>2. Udp!State' = s
    BY DEF Udp!Becomes, UdpStates, Udp!State
  <1> QED BY <1>1, <1>2 DEF Udp!Becomes

LEMMA OlderType ==
    ASSUME NEW age \in Nat \cup {Unset}, NEW gap \in Nat, NEW limit \in Nat
    PROVE  Udp!Older(age, gap, limit) \in Nat \cup {Unset}
  BY UdpConstants DEF Udp!Older

LEMMA OlderSet ==
    ASSUME NEW age \in Nat, NEW gap \in Nat, NEW limit \in Nat
    PROVE  Udp!Older(age, gap, limit) \in Nat
  BY UdpConstants DEF Udp!Older

-----------------------------------------------------------------------------
(* The steps of the UDP sender                                              *)

UdpQueueTypes ==
    /\ packetQueue \in Seq(Packet) /\ currentQueueBytes \in 0..(SizeMod - 1)
    /\ totalDropped \in Nat /\ maxQueueDepth \in Nat /\ accepted \in Nat /\ streamEnd \in Nat
    /\ live \subseteq Nat /\ wholes \subseteq Nat /\ offered \in Nat
UdpRestTypes ==
    /\ role \in {"queue", "sbus"} /\ period \in Periods /\ rate \in Rates
    /\ batching \in BOOLEAN /\ ready \in BOOLEAN /\ itemWhole \in BOOLEAN
    /\ clearing \in BOOLEAN /\ bulk \in BOOLEAN /\ lastBulkMode \in BOOLEAN
    /\ senderPc \in {"idle", "next", "fit", "add", "free", "pop"}
    /\ item \in Nat /\ sinceSend \in Nat /\ spanSent \in Nat

LEMMA UdpTypes ==
           /\ Udp!UdpTypeOK => UdpBatchTypes /\ UdpQueueTypes /\ UdpRestTypes
           /\ UdpBatchTypes' /\ UdpQueueTypes' /\ UdpRestTypes' => Udp!UdpTypeOK'
  <1>1. Udp!Packet = Packet
    BY UdpConstants
  <1>2. Udp!UdpTypeOK => UdpBatchTypes
    BY DEF Udp!UdpTypeOK, UdpBatchTypes
  <1>3. Udp!UdpTypeOK => UdpQueueTypes
    BY <1>1 DEF Udp!UdpTypeOK, UdpQueueTypes
  <1>4. Udp!UdpTypeOK => UdpRestTypes
    BY DEF Udp!UdpTypeOK, UdpRestTypes
  <1>5. ASSUME UdpBatchTypes', UdpQueueTypes', UdpRestTypes' PROVE Udp!UdpTypeOK'
    <2>1. /\ packetQueue' \in Seq(Udp!Packet)' /\ currentQueueBytes' \in 0..(SizeMod - 1)
          /\ live' \subseteq Nat /\ wholes' \subseteq Nat
      BY <1>1, <1>5 DEF UdpQueueTypes
    <2>2. {totalSent, totalDropped, maxQueueDepth, accepted, streamEnd, item, offered}'
             \subseteq Nat
      BY <1>5 DEF UdpBatchTypes, UdpQueueTypes, UdpRestTypes
    <2>3. /\ role' \in {"queue", "sbus"} /\ period' \in Periods /\ rate' \in Rates
          /\ {batching, ready, itemWhole, clearing, bulk, lastBulkMode}' \subseteq BOOLEAN
          /\ senderPc' \in {"idle", "next", "fit", "add", "free", "pop"}
          /\ sinceSend' \in Nat /\ spanSent' \in Nat
      BY <1>5 DEF UdpRestTypes
    <2>4. /\ atomicBatch' \in Seq(Nat) /\ rawBatch' \in Seq(Nat) /\ wire' \in Seq(Nat)
          /\ atomicBatchSize' \in 0..MTU_SIZE /\ rawBatchSize' \in 0..MTU_SIZE
          /\ atomicBatchPackets' \in Nat /\ {atomicAge, rawAge}' \subseteq Nat \cup {Unset}
      BY <1>5 DEF UdpBatchTypes
    <2> QED BY <2>1, <2>2, <2>3, <2>4 DEF Udp!UdpTypeOK
  <1> QED BY <1>2, <1>3, <1>4, <1>5

LEMMA UdpKnows ==
    ASSUME UdpInv
    PROVE  /\ Udp!State \in UdpStates /\ UdpBatchTypes /\ UdpQueueTypes /\ UdpRestTypes
           /\ Len(packetQueue) \in Nat /\ accepted \in Nat /\ UdpNext \in Int
           /\ UdpUnsent \in Int /\ UdpUnsent <= accepted + 1 /\ UdpNext <= accepted + 1
           /\ senderPc \in UdpHeld => UdpNext <= accepted /\ UdpNext = packetQueue[1].id
  <1>1. Udp!State \in UdpStates /\ UdpBatchTypes /\ UdpQueueTypes /\ UdpRestTypes
    BY UdpState, UdpTypes DEF UdpInv
  <1>2. Len(packetQueue) \in Nat /\ accepted \in Nat /\ item \in Nat
    BY <1>1 DEF UdpRestTypes, UdpQueueTypes
  <1>3. UdpNext \in Int /\ UdpNext <= accepted + 1
    BY <1>2 DEF UdpNext
  <1>4. ASSUME senderPc \in UdpHeld
        PROVE  UdpNext <= accepted /\ UdpNext = packetQueue[1].id
    <2>1. packetQueue # <<>> /\ Loose(packetQueue, accepted)
      BY <1>4 DEF UdpInv, UdpHand, UdpQueue
    <2>2. packetQueue[1].id = accepted + 1 - Len(packetQueue) /\ packetQueue[1].id <= accepted
      BY <1>2, <2>1, LooseFront
    <2> QED BY <2>2 DEF UdpNext
  <1>5. UdpUnsent \in Int /\ UdpUnsent <= accepted + 1
    <2>1. CASE senderPc \in {"fit", "add"}
      <3>1. item <= UdpNext /\ UdpNext <= accepted
        BY <1>4, <2>1 DEF UdpInv, UdpHand, UdpHeld
      <3> QED BY <1>2, <1>3, <2>1, <3>1 DEF UdpUnsent
    <2>2. CASE senderPc \in {"free", "pop"} /\ ~clearing
      <3>1. item <= UdpNext /\ UdpNext <= accepted
        BY <1>4, <2>2 DEF UdpInv, UdpHand, UdpHeld
      <3> QED BY <1>2, <1>3, <2>2, <3>1 DEF UdpUnsent
    <2>3. CASE senderPc \notin {"fit", "add"} /\ ~(senderPc \in {"free", "pop"} /\ ~clearing)
      BY <1>3, <2>3 DEF UdpUnsent
    <2> QED BY <2>1, <2>2, <2>3
  <1> QED BY <1>1, <1>2, <1>3, <1>4, <1>5

LEMMA UdpEnqueueCases ==
    ASSUME UdpInv, NEW size \in OfferedSizes, NEW whole \in BOOLEAN,
           Udp!Enqueue(size, whole)
    PROVE  \/ packetQueue = <<>> /\ UNCHANGED <<packetQueue, accepted, wholes>>
           \/ /\ accepted' = accepted + 1
              /\ wholes \subseteq wholes' /\ wholes' \subseteq wholes \cup {accepted + 1}
              /\ \E d \in {0, 1} : /\ d <= Len(packetQueue)
                                   /\ packetQueue' = Shift(packetQueue, d, Copy(size))
  <1>1. Len(packetQueue) \in Nat /\ accepted \in Nat /\ Udp!Copy(size) = Copy(size)
    BY UdpKnows DEF Udp!Copy, Copy
  <1>2. CASE Udp!WillAccept(size)
    <2>1. packetQueue' = Append(packetQueue, Copy(size)) /\ accepted' = accepted + 1
      BY <1>1, <1>2 DEF Udp!Enqueue, Udp!Push
    <2>2. wholes \subseteq wholes' /\ wholes' \subseteq wholes \cup {accepted + 1}
      BY <2>1 DEF Udp!Enqueue
    <2>3. 0 <= Len(packetQueue) /\ packetQueue' = Shift(packetQueue, 0, Copy(size))
      BY <1>1, <2>1 DEF Shift
    <2> QED BY <2>1, <2>2, <2>3
  <1>3. CASE ~Udp!WillAccept(size) /\ packetQueue # <<>>
    <2>1. packetQueue' = Append(Tail(packetQueue), Copy(size)) /\ accepted' = accepted + 1
      BY <1>1, <1>3 DEF Udp!Enqueue, Udp!Push
    <2>2. wholes \subseteq wholes' /\ wholes' \subseteq wholes \cup {accepted + 1}
      BY <2>1 DEF Udp!Enqueue
    <2>3. packetQueue \in Seq(Packet)
      BY UdpKnows DEF UdpQueueTypes
    <2>4. 1 <= Len(packetQueue) /\ packetQueue' = Shift(packetQueue, 1, Copy(size))
      BY <1>1, <1>3, <2>1, <2>3 DEF Shift
    <2> QED BY <2>1, <2>2, <2>4
  <1>4. CASE ~Udp!WillAccept(size) /\ packetQueue = <<>>
    <2>1. packetQueue' = packetQueue /\ accepted' = accepted
      BY <1>4 DEF Udp!Enqueue
    <2>2. wholes' = wholes
      BY <1>1, <2>1 DEF Udp!Enqueue
    <2> QED BY <1>4, <2>1, <2>2
  <1> QED BY <1>2, <1>3, <1>4

LEMMA UdpEnqueueTypes ==
    ASSUME UdpInv, NEW size \in OfferedSizes, NEW whole \in BOOLEAN,
           Udp!Enqueue(size, whole)
    PROVE  /\ currentQueueBytes' \in 0..(SizeMod - 1)
           /\ totalDropped' \in Nat /\ maxQueueDepth' \in Nat /\ streamEnd' \in Nat
           /\ offered' \in Nat /\ live' \subseteq Nat
           /\ Copy(size) \in Packet /\ Copy(size).id = accepted + 1
           /\ Copy(size).data = accepted + 1 /\ Copy(size).size <= MaxPacketSize
  <1>1. /\ UdpQueueTypes /\ Len(packetQueue) \in Nat /\ currentQueueBytes \in 0..(SizeMod - 1)
        /\ accepted \in Nat /\ streamEnd \in Nat /\ live \subseteq Nat /\ offered \in Nat
        /\ totalDropped \in Nat /\ maxQueueDepth \in Nat
    BY UdpKnows DEF UdpQueueTypes
  <1>2. /\ size \in Nat /\ size <= MaxPacketSize /\ size < SizeMod
        /\ MaxPacketSize < SizeMod /\ SizeMod \in Nat /\ MaxPacketSize \in Nat /\ NULL = 0
    BY SmallSizes
  <1>3. /\ \A a, b : Udp!SizeAdd(a, b) = SizeAdd(a, b) /\ Udp!SizeSub(a, b) = SizeSub(a, b)
        /\ Udp!NULL = NULL
    BY DEF Udp!SizeAdd, SizeAdd, Udp!SizeSub, SizeSub, Udp!NULL, NULL
  <1>4. packetQueue # <<>> => Udp!BytesWithoutFront \in 0..(SizeMod - 1)
    <2> SUFFICES ASSUME packetQueue # <<>> PROVE Udp!BytesWithoutFront \in 0..(SizeMod - 1)
      OBVIOUS
    <2>1. Head(packetQueue) = packetQueue[1] /\ packetQueue[1].size \in 0..MaxPacketSize
      BY <1>1, LooseFront DEF UdpInv, UdpQueue
    <2>2. packetQueue[1].size \in Nat /\ packetQueue[1].size < SizeMod
      BY <1>2, <2>1
    <2>3. SizeSub(currentQueueBytes, packetQueue[1].size) \in 0..(SizeMod - 1)
      BY <1>1, <2>2, SizeSubType
    <2> QED BY <1>1, <1>3, <2>1, <2>3 DEF Udp!BytesWithoutFront
  <1>5. currentQueueBytes' \in 0..(SizeMod - 1)
    <2>1. \A a \in 0..(SizeMod - 1) : SizeAdd(a, size) \in 0..(SizeMod - 1)
      BY <1>2, SizeAddType
    <2>2. \/ currentQueueBytes' = currentQueueBytes
          \/ currentQueueBytes' = SizeAdd(currentQueueBytes, size)
          \/ packetQueue # <<>> /\ currentQueueBytes' = SizeAdd(Udp!BytesWithoutFront, size)
      BY <1>3 DEF Udp!Enqueue, Udp!Push
    <2> QED BY <1>1, <1>4, <2>1, <2>2
  <1>6. /\ totalDropped' \in {totalDropped, totalDropped + 1}
        /\ streamEnd' \in {streamEnd, streamEnd + size} /\ offered' = offered + 1
        /\ live' \subseteq live \cup {accepted + 1}
    BY DEF Udp!Enqueue, Udp!Push
  <1>7. maxQueueDepth' \in Nat
    <2>1. packetQueue # <<>> => Len(Tail(packetQueue)) \in Nat
      <3>1. packetQueue \in Seq(Packet)
        BY <1>1 DEF UdpQueueTypes
      <3> QED BY <3>1
    <2>2. \/ maxQueueDepth' = maxQueueDepth \/ maxQueueDepth' = Len(packetQueue) + 1
          \/ packetQueue # <<>> /\ maxQueueDepth' = Len(Tail(packetQueue)) + 1
      BY DEF Udp!Enqueue, Udp!Push
    <2> QED BY <1>1, <2>1, <2>2
  <1>8. totalDropped' \in Nat /\ streamEnd' \in Nat /\ offered' \in Nat
    BY <1>1, <1>2, <1>6
  <1>9. live' \subseteq Nat
    BY <1>1, <1>6
  <1>10. /\ Copy(size) \in Packet /\ Copy(size).id = accepted + 1
         /\ Copy(size).data = accepted + 1 /\ Copy(size).size <= MaxPacketSize
    BY <1>1, <1>2 DEF Copy, Packet
  <1> QED BY <1>5, <1>7, <1>8, <1>9, <1>10

LEMMA UdpEnqueueInv ==
    ASSUME UdpInv, NEW size \in OfferedSizes, NEW whole \in BOOLEAN,
           Udp!Enqueue(size, whole)
    PROVE  UdpInv'
  <1>1. /\ UNCHANGED <<atomicBatch, rawBatch, wire, atomicBatchSize, rawBatchSize,
                       atomicBatchPackets, atomicAge, rawAge, totalSent, role, batching, ready,
                       senderPc, item, itemWhole, clearing, bulk, lastBulkMode, period, rate,
                       sinceSend, spanSent>>
        /\ role = "queue"
    BY DEF Udp!Enqueue, Udp!setup, Udp!itemVars, Udp!callVars, Udp!atomicVars, Udp!rawVars,
           Udp!sbusVars
  <1>2. /\ Udp!State \in UdpStates /\ UdpBatchTypes /\ UdpQueueTypes /\ UdpRestTypes
        /\ item \in Nat /\ Len(packetQueue) \in Nat /\ accepted \in Nat /\ UdpNext \in Int
        /\ UdpUnsent \in Int /\ UdpUnsent <= accepted + 1 /\ UdpNext <= accepted + 1
        /\ senderPc \in UdpHeld => UdpNext <= accepted /\ UdpNext = packetQueue[1].id
    BY UdpKnows DEF UdpRestTypes
  <1>t. UdpBatchTypes' /\ UdpRestTypes'
    BY <1>1, <1>2 DEF UdpRestTypes, UdpBatchTypes
  <1>3. CASE packetQueue = <<>> /\ UNCHANGED <<packetQueue, accepted, wholes>>
    <2>1. UdpNext' = UdpNext /\ UdpUnsent' = UdpUnsent /\ Udp!State' = Udp!State
      BY <1>1, <1>3 DEF UdpNext, UdpUnsent, Udp!State
    <2>2. UdpQueueTypes'
      <3>1. packetQueue' \in Seq(Packet) /\ accepted' \in Nat /\ wholes' \subseteq Nat
        BY <1>2, <1>3 DEF UdpQueueTypes
      <3>3. /\ currentQueueBytes' \in 0..(SizeMod - 1)
            /\ totalDropped' \in Nat /\ maxQueueDepth' \in Nat /\ streamEnd' \in Nat
            /\ offered' \in Nat /\ live' \subseteq Nat
        BY UdpEnqueueTypes
      <3> QED BY <3>1, <3>3 DEF UdpQueueTypes
    <2>3. Udp!UdpTypeOK'
      BY <1>t, <2>2, UdpTypes
    <2>4. UdpQueue' /\ UdpHand' /\ UdpSbus'
      BY <1>1, <1>3, <2>1 DEF UdpInv, UdpQueue, UdpHand, UdpHeld, UdpSbus
    <2>5. UdpRoom'
      BY <1>1, <1>3 DEF UdpInv, UdpHand, UdpHeld, UdpRoom
    <2> QED BY <1>1, <1>3, <2>1, <2>3, <2>4, <2>5 DEF UdpInv, Udp!FreshFrames
  <1>4. ASSUME accepted' = accepted + 1, wholes \subseteq wholes',
               wholes' \subseteq wholes \cup {accepted + 1}, NEW d \in {0, 1},
               d <= Len(packetQueue), packetQueue' = Shift(packetQueue, d, Copy(size))
        PROVE  UdpInv'
    <2>0. Loose(packetQueue, accepted)
      BY DEF UdpInv, UdpQueue
    <2>1. /\ Copy(size) \in Packet /\ Copy(size).id = accepted + 1
          /\ Copy(size).data = accepted + 1 /\ Copy(size).size <= MaxPacketSize
      BY UdpEnqueueTypes
    <2>2. /\ Loose(packetQueue', accepted') /\ Len(packetQueue') = Len(packetQueue) + 1 - d
          /\ packetQueue' # <<>> /\ (Kept(packetQueue) => Kept(packetQueue'))
          /\ packetQueue # <<>> /\ d = 0 => packetQueue'[1] = packetQueue[1]
          /\ d = 1 => packetQueue'[1].id = packetQueue[1].id + 1
      BY <1>2, <1>4, <2>0, <2>1, LooseShift
    <2>3. UdpNext' = UdpNext + d /\ UdpNext' \in Int
      BY <1>2, <1>4, <2>2 DEF UdpNext
    <2>4. UdpUnsent <= UdpUnsent' /\ UdpUnsent' \in Int
      <3>1. UdpNext <= UdpNext'
        BY <1>2, <2>3
      <3>2. UdpUnsent' = UdpUnsent \/ (UdpUnsent = UdpNext /\ UdpUnsent' = UdpNext')
        BY <1>1 DEF UdpUnsent
      <3> QED BY <1>2, <2>3, <3>1, <3>2
    <2>5. UdpQueueTypes'
      <3>1. packetQueue' \in Seq(Packet)
        BY <2>2 DEF Loose
      <3>2. accepted' \in Nat /\ wholes' \subseteq Nat
        BY <1>2, <1>4 DEF UdpQueueTypes
      <3>3. /\ currentQueueBytes' \in 0..(SizeMod - 1)
            /\ totalDropped' \in Nat /\ maxQueueDepth' \in Nat /\ streamEnd' \in Nat
            /\ offered' \in Nat /\ live' \subseteq Nat
        BY UdpEnqueueTypes
      <3> QED BY <3>1, <3>2, <3>3 DEF UdpQueueTypes
    <2>6. Udp!UdpTypeOK'
      BY <1>t, <2>5, UdpTypes
    <2>7. UdpQueue' /\ UdpSbus'
      BY <1>1, <2>2 DEF UdpInv, UdpQueue, UdpSbus
    <2>8. UdpHand'
      <3>1. senderPc \in UdpHeld /\ ~clearing =>
              item \in Nat \ {0} /\ item <= UdpNext /\ item # accepted + 1
        BY <1>2 DEF UdpInv, UdpHand
      <3>2. senderPc \in UdpHeld /\ ~clearing => (item \in wholes <=> item \in wholes')
        BY <1>4, <3>1
      <3>3. item <= UdpNext => item <= UdpNext'
        BY <1>2, <2>3
      <3>4. /\ senderPc \in {"fit", "add"} => ~clearing
            /\ senderPc \in UdpHeld /\ ~clearing => (itemWhole <=> item \in wholes)
        BY DEF UdpInv, UdpHand
      <3> QED BY <1>1, <2>2, <3>1, <3>2, <3>3, <3>4 DEF UdpHand
    <2>9. UdpRoom'
      <3> SUFFICES ASSUME senderPc = "add" PROVE UdpRoom'
        BY <1>1 DEF UdpRoom
      <3>1. /\ ~clearing /\ packetQueue # <<>> /\ item <= UdpNext /\ item \in Nat
            /\ UdpNext = packetQueue[1].id
        BY <1>2 DEF UdpInv, UdpHand, UdpHeld
      <3>2. Head(packetQueue) = packetQueue[1] /\ packetQueue[1].id \in Nat
        BY <1>2, <2>0, <3>1, LooseFront
      <3>p. Head(packetQueue') = packetQueue'[1]
        BY <2>2, <2>5 DEF UdpQueueTypes
      <3>3. Udp!ItemSize' = Udp!ItemSize \/ Udp!ItemSize' = 0
        <4>1. CASE d = 0
          BY <1>1, <2>2, <3>1, <3>2, <3>p, <4>1 DEF Udp!ItemSize, Udp!ItemQueued
        <4>2. CASE d = 1
          <5>1. /\ packetQueue'[1].id = packetQueue[1].id + 1 /\ packetQueue[1].id \in Nat
                /\ item <= packetQueue[1].id /\ item \in Nat
            BY <2>2, <3>1, <3>2, <4>2
          <5>2. packetQueue'[1].id # item
            BY <5>1
          <5> QED BY <1>1, <3>1, <3>p, <5>2 DEF Udp!ItemSize, Udp!ItemQueued
        <4> QED BY <4>1, <4>2
      <3>4. atomicBatchSize \in 0..MTU_SIZE /\ rawBatchSize \in 0..MTU_SIZE /\ MTU_SIZE \in Nat
        BY <1>2, UdpConstants DEF UdpBatchTypes
      <3> QED BY <1>1, <3>3, <3>4 DEF UdpInv, UdpRoom
    <2>10. wholes' \subseteq 1..accepted'
      BY <1>2, <1>4 DEF UdpInv
    <2>11. Udp!State' = Udp!State
      BY <1>1 DEF Udp!State
    <2>12. UdpGood(Udp!State', wholes', UdpUnsent')
      <3>1. UdpGood(Udp!State, wholes', UdpUnsent)
        BY <1>2, <1>4, KindGood DEF UdpInv
      <3> QED BY <1>2, <2>4, <2>11, <3>1, SameGood
    <2> QED BY <1>1, <2>6, <2>7, <2>8, <2>9, <2>10, <2>12 DEF UdpInv, Udp!FreshFrames
  <1>5. \/ packetQueue = <<>> /\ UNCHANGED <<packetQueue, accepted, wholes>>
        \/ /\ accepted' = accepted + 1
           /\ wholes \subseteq wholes' /\ wholes' \subseteq wholes \cup {accepted + 1}
           /\ \E d \in {0, 1} : /\ d <= Len(packetQueue)
                                /\ packetQueue' = Shift(packetQueue, d, Copy(size))
    BY UdpEnqueueCases
  <1> QED BY <1>3, <1>4, <1>5

Aged(s, a, b) == [s EXCEPT !.age = a, !.rawAge = b]
LEMMA AgedType ==
    ASSUME NEW s \in UdpStates, NEW a \in Nat \cup {Unset}, NEW b \in Nat \cup {Unset}
    PROVE  Aged(s, a, b) \in UdpStates
  BY DEF UdpStates, Aged
LEMMA AgedState ==
    ASSUME NEW s \in UdpStates, NEW a \in Nat \cup {Unset}, NEW b \in Nat \cup {Unset}
    PROVE  /\ Aged(s, a, b).wire = s.wire
           /\ Aged(s, a, b).batch = s.batch /\ Aged(s, a, b).raw = s.raw
           /\ Aged(s, a, b).size = s.size /\ Aged(s, a, b).age = a
  BY DEF UdpStates, Aged

(* A step of the sender task that leaves the queue as it is. *)
LEMMA UdpBatchStep ==
    ASSUME UdpInv, NEW t \in UdpStates, Udp!Becomes(t),
           UNCHANGED <<packetQueue, currentQueueBytes, totalDropped, maxQueueDepth, accepted,
                       streamEnd, live, role, batching, period, rate, ready, wholes, offered,
                       sinceSend, spanSent>>,
           role = "queue", senderPc # "pop",
           senderPc' \in {"idle", "next", "fit", "add", "free"}, item' \in Nat,
           itemWhole' \in BOOLEAN, clearing' \in BOOLEAN, bulk' \in BOOLEAN,
           lastBulkMode' \in BOOLEAN, UdpHand', UdpRoom', ~batching => t.batch = <<>>,
           UdpGood(t, wholes, UdpUnsent')
    PROVE  UdpInv'
  <1>1. UdpBatchTypes' /\ Udp!State' = t /\ atomicBatch' = t.batch
    <2>1. UdpBatchTypes'
      BY DEF Udp!Becomes, UdpStates, UdpBatchTypes
    <2>2. Udp!State' = t
      BY DEF Udp!Becomes, UdpStates, Udp!State
    <2>3. atomicBatch' = t.batch
      BY DEF Udp!Becomes
    <2> QED BY <2>1, <2>2, <2>3
  <1>2. UdpQueueTypes'
    BY UdpKnows DEF UdpQueueTypes
  <1>3. UdpRestTypes'
    BY UdpKnows DEF UdpRestTypes
  <1>4. Udp!UdpTypeOK'
    BY <1>1, <1>2, <1>3, UdpTypes
  <1>5. UdpQueue' /\ UdpSbus'
    BY DEF UdpInv, UdpQueue, UdpSbus
  <1>6. wholes' \subseteq 1..accepted' /\ Udp!FreshFrames'
    BY DEF UdpInv, Udp!FreshFrames
  <1> QED BY <1>1, <1>4, <1>5, <1>6 DEF UdpInv

LEMMA UdpCallInv ==
    ASSUME UdpInv, NEW gap \in Gaps, NEW bulkMode \in BOOLEAN,
           Udp!SenderCall(gap, bulkMode)
    PROVE  UdpInv'
  <1> DEFINE a == Udp!Older(atomicAge, gap, BATCH_TIMEOUT[TRUE])
             b == Udp!Older(rawAge, gap, RAW_TIMEOUT)
             s == [Udp!State EXCEPT !.age = a, !.rawAge = b]
             t == IF ready /\ lastBulkMode /\ ~bulkMode THEN Udp!FlushRaw(Udp!Flush(s)) ELSE s
  <1>1. Udp!State.age = atomicAge /\ Udp!State.rawAge = rawAge
    BY DEF Udp!State
  <1>2. Udp!Becomes(t)
    BY <1>1 DEF Udp!SenderCall
  <1>3. /\ senderPc = "idle" /\ senderPc' = "next" /\ role = "queue" /\ clearing' = ~ready
        /\ bulk' = bulkMode /\ lastBulkMode' \in {lastBulkMode, bulkMode}
        /\ UNCHANGED <<packetQueue, currentQueueBytes, totalDropped, maxQueueDepth, accepted,
                       streamEnd, live, role, batching, period, rate, ready, wholes, offered,
                       sinceSend, spanSent, item, itemWhole>>
    BY DEF Udp!SenderCall, Udp!SenderGoes, Udp!SenderRest, Udp!setup, Udp!itemVars, Udp!sbusVars
  <1>4. /\ Udp!State \in UdpStates /\ UdpBatchTypes /\ UdpRestTypes /\ UdpUnsent \in Int
    BY UdpKnows
  <1>5. a \in Nat \cup {Unset} /\ b \in Nat \cup {Unset}
    <2>1. BATCH_TIMEOUT[TRUE] \in Nat
      BY BulkTimeout
    <2>2. RAW_TIMEOUT \in Nat /\ Gaps \subseteq Nat
      BY UdpAssumption
    <2>3. gap \in Nat
      BY <2>2
    <2> QED BY <1>4, <2>1, <2>2, <2>3, OlderType DEF UdpBatchTypes
  <1> HIDE DEF a, b
  <1>6. /\ s \in UdpStates /\ s.wire = Udp!State.wire /\ s.batch = Udp!State.batch
        /\ s.raw = Udp!State.raw
    <2>1. s = Aged(Udp!State, a, b)
      BY DEF Aged
    <2> HIDE DEF s
    <2>2. Aged(Udp!State, a, b) \in UdpStates
      BY <1>4, <1>5, AgedType
    <2>3. /\ Aged(Udp!State, a, b).wire = Udp!State.wire
          /\ Aged(Udp!State, a, b).batch = Udp!State.batch
          /\ Aged(Udp!State, a, b).raw = Udp!State.raw
      BY <1>4, <1>5, AgedState
    <2> QED BY <2>1, <2>2, <2>3
  <1> HIDE DEF s
  <1>7. UdpGood(s, wholes, UdpUnsent)
    BY <1>4, <1>6, SameGood DEF UdpInv
  <1>8. ~batching => s.batch = <<>>
    BY <1>6 DEF UdpInv, Udp!State
  <1>9. /\ t \in UdpStates /\ UdpGood(t, wholes, UdpUnsent) /\ (~batching => t.batch = <<>>)
    <2>1. /\ Udp!Flush(s) \in UdpStates /\ UdpGood(Udp!Flush(s), wholes, UdpUnsent)
          /\ Udp!Flush(s).batch \in {s.batch, <<>>}
      BY <1>6, <1>7, FlushGood
    <2>2. /\ Udp!FlushRaw(Udp!Flush(s)) \in UdpStates
          /\ UdpGood(Udp!FlushRaw(Udp!Flush(s)), wholes, UdpUnsent)
          /\ Udp!FlushRaw(Udp!Flush(s)).batch = Udp!Flush(s).batch
      BY <2>1, FlushRawGood
    <2> QED BY <1>6, <1>7, <1>8, <2>1, <2>2
  <1> HIDE DEF t
  <1>10. UdpUnsent' = UdpUnsent
    BY <1>3 DEF UdpUnsent, UdpNext
  <1>11. UdpHand' /\ UdpRoom'
    BY <1>3 DEF UdpHand, UdpRoom, UdpHeld
  <1>12. /\ item' \in Nat /\ itemWhole' \in BOOLEAN /\ clearing' \in BOOLEAN
         /\ bulk' \in BOOLEAN /\ lastBulkMode' \in BOOLEAN
    BY <1>3, <1>4 DEF UdpRestTypes
  <1> QED BY <1>2, <1>3, <1>9, <1>10, <1>11, <1>12, UdpBatchStep

LEMMA UdpFrontInv ==
    ASSUME UdpInv, Udp!SenderFront
    PROVE  UdpInv'
  <1>1. /\ senderPc = "next" /\ senderPc' = (IF clearing THEN "free" ELSE "fit")
        /\ role = "queue" /\ packetQueue # <<>>
        /\ UNCHANGED <<packetQueue, currentQueueBytes, totalDropped, maxQueueDepth, accepted,
                       streamEnd, live, role, batching, period, rate, ready, wholes, offered,
                       sinceSend, spanSent, clearing, bulk, lastBulkMode>>
        /\ UNCHANGED <<atomicBatch, atomicBatchSize, atomicBatchPackets, atomicAge, rawBatch,
                       rawBatchSize, rawAge, totalSent, wire>>
    BY DEF Udp!SenderFront, Udp!SenderGoes, Udp!SenderRest, Udp!setup, Udp!queueVars,
           Udp!callVars, Udp!sbusVars, Udp!atomicVars, Udp!rawVars
  <1>2. IF clearing THEN UNCHANGED <<item, itemWhole>>
        ELSE item' = Head(packetQueue).id /\ (itemWhole' = (item' \in wholes))
    BY DEF Udp!SenderFront, Udp!itemVars
  <1>3. /\ Udp!State \in UdpStates /\ UdpRestTypes /\ UdpUnsent \in Int
        /\ accepted \in Nat
    BY UdpKnows
  <1>4. /\ Head(packetQueue) = packetQueue[1] /\ packetQueue[1].id \in Nat \ {0}
        /\ packetQueue[1].id = UdpNext
    <2>1. Loose(packetQueue, accepted)
      BY DEF UdpInv, UdpQueue
    <2>2. /\ Head(packetQueue) = packetQueue[1] /\ packetQueue[1].id \in Nat \ {0}
          /\ packetQueue[1].id = accepted + 1 - Len(packetQueue)
      BY <1>1, <1>3, <2>1, LooseFront
    <2> QED BY <2>2 DEF UdpNext
  <1>5. Udp!Becomes(Udp!State)
    BY <1>1 DEF Udp!Becomes, Udp!State
  <1>6. UdpNext' = UdpNext /\ UdpUnsent = UdpNext /\ UdpUnsent' = UdpNext
    <2>1. UdpNext' = UdpNext /\ UdpUnsent = UdpNext
      BY <1>1 DEF UdpNext, UdpUnsent
    <2>2. CASE clearing
      BY <1>1, <2>1, <2>2 DEF UdpUnsent
    <2>3. CASE ~clearing
      <3>1. senderPc' = "fit" /\ item' = UdpNext
        BY <1>1, <1>2, <1>4, <2>3
      <3>2. UdpUnsent' = item'
        BY <3>1 DEF UdpUnsent
      <3> QED BY <2>1, <3>1, <3>2
    <2> QED BY <2>1, <2>2, <2>3
  <1>7. UdpHand'
    <2>1. CASE clearing
      BY <1>1, <2>1 DEF UdpHand, UdpHeld
    <2>2. CASE ~clearing
      <3>1. item' \in Nat \ {0} /\ item' <= UdpNext'
        BY <1>2, <1>3, <1>4, <1>6, <2>2
      <3>2. itemWhole' <=> item' \in wholes'
        BY <1>1, <1>2, <2>2
      <3> QED BY <1>1, <2>2, <3>1, <3>2 DEF UdpHand, UdpHeld
    <2> QED BY <2>1, <2>2
  <1>8. UdpRoom'
    BY <1>1 DEF UdpRoom
  <1>9. item' \in Nat /\ itemWhole' \in BOOLEAN
    <2>1. item \in Nat /\ itemWhole \in BOOLEAN
      BY <1>3 DEF UdpRestTypes
    <2>2. CASE clearing
      BY <1>2, <2>1, <2>2
    <2>3. CASE ~clearing
      BY <1>2, <1>4, <2>3
    <2> QED BY <2>2, <2>3
  <1>10. ~batching => Udp!State.batch = <<>>
    BY DEF UdpInv, Udp!State
  <1>11. UdpGood(Udp!State, wholes, UdpUnsent')
    BY <1>6 DEF UdpInv
  <1>12. clearing' \in BOOLEAN /\ bulk' \in BOOLEAN /\ lastBulkMode' \in BOOLEAN
    BY <1>1, <1>3 DEF UdpRestTypes
  <1> QED BY <1>1, <1>3, <1>5, <1>7, <1>8, <1>9, <1>10, <1>11, <1>12, UdpBatchStep

(* What the pointer reads now. *)
LEMMA UdpItem ==
    ASSUME UdpInv, senderPc \in {"fit", "add", "free"}
    PROVE  /\ Udp!ItemSize \in 0..MTU_SIZE /\ Udp!ItemSize \in 0..MaxPacketSize
           /\ Udp!ItemData \in Nat
           /\ ~clearing => (Udp!Content = <<>> \/ Udp!Content = <<item>>)
  <1>1. packetQueue # <<>> /\ Loose(packetQueue, accepted) /\ Kept(packetQueue)
    BY DEF UdpInv, UdpHand, UdpHeld, UdpQueue
  <1>2. accepted \in Nat
    BY UdpKnows
  <1>3. /\ Head(packetQueue) = packetQueue[1] /\ packetQueue[1].size \in 0..MaxPacketSize
        /\ packetQueue[1].data \in Nat /\ packetQueue[1].data = packetQueue[1].id
    <2>1. /\ Head(packetQueue) = packetQueue[1] /\ packetQueue[1].size \in 0..MaxPacketSize
          /\ packetQueue[1].data \in Nat /\ packetQueue[1].data \in {NULL, packetQueue[1].id}
      BY <1>1, <1>2, LooseFront
    <2>2. packetQueue[1].data # NULL
      BY <1>1 DEF Kept
    <2> QED BY <2>1, <2>2
  <1>4. MaxPacketSize <= MTU_SIZE /\ MaxPacketSize \in Nat /\ MTU_SIZE \in Nat /\ Udp!NULL = 0
    BY UdpConstants
  <1>5. Udp!ItemSize \in 0..MaxPacketSize /\ Udp!ItemData \in Nat
    BY <1>3, <1>4 DEF Udp!ItemSize, Udp!ItemData
  <1>6. ASSUME ~clearing PROVE (Udp!Content = <<>> \/ Udp!Content = <<item>>)
    BY <1>3, <1>4, <1>6 DEF Udp!Content, Udp!ItemData, Udp!ItemQueued
  <1> QED BY <1>4, <1>5, <1>6

LEMMA UdpFitInv ==
    ASSUME UdpInv, Udp!SenderFit
    PROVE  UdpInv'
  <1> DEFINE t == CASE itemWhole /\ (~batching \/ atomicBatchSize + Udp!ItemSize > MTU_SIZE)
                         -> Udp!Flush(Udp!State)
                    [] ~itemWhole /\ rawBatchSize + Udp!ItemSize > MTU_SIZE
                         -> Udp!FlushRaw(Udp!State)
                    [] OTHER -> Udp!State
  <1>1. /\ senderPc = "fit" /\ senderPc' = "add" /\ role = "queue" /\ Udp!Becomes(t)
        /\ UNCHANGED <<packetQueue, currentQueueBytes, totalDropped, maxQueueDepth, accepted,
                       streamEnd, live, role, batching, period, rate, ready, wholes, offered,
                       sinceSend, spanSent, clearing, bulk, lastBulkMode, item, itemWhole>>
    BY DEF Udp!SenderFit, Udp!SenderGoes, Udp!SenderRest, Udp!setup, Udp!Quiet,
           Udp!callVars, Udp!sbusVars, Udp!itemVars
  <1>2. /\ Udp!State \in UdpStates /\ UdpBatchTypes /\ UdpRestTypes
    BY UdpKnows
  <1>3. UdpGood(Udp!State, wholes, UdpUnsent)
    BY DEF UdpInv
  <1>4. /\ Udp!State.batch = atomicBatch /\ Udp!State.size = atomicBatchSize
        /\ Udp!State.rawSize = rawBatchSize
    BY DEF Udp!State
  <1>5. /\ Udp!Flush(Udp!State) \in UdpStates
        /\ UdpGood(Udp!Flush(Udp!State), wholes, UdpUnsent)
        /\ Udp!Flush(Udp!State).size = 0
        /\ Udp!Flush(Udp!State).batch \in {atomicBatch, <<>>}
    BY <1>2, <1>3, <1>4, FlushGood
  <1>6. /\ Udp!FlushRaw(Udp!State) \in UdpStates
        /\ UdpGood(Udp!FlushRaw(Udp!State), wholes, UdpUnsent)
        /\ Udp!FlushRaw(Udp!State).rawSize = 0
        /\ Udp!FlushRaw(Udp!State).batch = atomicBatch
    BY <1>2, <1>3, <1>4, FlushRawGood
  <1>7. t \in {Udp!State, Udp!Flush(Udp!State), Udp!FlushRaw(Udp!State)}
    OBVIOUS
  <1>8. t \in UdpStates /\ UdpGood(t, wholes, UdpUnsent) /\ t.batch \in {atomicBatch, <<>>}
    BY <1>2, <1>3, <1>4, <1>5, <1>6, <1>7
  <1>9. /\ itemWhole /\ batching => t.size + Udp!ItemSize <= MTU_SIZE
        /\ ~itemWhole => t.rawSize + Udp!ItemSize <= MTU_SIZE
    <2>1. /\ Udp!ItemSize \in Nat /\ Udp!ItemSize <= MTU_SIZE /\ MTU_SIZE \in Nat
          /\ atomicBatchSize \in Nat /\ rawBatchSize \in Nat
      <3>1. Udp!ItemSize \in 0..MTU_SIZE
        BY <1>1, UdpItem
      <3>2. MTU_SIZE \in Nat
        BY UdpConstants
      <3> QED BY <1>2, <3>1, <3>2 DEF UdpBatchTypes
    <2>2. ASSUME itemWhole, batching PROVE t.size + Udp!ItemSize <= MTU_SIZE
      <3>1. CASE atomicBatchSize + Udp!ItemSize > MTU_SIZE
        <4>1. t = Udp!Flush(Udp!State)
          BY <2>2, <3>1
        <4> HIDE DEF t
        <4> QED BY <1>5, <2>1, <4>1
      <3>2. CASE ~(atomicBatchSize + Udp!ItemSize > MTU_SIZE)
        <4>1. t = Udp!State
          BY <2>2, <3>2
        <4> HIDE DEF t
        <4> QED BY <1>4, <2>1, <3>2, <4>1
      <3> QED BY <3>1, <3>2
    <2>3. ASSUME ~itemWhole PROVE t.rawSize + Udp!ItemSize <= MTU_SIZE
      <3>1. CASE rawBatchSize + Udp!ItemSize > MTU_SIZE
        <4>1. t = Udp!FlushRaw(Udp!State)
          BY <2>3, <3>1
        <4> HIDE DEF t
        <4> QED BY <1>6, <2>1, <4>1
      <3>2. CASE ~(rawBatchSize + Udp!ItemSize > MTU_SIZE)
        <4>1. t = Udp!State
          BY <2>3, <3>2
        <4> HIDE DEF t
        <4> QED BY <1>4, <2>1, <3>2, <4>1
      <3> QED BY <3>1, <3>2
    <2> QED BY <2>2, <2>3
  <1> HIDE DEF t
  <1>10. /\ atomicBatchSize' = t.size /\ rawBatchSize' = t.rawSize
    BY <1>1, <1>8, UdpBecomes
  <1>11. Udp!ItemSize' = Udp!ItemSize
    BY <1>1 DEF Udp!ItemSize, Udp!ItemQueued
  <1>12. UdpRoom'
    BY <1>1, <1>9, <1>10, <1>11 DEF UdpRoom
  <1>13. UdpNext' = UdpNext /\ UdpUnsent' = UdpUnsent
    BY <1>1 DEF UdpUnsent, UdpNext
  <1>14. UdpHand'
    BY <1>1, <1>13 DEF UdpInv, UdpHand, UdpHeld
  <1>15. ~batching => t.batch = <<>>
    BY <1>8 DEF UdpInv
  <1>16. /\ item' \in Nat /\ itemWhole' \in BOOLEAN /\ clearing' \in BOOLEAN
         /\ bulk' \in BOOLEAN /\ lastBulkMode' \in BOOLEAN
    BY <1>1, <1>2 DEF UdpRestTypes
  <1> QED BY <1>1, <1>8, <1>12, <1>13, <1>14, <1>15, <1>16, UdpBatchStep

(* The fields of a batch that a packet joins. *)
Joined(s, b, z, p, a) == [s EXCEPT !.batch = b, !.size = z, !.packets = p, !.age = a]
LEMMA JoinedType ==
    ASSUME NEW s \in UdpStates, NEW b \in Seq(Nat), NEW z \in 0..MTU_SIZE, NEW p \in Nat,
           NEW a \in Nat \cup {Unset}
    PROVE  Joined(s, b, z, p, a) \in UdpStates
  BY DEF UdpStates, Joined

JoinedRaw(s, b, z, a) == [s EXCEPT !.raw = b, !.rawSize = z, !.rawAge = a]
LEMMA JoinedRawType ==
    ASSUME NEW s \in UdpStates, NEW b \in Seq(Nat), NEW z \in 0..MTU_SIZE,
           NEW a \in Nat \cup {Unset}
    PROVE  JoinedRaw(s, b, z, a) \in UdpStates
  BY DEF UdpStates, JoinedRaw
LEMMA JoinedRawState ==
    ASSUME NEW s \in UdpStates, NEW b \in Seq(Nat), NEW z \in 0..MTU_SIZE,
           NEW a \in Nat \cup {Unset}
    PROVE  /\ JoinedRaw(s, b, z, a).raw = b
           /\ JoinedRaw(s, b, z, a).wire = s.wire
           /\ JoinedRaw(s, b, z, a).batch = s.batch
  BY DEF UdpStates, JoinedRaw

Sent(s, p, w) == [s EXCEPT !.sent = p, !.wire = w]
LEMMA SentType ==
    ASSUME NEW s \in UdpStates, NEW p \in Nat, NEW w \in Seq(Nat)
    PROVE  Sent(s, p, w) \in UdpStates
  BY DEF UdpStates, Sent
LEMMA SentState ==
    ASSUME NEW s \in UdpStates, NEW p \in Nat, NEW w \in Seq(Nat)
    PROVE  /\ Sent(s, p, w).wire = w
           /\ Sent(s, p, w).batch = s.batch
           /\ Sent(s, p, w).raw = s.raw
           /\ Sent(s, p, w).size = s.size
           /\ Sent(s, p, w).age = s.age
  BY DEF UdpStates, Sent

GivenUp(s, b, z, c, y) == [s EXCEPT !.batch = b, !.size = z, !.age = Unset, !.raw = c, !.rawSize = y]
LEMMA GivenUpType ==
    ASSUME NEW s \in UdpStates, NEW b \in Seq(Nat), NEW c \in Seq(Nat), NEW z \in 0..MTU_SIZE,
           NEW y \in 0..MTU_SIZE
    PROVE  GivenUp(s, b, z, c, y) \in UdpStates
  BY DEF UdpStates, GivenUp

(* The packet in hand, or nothing, joins the batch of its kind. *)
LEMMA GrownBatch ==
    ASSUME NEW w \in Seq(Nat), NEW b \in Seq(Nat), NEW n \in Nat, NEW K, n \in K,
           NEW c, c = <<>> \/ c = <<n>>, Udp!InOrder(w, b, K), Below(w, n), Below(b, n)
    PROVE  b \o c \in Seq(Nat) /\ Udp!InOrder(w, b \o c, K) /\ Below(b \o c, n + 1)
  <1>1. CASE c = <<n>>
    BY <1>1, AppendInOrder
  <1>2. CASE c = <<>>
    <2>1. b \o c = b
      BY <1>2
    <2>2. Below(b, n + 1)
      <3>1. n \in Int /\ n + 1 \in Int /\ n <= n + 1
        OBVIOUS
      <3> QED BY <3>1, RaiseBelow
    <2> QED BY <2>1, <2>2
  <1> QED BY <1>1, <1>2

LEMMA UdpAddInv ==
    ASSUME UdpInv, Udp!SenderAdd
    PROVE  UdpInv'
  <1> DEFINE S == Udp!State
             a == IF atomicAge = Unset THEN 0 ELSE atomicAge
             whole == [S EXCEPT !.batch = S.batch \o Udp!Content, !.size = S.size + Udp!ItemSize,
                                !.packets = S.packets + 1, !.age = a]
             single == [S EXCEPT !.sent = S.sent + 1, !.wire = S.wire \o Udp!Content]
             stream == [S EXCEPT !.raw = S.raw \o Udp!Content,
                                 !.rawSize = S.rawSize + Udp!ItemSize, !.rawAge = 0]
             t == CASE itemWhole /\ ~batching -> single
                    [] itemWhole /\ batching -> IF Udp!Full(whole) THEN Udp!Flush(whole) ELSE whole
                    [] OTHER -> stream
  <1>1. /\ senderPc = "add" /\ senderPc' = "free" /\ role = "queue"
        /\ UNCHANGED <<packetQueue, currentQueueBytes, totalDropped, maxQueueDepth, accepted,
                       streamEnd, live, role, batching, period, rate, ready, wholes, offered,
                       sinceSend, spanSent, clearing, bulk, lastBulkMode, item, itemWhole>>
    BY DEF Udp!SenderAdd, Udp!SenderGoes, Udp!SenderRest, Udp!setup, Udp!Quiet,
           Udp!callVars, Udp!sbusVars, Udp!itemVars
  <1>2. Udp!Becomes(t)
    BY DEF Udp!SenderAdd, Udp!State
  <1>3. /\ S \in UdpStates /\ UdpBatchTypes /\ UdpRestTypes /\ item \in Nat
    BY UdpKnows DEF UdpRestTypes
  <1>4. /\ ~clearing /\ (itemWhole <=> item \in wholes) /\ UdpUnsent = item
        /\ item \in Nat \ {0} /\ item <= UdpNext
    BY <1>1 DEF UdpInv, UdpHand, UdpHeld, UdpUnsent
  <1>5. /\ S.wire = wire /\ S.batch = atomicBatch /\ S.raw = rawBatch
        /\ S.size = atomicBatchSize /\ S.rawSize = rawBatchSize
        /\ S.packets = atomicBatchPackets /\ S.sent = totalSent
    BY DEF Udp!State
  <1>6. /\ Udp!InOrder(wire, atomicBatch, wholes) /\ Udp!InOrder(wire, rawBatch, Nat \ wholes)
        /\ Below(wire, item) /\ Below(atomicBatch, item) /\ Below(rawBatch, item)
    BY <1>4, <1>5 DEF UdpInv, UdpGood
  <1>7. /\ wire \in Seq(Nat) /\ atomicBatch \in Seq(Nat) /\ rawBatch \in Seq(Nat)
        /\ atomicBatchPackets + 1 \in Nat /\ totalSent + 1 \in Nat
        /\ atomicBatchSize \in Nat /\ rawBatchSize \in Nat
    BY <1>3 DEF UdpBatchTypes
  <1>8. /\ (Udp!Content = <<>> \/ Udp!Content = <<item>>) /\ Udp!ItemSize \in Nat
        /\ MTU_SIZE \in Nat
    <2>1. (Udp!Content = <<>> \/ Udp!Content = <<item>>) /\ Udp!ItemSize \in 0..MTU_SIZE
      BY <1>1, <1>4, UdpItem
    <2> QED BY <2>1, UdpConstants
  <1>9. Below(wire, item + 1) /\ Below(atomicBatch, item + 1) /\ Below(rawBatch, item + 1)
    <2>1. item \in Int /\ item + 1 \in Int /\ item <= item + 1
      BY <1>3
    <2> QED BY <1>6, <1>7, <2>1, RaiseBelow
  <1>10. a \in Nat \cup {Unset}
    BY <1>3 DEF UdpBatchTypes
  <1> HIDE DEF S, a
  <1>11. ASSUME itemWhole, batching
         PROVE  whole \in UdpStates /\ UdpGood(whole, wholes, item + 1)
    <2> DEFINE b == atomicBatch \o Udp!Content
               z == atomicBatchSize + Udp!ItemSize
    <2>1. b \in Seq(Nat) /\ Udp!InOrder(wire, b, wholes) /\ Below(b, item + 1)
      BY <1>3, <1>4, <1>6, <1>7, <1>8, <1>11, GrownBatch
    <2>2. z \in 0..MTU_SIZE
      <3>1. z <= MTU_SIZE
        BY <1>1, <1>11 DEF UdpInv, UdpRoom
      <3> QED BY <1>7, <1>8, <3>1
    <2>3. whole = Joined(S, b, z, atomicBatchPackets + 1, a)
      BY <1>5 DEF Joined
    <2> HIDE DEF b, z, whole
    <2>4. /\ whole \in UdpStates /\ whole.batch = b /\ whole.wire = S.wire /\ whole.raw = S.raw
      <3> DEFINE j == Joined(S, b, z, atomicBatchPackets + 1, a)
      <3>1. j \in UdpStates
        BY <1>3, <1>7, <1>10, <2>1, <2>2, JoinedType
      <3>2. S \in UdpStates
        BY <1>3
      <3>3. j.batch = b /\ j.wire = S.wire /\ j.raw = S.raw
        BY <3>2 DEF Joined, UdpStates
      <3> QED BY <2>3, <3>1, <3>3
    <2> QED BY <1>5, <1>6, <1>9, <2>1, <2>4 DEF UdpGood
  <1>12. ASSUME itemWhole, ~batching
         PROVE  /\ single \in UdpStates /\ UdpGood(single, wholes, item + 1)
                /\ single.batch = <<>>
    <2> DEFINE c == Udp!Content
               e == <<>> \o c
    <2>0. atomicBatch = <<>> /\ <<>> \in Seq(Nat) /\ Below(<<>>, item)
          /\ Udp!InOrder(wire, <<>>, wholes)
      BY <1>6, <1>12 DEF UdpInv, Below
    <2>1. e \in Seq(Nat) /\ Udp!InOrder(wire, e, wholes) /\ Below(e, item + 1)
      BY <1>3, <1>4, <1>6, <1>7, <1>8, <1>12, <2>0, GrownBatch
    <2>2. c \in Seq(Nat)
      <3>1. <<item>> \in Seq(Nat) /\ <<>> \in Seq(Nat)
        BY <1>3
      <3> QED BY <1>8, <3>1
    <2>3. e = c
      BY <2>2
    <2> HIDE DEF c, e
    <2>4. c \in Seq(Nat) /\ Udp!InOrder(wire, c, wholes) /\ Below(c, item + 1)
      BY <2>1, <2>3
    <2>5. /\ wire \o c \in Seq(Nat) /\ Udp!InOrder(wire \o c, <<>>, wholes)
          /\ Udp!InOrder(wire \o c, rawBatch, Nat \ wholes)
      <3>1. wholes \cap (Nat \ wholes) = {}
        OBVIOUS
      <3> QED BY <1>6, <1>7, <2>4, <3>1, JoinInOrder
    <2>6. Below(wire \o c, item + 1)
      BY <1>7, <1>9, <2>4, JoinBelow
    <2>7. single = Sent(S, totalSent + 1, wire \o c)
      BY <1>5 DEF c, Sent
    <2> HIDE DEF single
    <2>8. /\ single \in UdpStates /\ single.wire = wire \o c /\ single.batch = S.batch
          /\ single.raw = S.raw
      <3> DEFINE j == Sent(S, totalSent + 1, wire \o c)
      <3>1. j \in UdpStates
        BY <1>3, <1>7, <2>5, SentType
      <3>2. \A p \in Nat, w \in Seq(Nat) :
               /\ Sent(S, p, w).wire = w /\ Sent(S, p, w).batch = S.batch
               /\ Sent(S, p, w).raw = S.raw
        BY <1>3, SentState
      <3>3. j.wire = wire \o c /\ j.batch = S.batch /\ j.raw = S.raw
        BY <1>7, <2>5, <3>2
      <3> QED BY <2>7, <3>1, <3>3
    <2>9. single.batch = <<>> /\ single.raw = rawBatch /\ Below(<<>>, item + 1)
      BY <1>5, <2>0, <2>8 DEF Below
    <2> QED BY <1>9, <2>5, <2>6, <2>8, <2>9 DEF UdpGood
  <1>13. ASSUME ~itemWhole
         PROVE  /\ stream \in UdpStates /\ UdpGood(stream, wholes, item + 1)
                /\ stream.batch = atomicBatch
    <2> DEFINE b == rawBatch \o Udp!Content
               z == rawBatchSize + Udp!ItemSize
    <2>1. b \in Seq(Nat) /\ Udp!InOrder(wire, b, Nat \ wholes) /\ Below(b, item + 1)
      <3>1. item \in Nat \ wholes
        BY <1>3, <1>4, <1>13
      <3> QED BY <1>3, <1>6, <1>7, <1>8, <3>1, GrownBatch
    <2>2. z \in 0..MTU_SIZE
      <3>1. z <= MTU_SIZE
        BY <1>1, <1>13 DEF UdpInv, UdpRoom
      <3> QED BY <1>7, <1>8, <3>1
    <2>3. stream = JoinedRaw(S, b, z, 0) /\ 0 \in Nat \cup {Unset}
      BY <1>5 DEF JoinedRaw
    <2> HIDE DEF b, z, stream
    <2>4. /\ stream \in UdpStates /\ stream.raw = b /\ stream.wire = S.wire
          /\ stream.batch = S.batch
      <3> DEFINE j == JoinedRaw(S, b, z, 0)
      <3>1. j \in UdpStates
        BY <1>3, <2>1, <2>2, <2>3, JoinedRawType
      <3>2. j.raw = b /\ j.wire = S.wire /\ j.batch = S.batch
        BY <1>3, <2>1, <2>2, <2>3, JoinedRawState
      <3> QED BY <2>3, <3>1, <3>2
    <2> QED BY <1>5, <1>6, <1>9, <2>1, <2>4 DEF UdpGood
  <1>14. /\ t \in UdpStates /\ UdpGood(t, wholes, item + 1) /\ (~batching => t.batch = <<>>)
    <2>0. itemWhole \in BOOLEAN /\ batching \in BOOLEAN
      BY <1>3 DEF UdpRestTypes
    <2>1. CASE itemWhole /\ ~batching
      <3>1. t = single
        BY <2>1
      <3> HIDE DEF t, single
      <3> QED BY <1>12, <2>1, <3>1
    <2>2. CASE itemWhole /\ batching
      <3>1. t \in {Udp!Flush(whole), whole}
        BY <2>2
      <3>2. whole \in UdpStates /\ UdpGood(whole, wholes, item + 1)
        BY <1>11, <2>2
      <3> HIDE DEF t, whole
      <3>3. Udp!Flush(whole) \in UdpStates /\ UdpGood(Udp!Flush(whole), wholes, item + 1)
        BY <3>2, FlushGood
      <3> QED BY <2>2, <3>1, <3>2, <3>3
    <2>3. CASE ~itemWhole
      <3>1. t = stream
        BY <2>3
      <3> HIDE DEF t, stream
      <3>2. ~batching => atomicBatch = <<>>
        BY DEF UdpInv
      <3> QED BY <1>13, <2>3, <3>1, <3>2
    <2> QED BY <2>0, <2>1, <2>2, <2>3
  <1> HIDE DEF t
  <1>15. UdpUnsent' = item + 1
    BY <1>1, <1>4 DEF UdpUnsent
  <1>16. UdpNext' = UdpNext
    BY <1>1 DEF UdpNext
  <1>17. UdpHand' /\ UdpRoom'
    BY <1>1, <1>4, <1>16 DEF UdpInv, UdpHand, UdpHeld, UdpRoom
  <1>18. /\ item' \in Nat /\ itemWhole' \in BOOLEAN /\ clearing' \in BOOLEAN
         /\ bulk' \in BOOLEAN /\ lastBulkMode' \in BOOLEAN
    BY <1>1, <1>3 DEF UdpRestTypes
  <1> QED BY <1>1, <1>2, <1>14, <1>15, <1>17, <1>18, UdpBatchStep

LEMMA UdpDoneInv ==
    ASSUME UdpInv, Udp!SenderDone
    PROVE  UdpInv'
  <1> DEFINE S == Udp!State
             given == [S EXCEPT !.batch = <<>>, !.size = 0, !.age = Unset,
                                !.raw = <<>>, !.rawSize = 0]
             t == IF clearing THEN given ELSE Udp!CheckTimeouts(S)
  <1>1. /\ senderPc = "next" /\ senderPc' = "idle" /\ role = "queue" /\ Udp!Becomes(t)
        /\ clearing' = FALSE /\ bulk' = FALSE
        /\ UNCHANGED <<packetQueue, currentQueueBytes, totalDropped, maxQueueDepth, accepted,
                       streamEnd, live, role, batching, period, rate, ready, wholes, offered,
                       sinceSend, spanSent, lastBulkMode, item, itemWhole>>
    BY DEF Udp!SenderDone, Udp!SenderGoes, Udp!SenderRest, Udp!setup, Udp!sbusVars, Udp!itemVars
  <1>2. S \in UdpStates /\ UdpRestTypes /\ S.batch = atomicBatch
    BY UdpKnows DEF Udp!State
  <1>3. UdpGood(S, wholes, UdpUnsent) /\ (~batching => S.batch = <<>>)
    BY <1>2 DEF UdpInv
  <1> HIDE DEF S
  <1>4. given \in UdpStates /\ UdpGood(given, wholes, UdpUnsent) /\ given.batch = <<>>
    <2>1. <<>> \in Seq(Nat) /\ 0 \in 0..MTU_SIZE /\ S.packets \in Nat
      BY <1>2, UdpConstants DEF UdpStates
    <2>2. given = GivenUp(S, <<>>, 0, <<>>, 0)
      BY DEF GivenUp
    <2> HIDE DEF given
    <2>4. given \in UdpStates /\ given.batch = <<>> /\ given.raw = <<>> /\ given.wire = S.wire
      <3> DEFINE j == GivenUp(S, <<>>, 0, <<>>, 0)
      <3>1. j \in UdpStates
        BY <1>2, <2>1, GivenUpType
      <3>2. S \in UdpStates
        BY <1>2
      <3>3. j.batch = <<>> /\ j.raw = <<>> /\ j.wire = S.wire
        BY <3>2 DEF GivenUp, UdpStates
      <3> QED BY <2>2, <3>1, <3>3
    <2>5. Below(<<>>, UdpUnsent)
      BY DEF Below
    <2>6. Udp!InOrder(S.wire, <<>>, wholes) /\ Udp!InOrder(S.wire, <<>>, Nat \ wholes)
      BY <1>3 DEF UdpGood, Udp!InOrder
    <2>7. Below(S.wire, UdpUnsent)
      BY <1>3 DEF UdpGood
    <2> QED BY <2>4, <2>5, <2>6, <2>7 DEF UdpGood
  <1>5. /\ Udp!CheckTimeouts(S) \in UdpStates /\ UdpGood(Udp!CheckTimeouts(S), wholes, UdpUnsent)
        /\ Udp!CheckTimeouts(S).batch \in {S.batch, <<>>}
    <2> DEFINE u == IF S.size > 0 /\ S.age >= BATCH_TIMEOUT[bulk] THEN Udp!Flush(S) ELSE S
    <2>1. u \in UdpStates /\ UdpGood(u, wholes, UdpUnsent) /\ u.batch \in {S.batch, <<>>}
      BY <1>2, <1>3, FlushGood
    <2>2. Udp!CheckTimeouts(S) \in {u, Udp!FlushRaw(u)}
      BY DEF Udp!CheckTimeouts
    <2> HIDE DEF u
    <2>3. /\ Udp!FlushRaw(u) \in UdpStates /\ UdpGood(Udp!FlushRaw(u), wholes, UdpUnsent)
          /\ Udp!FlushRaw(u).batch = u.batch
      BY <2>1, FlushRawGood
    <2> QED BY <2>1, <2>2, <2>3
  <1>6. t \in UdpStates /\ UdpGood(t, wholes, UdpUnsent) /\ (~batching => t.batch = <<>>)
    <2>1. t \in {given, Udp!CheckTimeouts(S)}
      OBVIOUS
    <2> HIDE DEF t, given
    <2> QED BY <1>3, <1>4, <1>5, <2>1
  <1> HIDE DEF t
  <1>7. UdpUnsent' = UdpUnsent
    BY <1>1 DEF UdpUnsent, UdpNext
  <1>8. UdpHand' /\ UdpRoom'
    BY <1>1 DEF UdpHand, UdpHeld, UdpRoom
  <1>9. /\ item' \in Nat /\ itemWhole' \in BOOLEAN /\ clearing' \in BOOLEAN
        /\ bulk' \in BOOLEAN /\ lastBulkMode' \in BOOLEAN
    BY <1>1, <1>2 DEF UdpRestTypes
  <1> QED BY <1>1, <1>6, <1>7, <1>8, <1>9, UdpBatchStep

LEMMA UdpFreeInv ==
    ASSUME UdpInv, Udp!SenderFree
    PROVE  UdpInv'
  <1>1. /\ senderPc = "free" /\ senderPc' = "pop" /\ role = "queue"
        /\ UNCHANGED <<totalDropped, maxQueueDepth, accepted, streamEnd, role, batching, period,
                       rate, ready, wholes, offered, sinceSend, spanSent, clearing, bulk,
                       lastBulkMode, item, itemWhole>>
        /\ UNCHANGED <<atomicBatch, atomicBatchSize, atomicBatchPackets, atomicAge, rawBatch,
                       rawBatchSize, rawAge, totalSent, wire>>
    BY DEF Udp!SenderFree, Udp!SenderGoes, Udp!SenderRest, Udp!setup, Udp!callVars,
           Udp!sbusVars, Udp!itemVars, Udp!atomicVars, Udp!rawVars
  <1>2. /\ currentQueueBytes' = Udp!SizeSub(currentQueueBytes, Udp!ItemSize)
        /\ live' \subseteq live
        /\ packetQueue' = IF Udp!ItemQueued
                          THEN Freed(packetQueue) ELSE packetQueue
    BY DEF Udp!SenderFree, Udp!NULL, Freed
  <1>3. /\ UdpBatchTypes /\ UdpQueueTypes /\ UdpRestTypes /\ accepted \in Nat
        /\ Loose(packetQueue, accepted) /\ packetQueue # <<>>
    BY <1>1, UdpKnows DEF UdpInv, UdpQueue, UdpHand, UdpHeld
  <1>4. /\ Loose(packetQueue', accepted) /\ Len(packetQueue') = Len(packetQueue)
        /\ packetQueue' # <<>>
    <2>1. CASE Udp!ItemQueued
      <3>1. packetQueue' = Freed(packetQueue)
        BY <1>2, <2>1
      <3> QED BY <1>3, <3>1, LooseFree
    <2>2. CASE ~Udp!ItemQueued
      BY <1>2, <1>3, <2>2
    <2> QED BY <2>1, <2>2
  <1>5. currentQueueBytes' \in 0..(SizeMod - 1)
    <2>1. Udp!ItemSize \in 0..MaxPacketSize
      BY <1>1, UdpItem
    <2>2. MaxPacketSize < SizeMod /\ SizeMod \in Nat /\ MaxPacketSize \in Nat
      BY SmallSizes
    <2>3. Udp!ItemSize \in Nat /\ Udp!ItemSize < SizeMod
      BY <2>1, <2>2
    <2>4. SizeSub(currentQueueBytes, Udp!ItemSize) \in 0..(SizeMod - 1)
      BY <1>3, <2>3, SizeSubType DEF UdpQueueTypes
    <2> QED BY <1>2, <2>4 DEF Udp!SizeSub, SizeSub
  <1>6. UdpQueueTypes'
    <2>1. packetQueue' \in Seq(Packet)
      BY <1>4 DEF Loose
    <2> QED BY <1>1, <1>2, <1>3, <1>5, <2>1 DEF UdpQueueTypes
  <1>7. UdpBatchTypes' /\ UdpRestTypes'
    BY <1>1, <1>3 DEF UdpBatchTypes, UdpRestTypes
  <1>8. Udp!UdpTypeOK'
    BY <1>6, <1>7, UdpTypes
  <1>9. UdpNext' = UdpNext /\ Udp!State' = Udp!State
    BY <1>1, <1>4 DEF UdpNext, Udp!State
  <1>10. UdpUnsent' = UdpUnsent
    BY <1>1, <1>9 DEF UdpUnsent
  <1>11. UdpQueue' /\ UdpSbus' /\ UdpRoom'
    BY <1>1, <1>4 DEF UdpQueue, UdpSbus, UdpRoom
  <1>12. UdpHand'
    BY <1>1, <1>4, <1>9 DEF UdpInv, UdpHand, UdpHeld
  <1> QED BY <1>1, <1>8, <1>9, <1>10, <1>11, <1>12 DEF UdpInv, Udp!FreshFrames

LEMMA UdpPopInv ==
    ASSUME UdpInv, Udp!SenderPop
    PROVE  UdpInv'
  <1>1. /\ senderPc = "pop" /\ senderPc' = "next" /\ role = "queue"
        /\ packetQueue' = Tail(packetQueue) /\ item' = 0 /\ itemWhole' = FALSE
        /\ UNCHANGED <<currentQueueBytes, live, totalDropped, maxQueueDepth, accepted, streamEnd,
                       role, batching, period, rate, ready, wholes, offered, sinceSend, spanSent,
                       clearing, bulk, lastBulkMode>>
        /\ UNCHANGED <<atomicBatch, atomicBatchSize, atomicBatchPackets, atomicAge, rawBatch,
                       rawBatchSize, rawAge, totalSent, wire>>
    BY DEF Udp!SenderPop, Udp!SenderGoes, Udp!SenderRest, Udp!setup, Udp!callVars,
           Udp!sbusVars, Udp!atomicVars, Udp!rawVars
  <1>2. /\ UdpBatchTypes /\ UdpQueueTypes /\ UdpRestTypes /\ accepted \in Nat
        /\ Loose(packetQueue, accepted) /\ packetQueue # <<>> /\ Len(packetQueue) \in Nat
        /\ UdpNext \in Int /\ UdpUnsent \in Int /\ Udp!State \in UdpStates
    BY <1>1, UdpKnows DEF UdpInv, UdpQueue, UdpHand, UdpHeld
  <1>3. /\ Loose(packetQueue', accepted) /\ Kept(packetQueue')
        /\ Len(packetQueue') = Len(packetQueue) - 1
    BY <1>1, <1>2, LoosePop
  <1>4. UdpQueueTypes'
    <2>1. packetQueue' \in Seq(Packet)
      BY <1>3 DEF Loose
    <2> QED BY <1>1, <1>2, <2>1 DEF UdpQueueTypes
  <1>5. UdpBatchTypes' /\ UdpRestTypes'
    BY <1>1, <1>2 DEF UdpBatchTypes, UdpRestTypes
  <1>6. Udp!UdpTypeOK'
    BY <1>4, <1>5, UdpTypes
  <1>7. UdpNext' = UdpNext + 1 /\ UdpUnsent' = UdpNext'
    BY <1>1, <1>2, <1>3 DEF UdpNext, UdpUnsent
  <1>8. UdpUnsent <= UdpUnsent' /\ UdpUnsent' \in Int
    <2>1. CASE clearing
      <3>1. UdpUnsent = UdpNext
        BY <1>1, <2>1 DEF UdpUnsent
      <3> QED BY <1>2, <1>7, <3>1
    <2>2. CASE ~clearing
      <3>1. UdpUnsent = item + 1 /\ item <= UdpNext /\ item \in Nat
        BY <1>1, <2>2 DEF UdpInv, UdpHand, UdpHeld, UdpUnsent
      <3> QED BY <1>2, <1>7, <3>1
    <2> QED BY <2>1, <2>2
  <1>9. Udp!State' = Udp!State /\ wholes' = wholes
    BY <1>1 DEF Udp!State
  <1>10. UdpGood(Udp!State', wholes', UdpUnsent')
    <2>1. UdpGood(Udp!State, wholes, UdpUnsent')
      BY <1>2, <1>8, SameGood DEF UdpInv
    <2> QED BY <1>9, <2>1
  <1>11. UdpQueue' /\ UdpHand' /\ UdpSbus' /\ UdpRoom'
    BY <1>1, <1>3 DEF UdpQueue, UdpHand, UdpHeld, UdpSbus, UdpRoom
  <1> QED BY <1>1, <1>6, <1>10, <1>11 DEF UdpInv, Udp!FreshFrames

(* The batch of the SBUS output: an age while there is a frame. *)
SbusBatch(s) ==
    /\ s \in UdpStates /\ s.batch = <<>> /\ (s.size = 0 <=> s.age = Unset)
    /\ UdpGood(s, wholes, UdpUnsent)

LEMMA FlushSbus ==
    ASSUME NEW s, SbusBatch(s)
    PROVE  SbusBatch(Udp!Flush(s)) /\ Udp!Flush(s).size = 0
  <1>1. /\ Udp!Flush(s) \in UdpStates /\ UdpGood(Udp!Flush(s), wholes, UdpUnsent)
        /\ Udp!Flush(s).size = 0 /\ Udp!Flush(s).batch \in {s.batch, <<>>}
    BY FlushGood DEF SbusBatch
  <1>2. Udp!Flush(s).age = Unset
    <2>1. s \in UdpStates /\ (s.size = 0 <=> s.age = Unset)
      BY DEF SbusBatch
    <2> QED BY <2>1 DEF Udp!Flush, UdpStates
  <1> QED BY <1>1, <1>2 DEF SbusBatch

LEMMA DropStaleSbus ==
    ASSUME NEW s, SbusBatch(s)
    PROVE  /\ SbusBatch(Udp!DropStale(s))
           /\ Udp!DropStale(s).size # 0 => /\ Udp!DropStale(s).age \in Nat
                                           /\ Udp!DropStale(s).age < SBUS_STALE
  <1> DEFINE d == Udp!DropStale(s)
             e == [s EXCEPT !.batch = <<>>, !.size = 0, !.packets = 0, !.age = Unset]
  <1>1. /\ s \in UdpStates /\ s.size \in 0..MTU_SIZE /\ s.age \in Nat \cup {Unset}
        /\ (s.size = 0 <=> s.age = Unset) /\ s.batch = <<>>
    BY DEF SbusBatch, UdpStates
  <1>2. MTU_SIZE \in Nat /\ SBUS_STALE \in Nat
    BY UdpConstants
  <1>3. d = e \/ (d = s /\ ~(s.size > 0 /\ s.age >= SBUS_STALE))
    BY DEF Udp!DropStale
  <1> HIDE DEF d
  <1>4. CASE d = e
    <2> DEFINE b == <<>>
               z == 0
               a == Unset
    <2>1. e = Joined(s, b, z, z, a)
      BY DEF Joined
    <2>2. b \in Seq(Nat) /\ z \in 0..MTU_SIZE /\ z \in Nat /\ a \in Nat \cup {Unset}
      BY <1>2
    <2> HIDE DEF b, z, a
    <2>3. e \in UdpStates
      BY <1>1, <2>1, <2>2, JoinedType
    <2> USE DEF b, z, a
    <2>4. e.batch = <<>> /\ e.size = 0 /\ e.age = Unset /\ e.wire = s.wire /\ e.raw = s.raw
      BY <1>1 DEF UdpStates
    <2> HIDE DEF e
    <2>5. UdpGood(e, wholes, UdpUnsent)
      BY <1>1, <2>4 DEF SbusBatch, UdpGood
    <2> QED BY <1>4, <2>3, <2>4, <2>5 DEF SbusBatch, d
  <1>5. CASE d = s /\ ~(s.size > 0 /\ s.age >= SBUS_STALE)
    <2>1. ASSUME s.size # 0 PROVE s.age \in Nat /\ s.age < SBUS_STALE
      <3>1. s.size > 0 /\ s.age \in Nat
        BY <1>1, <1>2, <2>1
      <3> QED BY <1>2, <1>5, <3>1
    <2> QED BY <1>5, <2>1 DEF d
  <1> QED BY <1>3, <1>4, <1>5

WithAge(s, a) == [s EXCEPT !.age = a]
LEMMA WithAgeType ==
    ASSUME NEW s \in UdpStates, NEW a \in Nat \cup {Unset}
    PROVE  WithAge(s, a) \in UdpStates
  BY DEF UdpStates, WithAge

WithSent(s, n) == [s EXCEPT !.sent = n]
LEMMA WithSentType ==
    ASSUME NEW s \in UdpStates, NEW n \in Nat
    PROVE  WithSent(s, n) \in UdpStates
  BY DEF UdpStates, WithSent

Sized(s, z, p, a) == [s EXCEPT !.size = z, !.packets = p, !.age = a]
LEMMA SizedType ==
    ASSUME NEW s \in UdpStates, NEW z \in 0..MTU_SIZE, NEW p \in Nat, NEW a \in Nat
    PROVE  Sized(s, z, p, a) \in UdpStates
  BY DEF UdpStates, Sized

LEMMA UdpFrameInv ==
    ASSUME UdpInv, Udp!Frame
    PROVE  UdpInv'
  <1> DEFINE S == Udp!State
             since == Udp!Older(sinceSend, period, Udp!Interval)
             age == Udp!Older(atomicAge, period, SBUS_STALE)
             aged == [S EXCEPT !.age = age]
             s == Udp!DropStale(aged)
             room == IF s.size + FrameSize > MTU_SIZE THEN Udp!Flush(s) ELSE s
             start == IF room.age = Unset THEN 0 ELSE room.age
             added == [room EXCEPT !.size = room.size + FrameSize, !.packets = room.packets + 1,
                                   !.age = start]
             full == added.packets >= SBUS_FRAMES
             after == IF full THEN Udp!Flush(added) ELSE added
             last == [after EXCEPT !.sent = totalSent]
  <1>1. /\ role = "sbus"
        /\ UNCHANGED <<packetQueue, currentQueueBytes, totalDropped, maxQueueDepth, accepted,
                       streamEnd, live, role, batching, period, rate, ready, wholes, offered,
                       senderPc, item, itemWhole, clearing, bulk, lastBulkMode>>
    BY DEF Udp!Frame, Udp!setup, Udp!itemVars, Udp!callVars
  <1>2. /\ sinceSend' = Udp!Restart(since)
        /\ \/ /\ Udp!Becomes(last)
              /\ spanSent' = IF full THEN added.age ELSE IF room # s THEN s.age ELSE spanSent
           \/ Udp!Becomes(aged) /\ spanSent' = spanSent
    <2>1. S.age = atomicAge
      BY DEF Udp!State
    <2> QED BY <2>1 DEF Udp!Frame
  <1>3. /\ S \in UdpStates /\ UdpBatchTypes /\ UdpQueueTypes /\ UdpRestTypes
        /\ S.batch = <<>> /\ S.age = atomicAge /\ S.size = atomicBatchSize
        /\ (S.size = 0 <=> S.age = Unset) /\ senderPc = "idle"
    <2>1. S \in UdpStates /\ UdpBatchTypes /\ UdpQueueTypes /\ UdpRestTypes
      BY UdpKnows
    <2>2. atomicBatch = <<>> /\ (atomicBatchSize = 0 <=> atomicAge = Unset) /\ senderPc = "idle"
      BY <1>1 DEF UdpInv, UdpSbus
    <2> QED BY <2>1, <2>2 DEF Udp!State
  <1>4. /\ MTU_SIZE \in Nat /\ FrameSize \in Nat /\ FrameSize > 0 /\ FrameSize <= MTU_SIZE
        /\ SBUS_STALE \in Nat /\ SBUS_STALE > 0 /\ period \in Nat /\ Unset \notin Nat
    <2>1. /\ MTU_SIZE \in Nat /\ FrameSize \in 1..MTU_SIZE /\ SBUS_STALE \in Nat
          /\ SBUS_STALE > 0 /\ Periods \subseteq Nat \ {0} /\ Unset \notin Nat
      BY UdpConstants
    <2>2. period \in Nat
      BY <1>3, <2>1 DEF UdpRestTypes
    <2> QED BY <2>1, <2>2
  <1>5. Udp!Restart(since) \in Nat
    <2>1. Udp!Interval \in Nat
      <3>1. rate \in 1..1000
        BY <1>3, UdpConstants DEF UdpRestTypes
      <3> QED BY <3>1 DEF Udp!Interval
    <2>2. sinceSend \in Nat
      BY <1>3 DEF UdpRestTypes
    <2>4. since \in Nat
      BY <1>4, <2>1, <2>2, OlderSet
    <2> HIDE DEF since
    <2> QED BY <2>4 DEF Udp!Restart
  <1>6. age \in Nat \cup {Unset} /\ (age = Unset <=> atomicAge = Unset)
    <2>1. atomicAge \in Nat \cup {Unset}
      BY <1>3 DEF UdpBatchTypes
    <2>2. age \in Nat \cup {Unset}
      BY <1>4, <2>1, OlderType
    <2>3. atomicAge # Unset => age \in Nat
      BY <1>4, <2>1, OlderSet
    <2>4. atomicAge = Unset => age = Unset
      BY DEF Udp!Older
    <2> QED BY <1>4, <2>2, <2>3, <2>4
  <1>7. UdpGood(S, wholes, UdpUnsent)
    BY DEF UdpInv
  <1> HIDE DEF S, age, since
  <1>8. SbusBatch(aged)
    <2>1. aged \in UdpStates
      <3>1. WithAge(S, age) \in UdpStates
        BY <1>3, <1>6, WithAgeType
      <3> QED BY <3>1 DEF WithAge
    <2>2. /\ aged.batch = S.batch /\ aged.wire = S.wire /\ aged.raw = S.raw /\ aged.age = age
          /\ aged.size = S.size
      BY <1>3 DEF UdpStates
    <2> HIDE DEF aged
    <2>3. UdpGood(aged, wholes, UdpUnsent)
      BY <1>7, <2>2 DEF UdpGood
    <2> QED BY <1>3, <1>6, <2>1, <2>2, <2>3 DEF SbusBatch
  <1> HIDE DEF aged
  <1>9. /\ SbusBatch(s)
        /\ s.size # 0 => s.age \in Nat /\ s.age < SBUS_STALE
    BY <1>8, DropStaleSbus
  <1> HIDE DEF s
  <1>10. /\ SbusBatch(room) /\ room.size + FrameSize <= MTU_SIZE
         /\ room # s => s.size # 0
         /\ room = s \/ room.size = 0
    <2>1. CASE s.size + FrameSize > MTU_SIZE
      <3>1. SbusBatch(Udp!Flush(s)) /\ Udp!Flush(s).size = 0
        BY <1>9, FlushSbus
      <3>2. s.size = 0 => Udp!Flush(s) = s
        BY DEF Udp!Flush
      <3>3. room = Udp!Flush(s)
        BY <2>1
      <3> HIDE DEF room
      <3> QED BY <1>4, <3>1, <3>2, <3>3
    <2>2. CASE ~(s.size + FrameSize > MTU_SIZE)
      <3>1. room = s
        BY <2>2
      <3>2. s.size \in 0..MTU_SIZE
        BY <1>9 DEF SbusBatch, UdpStates
      <3> HIDE DEF room
      <3> QED BY <1>4, <1>9, <2>2, <3>1, <3>2
    <2> QED BY <2>1, <2>2
  <1> HIDE DEF room
  <1>11. start \in Nat /\ start < SBUS_STALE /\ start # Unset
    <2>1. room \in UdpStates /\ (room.size = 0 <=> room.age = Unset)
      BY <1>10 DEF SbusBatch
    <2>2. CASE room.age = Unset
      BY <1>4, <2>2
    <2>3. CASE room.age # Unset
      <3>1. room = s /\ s.size # 0
        BY <1>10, <2>1, <2>3
      <3>2. s.age \in Nat /\ s.age < SBUS_STALE
        BY <1>9, <3>1
      <3>3. start = s.age
        BY <2>3, <3>1
      <3> QED BY <1>4, <3>2, <3>3
    <2> QED BY <2>2, <2>3
  <1> HIDE DEF start
  <1>12. SbusBatch(added) /\ added.age = start
    <2> DEFINE z == room.size + FrameSize
               p == room.packets + 1
    <2>1. room \in UdpStates /\ room.size \in 0..MTU_SIZE /\ room.packets \in Nat
          /\ room.batch = <<>>
      BY <1>10 DEF SbusBatch, UdpStates
    <2>2. z \in 0..MTU_SIZE /\ z # 0 /\ p \in Nat
      BY <1>4, <1>10, <2>1
    <2>3. added = Sized(room, z, p, start)
      BY DEF Sized
    <2>5. /\ added.batch = room.batch /\ added.wire = room.wire /\ added.raw = room.raw
          /\ added.size = z /\ added.age = start
      BY <2>1 DEF UdpStates
    <2> HIDE DEF z, p, added
    <2>4. added \in UdpStates
      BY <1>11, <2>1, <2>2, <2>3, SizedType
    <2>6. UdpGood(added, wholes, UdpUnsent)
      BY <1>10, <2>5 DEF SbusBatch, UdpGood
    <2> QED BY <1>11, <2>1, <2>2, <2>4, <2>5, <2>6 DEF SbusBatch
  <1> HIDE DEF added
  <1>13. SbusBatch(after)
    <2>1. after \in {added, Udp!Flush(added)}
      OBVIOUS
    <2> HIDE DEF after
    <2> QED BY <1>12, <2>1, FlushSbus
  <1> HIDE DEF after
  <1>14. SbusBatch(last)
    <2>1. after \in UdpStates /\ totalSent \in Nat
      BY <1>3, <1>13 DEF SbusBatch, UdpBatchTypes
    <2>2. last \in UdpStates
      <3>1. WithSent(after, totalSent) \in UdpStates
        BY <2>1, WithSentType
      <3> QED BY <3>1 DEF WithSent
    <2>3. /\ last.batch = after.batch /\ last.wire = after.wire /\ last.raw = after.raw
          /\ last.size = after.size /\ last.age = after.age
      BY <2>1 DEF UdpStates
    <2> HIDE DEF last
    <2> QED BY <1>13, <2>2, <2>3 DEF SbusBatch, UdpGood
  <1>15. spanSent' \in Nat /\ spanSent' < SBUS_STALE
    <2>1. spanSent \in Nat /\ spanSent < SBUS_STALE
      BY <1>3 DEF UdpRestTypes, UdpInv, Udp!FreshFrames
    <2>2. room # s => s.age \in Nat /\ s.age < SBUS_STALE
      BY <1>9, <1>10
    <2> HIDE DEF full
    <2> QED BY <1>2, <1>11, <1>12, <2>1, <2>2
  <1> HIDE DEF last
  <1>16. PICK t : SbusBatch(t) /\ Udp!Becomes(t)
    BY <1>2, <1>8, <1>14
  <1>17. /\ UdpBatchTypes' /\ Udp!State' = t /\ atomicBatch' = t.batch
         /\ atomicBatchSize' = t.size /\ atomicAge' = t.age
    <2>1. t \in UdpStates
      BY <1>16 DEF SbusBatch
    <2> QED BY <1>16, <2>1, UdpBecomes
  <1>18. UdpQueueTypes'
    BY <1>1, <1>3 DEF UdpQueueTypes
  <1>19. UdpRestTypes'
    BY <1>1, <1>2, <1>3, <1>5, <1>15 DEF UdpRestTypes
  <1>20. Udp!UdpTypeOK'
    BY <1>17, <1>18, <1>19, UdpTypes
  <1>21. UdpUnsent' = UdpUnsent
    BY <1>1 DEF UdpUnsent, UdpNext
  <1>22. UdpGood(Udp!State', wholes', UdpUnsent')
    BY <1>1, <1>16, <1>17, <1>21 DEF SbusBatch
  <1>23. UdpSbus' /\ atomicBatch' = <<>>
    BY <1>1, <1>3, <1>16, <1>17 DEF SbusBatch, UdpSbus
  <1>24. UdpQueue' /\ UdpHand' /\ UdpRoom'
    BY <1>1, <1>3 DEF UdpInv, UdpQueue, UdpHand, UdpHeld, UdpRoom
  <1>25. wholes' \subseteq 1..accepted' /\ Udp!FreshFrames'
    BY <1>1, <1>15 DEF UdpInv, Udp!FreshFrames
  <1> QED BY <1>20, <1>22, <1>23, <1>24, <1>25 DEF UdpInv

LEMMA UdpWifiInv ==
    ASSUME UdpInv, Udp!WifiChanges
    PROVE  UdpInv'
  <1>1. /\ ready' = ~ready /\ senderPc = "idle"
        /\ UNCHANGED <<packetQueue, currentQueueBytes, live, totalDropped, maxQueueDepth,
                       accepted, streamEnd, role, batching, period, rate, wholes, offered,
                       sinceSend, spanSent, clearing, bulk, lastBulkMode, item, itemWhole,
                       senderPc>>
        /\ UNCHANGED <<atomicBatch, atomicBatchSize, atomicBatchPackets, atomicAge, rawBatch,
                       rawBatchSize, rawAge, totalSent, wire>>
    BY DEF Udp!WifiChanges, Udp!queueVars, Udp!setup, Udp!itemVars, Udp!callVars, Udp!atomicVars,
           Udp!rawVars, Udp!sbusVars
  <1>2. UdpBatchTypes /\ UdpQueueTypes /\ UdpRestTypes
    BY UdpKnows
  <1>3. UdpBatchTypes' /\ UdpQueueTypes' /\ UdpRestTypes'
    <2>1. UdpBatchTypes' /\ UdpQueueTypes'
      BY <1>1, <1>2 DEF UdpBatchTypes, UdpQueueTypes
    <2>2. ready' \in BOOLEAN
      BY <1>1
    <2>3. UdpRestTypes'
      BY <1>1, <1>2, <2>2 DEF UdpRestTypes
    <2> QED BY <2>1, <2>3
  <1>4. Udp!UdpTypeOK'
    BY <1>3, UdpTypes
  <1>5. UdpNext' = UdpNext /\ UdpUnsent' = UdpUnsent /\ Udp!State' = Udp!State
    BY <1>1 DEF UdpNext, UdpUnsent, Udp!State
  <1>6. UdpQueue' /\ UdpHand' /\ UdpSbus' /\ UdpRoom'
    BY <1>1, <1>5 DEF UdpInv, UdpQueue, UdpHand, UdpHeld, UdpSbus, UdpRoom
  <1> QED BY <1>1, <1>4, <1>5, <1>6 DEF UdpInv, Udp!FreshFrames

LEMMA UdpStutterInv ==
    ASSUME UdpInv, UNCHANGED Udp!vars
    PROVE  UdpInv'
  <1>1. /\ UNCHANGED <<packetQueue, currentQueueBytes, live, totalDropped, maxQueueDepth,
                       accepted, streamEnd, role, batching, ready, period, rate, wholes, offered,
                       sinceSend, spanSent, clearing, bulk, lastBulkMode, item, itemWhole,
                       senderPc>>
        /\ UNCHANGED <<atomicBatch, atomicBatchSize, atomicBatchPackets, atomicAge, rawBatch,
                       rawBatchSize, rawAge, totalSent, wire>>
    BY DEF Udp!vars, Udp!queueVars, Udp!setup, Udp!itemVars, Udp!callVars, Udp!atomicVars,
           Udp!rawVars, Udp!sbusVars
  <1>2. UdpBatchTypes /\ UdpQueueTypes /\ UdpRestTypes
    BY UdpKnows
  <1>3. UdpBatchTypes' /\ UdpQueueTypes' /\ UdpRestTypes'
    <2>1. UdpBatchTypes' /\ UdpQueueTypes'
      BY <1>1, <1>2 DEF UdpBatchTypes, UdpQueueTypes
    <2>2. UdpRestTypes'
      BY <1>1, <1>2 DEF UdpRestTypes
    <2> QED BY <2>1, <2>2
  <1>4. Udp!UdpTypeOK'
    BY <1>3, UdpTypes
  <1>5. UdpNext' = UdpNext /\ UdpUnsent' = UdpUnsent /\ Udp!State' = Udp!State
    BY <1>1 DEF UdpNext, UdpUnsent, Udp!State
  <1>6. UdpQueue' /\ UdpHand' /\ UdpSbus'
    BY <1>1, <1>5 DEF UdpInv, UdpQueue, UdpHand, UdpHeld, UdpSbus
  <1>7. UdpRoom'
    BY <1>1 DEF UdpInv, UdpRoom, Udp!ItemSize, Udp!ItemQueued
  <1> QED BY <1>1, <1>4, <1>5, <1>6, <1>7 DEF UdpInv, Udp!FreshFrames

LEMMA UdpInit ==
    ASSUME Udp!Init
    PROVE  UdpInv
  <1>1. /\ packetQueue = <<>> /\ currentQueueBytes = 0 /\ totalSent = 0 /\ totalDropped = 0
        /\ maxQueueDepth = 0 /\ accepted = 0 /\ streamEnd = 0 /\ live = {}
        /\ role \in {"queue", "sbus"} /\ batching \in BOOLEAN /\ ready \in BOOLEAN
        /\ period \in Periods /\ rate \in Rates /\ (role = "sbus" => batching)
        /\ wholes = {} /\ offered = 0 /\ senderPc = "idle" /\ item = 0 /\ itemWhole = FALSE
        /\ clearing = FALSE /\ bulk = FALSE /\ lastBulkMode = FALSE
        /\ atomicBatch = <<>> /\ atomicBatchSize = 0 /\ atomicBatchPackets = 0
        /\ atomicAge = Unset /\ rawBatch = <<>> /\ rawBatchSize = 0 /\ rawAge = 0
        /\ sinceSend = Udp!Interval /\ spanSent = 0 /\ wire = <<>>
    BY DEF Udp!Init, Udp!QueueInit
  <1>2. /\ SBUS_STALE > 0 /\ MTU_SIZE \in Nat /\ SizeMod \in Nat /\ SizeMod > 0
        /\ Rates \subseteq 1..1000
    BY UdpConstants, SmallSizes
  <1>3. UdpBatchTypes
    <2>1. 0 \in 0..MTU_SIZE
      BY <1>2
    <2> QED BY <1>1, <2>1 DEF UdpBatchTypes
  <1>4. UdpQueueTypes
    <2>1. 0 \in 0..(SizeMod - 1)
      BY <1>2
    <2> QED BY <1>1, <2>1 DEF UdpQueueTypes
  <1>5. UdpRestTypes
    <2>1. Udp!Interval \in Nat
      <3>1. rate \in 1..1000
        BY <1>1, <1>2
      <3> QED BY <3>1 DEF Udp!Interval
    <2> QED BY <1>1, <2>1 DEF UdpRestTypes
  <1>6. Udp!UdpTypeOK
    <2>1. /\ packetQueue \in Seq(Udp!Packet) /\ currentQueueBytes \in 0..(SizeMod - 1)
          /\ live \subseteq Nat /\ wholes \subseteq Nat
      BY <1>4, UdpConstants DEF UdpQueueTypes
    <2>2. {totalSent, totalDropped, maxQueueDepth, accepted, streamEnd, item, offered}
             \subseteq Nat
      BY <1>3, <1>4, <1>5 DEF UdpBatchTypes, UdpQueueTypes, UdpRestTypes
    <2>3. {batching, ready, itemWhole, clearing, bulk, lastBulkMode} \subseteq BOOLEAN
      BY <1>5 DEF UdpRestTypes
    <2> QED BY <1>1, <1>3, <1>5, <2>1, <2>2, <2>3 DEF Udp!UdpTypeOK, UdpBatchTypes, UdpRestTypes
  <1>7. UdpQueue /\ UdpHand /\ UdpSbus /\ UdpRoom
    BY <1>1 DEF UdpQueue, Loose, Kept, Numbered, UdpHand, UdpHeld, UdpSbus, UdpRoom
  <1>8. UdpGood(Udp!State, wholes, UdpUnsent)
    <2>1. Udp!State.wire = <<>> /\ Udp!State.batch = <<>> /\ Udp!State.raw = <<>>
      BY <1>1 DEF Udp!State
    <2> QED BY <2>1 DEF UdpGood, Udp!InOrder, Below
  <1> QED BY <1>1, <1>2, <1>6, <1>7, <1>8 DEF UdpInv, Udp!FreshFrames

LEMMA UdpStep ==
    ASSUME UdpInv, [Udp!Next]_Udp!vars
    PROVE  UdpInv'
  <1>1. CASE Udp!Bridge
    BY <1>1, UdpEnqueueInv DEF Udp!Bridge
  <1>2. CASE Udp!Sender
    <2>1. ASSUME NEW gap \in Gaps, NEW bulkMode \in BOOLEAN, Udp!SenderCall(gap, bulkMode)
          PROVE  UdpInv'
      BY <2>1, UdpCallInv
    <2>2. CASE Udp!SenderFront \/ Udp!SenderFit \/ Udp!SenderAdd
      BY <2>2, UdpFrontInv, UdpFitInv, UdpAddInv
    <2>3. CASE Udp!SenderFree \/ Udp!SenderPop \/ Udp!SenderDone
      BY <2>3, UdpFreeInv, UdpPopInv, UdpDoneInv
    <2> QED BY <1>2, <2>1, <2>2, <2>3 DEF Udp!Sender
  <1>3. CASE Udp!Frame
    BY <1>3, UdpFrameInv
  <1>4. CASE Udp!WifiChanges
    BY <1>4, UdpWifiInv
  <1>5. CASE UNCHANGED Udp!vars
    BY <1>5, UdpStutterInv
  <1> QED BY <1>1, <1>2, <1>3, <1>4, <1>5 DEF Udp!Next

(* Neither batch outgrows its buffer of MTU_SIZE bytes, whatever packets the *)
(* bridge task evicts between the look at the room and the copy              *)
(* (udp_sender.h:131-159, 170-186), for every MTU, limit and packet size.    *)
THEOREM UdpTypeCorrect == Udp!Spec => []UdpTypeOK
  <1>1. Udp!Init => UdpInv
    BY UdpInit
  <1>2. UdpInv /\ [Udp!Next]_Udp!vars => UdpInv'
    BY UdpStep
  <1>3. UdpInv => UdpTypeOK
    BY DEF UdpInv, Udp!UdpTypeOK, UdpTypeOK, Udp!Packet, Packet, Udp!NULL, NULL
  <1> QED BY <1>1, <1>2, <1>3, PTL DEF Udp!Spec

(* The packets of a kind leave in the order they came and at most once, over  *)
(* batches, timeouts, changes of the mode, evictions and losses of WiFi       *)
(* (udp_sender.h:84-262).                                                     *)
THEOREM UdpKindInOrder == Udp!Spec => []KindInOrder
  <1>1. Udp!Init => UdpInv
    BY UdpInit
  <1>2. UdpInv /\ [Udp!Next]_Udp!vars => UdpInv'
    BY UdpStep
  <1>3. UdpInv => KindInOrder
    BY DEF UdpInv, UdpGood, Udp!State, Udp!InOrder, InOrder, KindInOrder
  <1> QED BY <1>1, <1>2, <1>3, PTL DEF Udp!Spec

(* No frame goes out with one that is SBUS_STALE older, for every period of   *)
(* the source, every rate and every limit (udp_sender.h:264-310).             *)
THEOREM UdpFreshFrames == Udp!Spec => []FreshFrames
  <1>1. Udp!Init => UdpInv
    BY UdpInit
  <1>2. UdpInv /\ [Udp!Next]_Udp!vars => UdpInv'
    BY UdpStep
  <1>3. UdpInv => FreshFrames
    BY DEF UdpInv, Udp!FreshFrames, FreshFrames
  <1> QED BY <1>1, <1>2, <1>3, PTL DEF Udp!Spec

-----------------------------------------------------------------------------
(* The USB sender: its types, the room of the host and the order            *)

Usb == INSTANCE UsbSender

(* The packets of the queue follow one another in the stream of what was     *)
(* accepted, but for the one that is freed and about to be popped.           *)
Flowing(q, end) ==
    \A i \in 1..Len(q) :
        /\ q[i].start + q[i].size <= end
        /\ \A j \in 1..Len(q) : i < j => q[i].start + q[i].size <= q[j].start
        /\ q[i].data # NULL => /\ q[i].size >= 1
                               /\ q[i].start + q[i].size =
                                     IF i = Len(q) THEN end ELSE q[i + 1].start

(* The number of the packet that the queue gives next. *)
UsbNext == accepted + 1 - Len(packetQueue)

UsbBatching == {"copy", "send"}
UsbCommitting == {"commit", "free", "pop"}

UsbQueue == /\ Loose(packetQueue, accepted) /\ Flowing(packetQueue, streamEnd)
            /\ senderPc \notin {"pop", "clear pop"} => Kept(packetQueue)

(* The queue never gets shorter but by the sender task's own hand, so the    *)
(* packets that a batch was planned with stay that many.                     *)
UsbHand ==
    /\ senderPc \in {"fit", "write", "clear pop"} => packetQueue # <<>>
    /\ senderPc \in {"flush"} \cup UsbBatching \cup UsbCommitting => packets <= Len(packetQueue)
    /\ senderPc \in {"flush", "copy", "send", "free", "pop"} => packets >= 1
    /\ senderPc = "copy" => Len(batch) < packets
    /\ senderPc = "send" => Len(batch) = packets
    /\ senderPc \notin UsbBatching \cup UsbCommitting => batch = <<>>

(* What was found to fit still does: the packet in hand is at the front, or   *)
(* evicted, and the host only takes bytes.                                    *)
UsbRoom ==
    /\ senderPc \in {"fit", "write"} => item <= UsbNext
    /\ senderPc = "write" /\ packetQueue[1].id = item => packetQueue[1].size <= HostSpace - used

(* Where the i-th packet ends, from the start of the first. *)
UsbEnd(q, i) == (q[i].start + q[i].size) - q[1].start

(* The batch is older than the queue by the evictions since it was begun:    *)
(* its i-th packet is the i-th of the queue or an earlier one, and reaches   *)
(* at least as far, unless there is a hole.                                  *)
UsbEntry(i) ==
    /\ batch[i].id < UsbNext + i
    /\ \A j \in 1..Len(batch) : i < j => batch[i].id < batch[j].id
    /\ torn \/ Below(wire, batch[i].id)
Reaches(q, n, upto) == \A k \in 1..Len(q) : q[k].id = n => UsbEnd(q, k) <= upto
UsbReach(i) == Reaches(packetQueue, batch[i].id, batch[i].upto)
UsbBatch ==
    senderPc \in UsbBatching =>
        /\ \A i \in 1..Len(batch) : UsbEntry(i)
        /\ Usb!Hole(batch) \/ \A i \in 1..Len(batch) : UsbReach(i)

Rising(s) == \A i, j \in 1..Len(s) : i < j => s[i] < s[j]
UsbUnsent == IF senderPc \in UsbCommitting THEN UsbNext + packets ELSE UsbNext
UsbWire == torn \/ (Rising(wire) /\ Below(wire, UsbUnsent))

UsbInv == Usb!UsbTypeOK /\ UsbQueue /\ UsbHand /\ UsbRoom /\ UsbBatch /\ UsbWire

UsbEntries == [id : Nat, upto : Nat]
UsbPcs == {"idle", "clear", "clear pop", "clear end", "front", "fit", "write",
           "plan", "flush", "copy", "send", "commit", "free", "pop"}
UsbQueueTypes ==
    /\ packetQueue \in Seq(Packet) /\ Len(packetQueue) <= MaxQueuePackets
    /\ currentQueueBytes \in 0..(SizeMod - 1)
    /\ totalDropped \in Nat /\ maxQueueDepth \in Nat /\ accepted \in Nat /\ streamEnd \in Nat
    /\ live \subseteq Nat /\ offered \in Nat
UsbCallTypes ==
    /\ totalSent \in Nat /\ item \in Nat /\ batch \in Seq(UsbEntries)
    /\ packets \in 0..BATCH_N_PACKETS /\ used \in 0..HostSpace
    /\ wire \in Seq(Nat) /\ torn \in BOOLEAN /\ senderPc \in UsbPcs
UsbTimeTypes ==
    /\ detects \in BOOLEAN /\ usbBlocked \in BOOLEAN /\ bulk \in BOOLEAN /\ lastBulkMode \in BOOLEAN
    /\ lastAvailable \in 0..HostSpace /\ unchanged \in 0..(USB_BLOCKED_TIMEOUT_MS + 1) \cup {Unset}
    /\ window \in 0..BATCH_T_MS_BULK \cup {Unset}
    /\ backoffDelay \in 0..MAX_BACKOFF /\ sinceAttempt \in 0..MAX_BACKOFF

LEMMA UsbConstants ==
           /\ MaxPacketSize \in Nat /\ MaxPacketSize <= HostSpace /\ HostSpace \in Nat
           /\ OfferedSizes \subseteq 1..MaxPacketSize /\ MaxOffers \in Nat
           /\ Gap \in Nat /\ BATCH_N_PACKETS \in Nat /\ BATCH_N_PACKETS >= 1
           /\ BATCH_X_BYTES \in Nat /\ BATCH_T_MS_BULK \in Nat
           /\ USB_BLOCKED_TIMEOUT_MS \in Nat /\ MAX_BACKOFF \in Nat /\ MAX_BACKOFF >= 1
           /\ Unset \notin Nat /\ MaxQueuePackets \in Nat
           /\ Usb!Packet = Packet /\ Usb!NULL = 0 /\ NULL = 0
  <1>1. /\ OfferedSizes \subseteq 1..MaxPacketSize /\ MaxPacketSize <= HostSpace
        /\ Unset \notin Nat /\ MaxPacketSize \in Nat /\ MaxQueuePackets \in Nat
    BY LimitsAssumption, OfferAssumption, UnsetAssumption, UsbAssumption
  <1>2. /\ MaxOffers \in Nat /\ Gap \in Nat \ {0} /\ HostSpace \in Nat \ {0}
        /\ BATCH_N_PACKETS \in Nat \ {0} /\ BATCH_X_BYTES \in Nat \ {0}
        /\ BATCH_T_MS_BULK \in Nat \ {0} /\ USB_BLOCKED_TIMEOUT_MS \in Nat \ {0}
        /\ MAX_BACKOFF \in Nat \ {0}
    BY OfferAssumption, UsbAssumption
  <1>3. Usb!Packet = Packet /\ Usb!NULL = 0 /\ NULL = 0
    BY DEF Usb!Packet, Packet, Usb!NULL, NULL
  <1>4. BATCH_N_PACKETS >= 1 /\ MAX_BACKOFF >= 1
    BY <1>2
  <1> QED BY <1>1, <1>2, <1>3, <1>4

LEMMA UsbTypes ==
           /\ Usb!UsbTypeOK => UsbQueueTypes /\ UsbCallTypes /\ UsbTimeTypes
           /\ UsbQueueTypes' /\ UsbCallTypes' /\ UsbTimeTypes' => Usb!UsbTypeOK'
  <1>1. Usb!Packet = Packet
    BY UsbConstants
  <1>2. Usb!UsbTypeOK => UsbQueueTypes
    BY <1>1 DEF Usb!UsbTypeOK, UsbQueueTypes
  <1>3. Usb!UsbTypeOK => UsbCallTypes
    BY DEF Usb!UsbTypeOK, UsbCallTypes, UsbEntries, UsbPcs
  <1>4. Usb!UsbTypeOK => UsbTimeTypes
    BY DEF Usb!UsbTypeOK, UsbTimeTypes
  <1>5. ASSUME UsbQueueTypes', UsbCallTypes', UsbTimeTypes' PROVE Usb!UsbTypeOK'
    <2>1. /\ packetQueue' \in Seq(Usb!Packet)' /\ Len(packetQueue') <= MaxQueuePackets
          /\ currentQueueBytes' \in 0..(SizeMod - 1) /\ live' \subseteq Nat
      BY <1>1, <1>5 DEF UsbQueueTypes
    <2>2. {totalSent, totalDropped, maxQueueDepth, accepted, streamEnd, item, offered}'
             \subseteq Nat
      BY <1>5 DEF UsbQueueTypes, UsbCallTypes
    <2>3. {detects, usbBlocked, bulk, lastBulkMode}' \subseteq BOOLEAN
      BY <1>5 DEF UsbTimeTypes
    <2>4. /\ lastAvailable' \in 0..HostSpace /\ used' \in 0..HostSpace
          /\ unchanged' \in 0..(USB_BLOCKED_TIMEOUT_MS + 1) \cup {Unset}
          /\ window' \in 0..BATCH_T_MS_BULK \cup {Unset}
          /\ {backoffDelay, sinceAttempt}' \subseteq 0..MAX_BACKOFF
      BY <1>5 DEF UsbTimeTypes, UsbCallTypes
    <2>5. /\ senderPc' \in UsbPcs /\ batch' \in Seq(UsbEntries)
          /\ packets' \in 0..BATCH_N_PACKETS /\ wire' \in Seq(Nat) /\ torn' \in BOOLEAN
      BY <1>5 DEF UsbCallTypes
    <2> QED BY <2>1, <2>2, <2>3, <2>4, <2>5 DEF Usb!UsbTypeOK, UsbEntries, UsbPcs
  <1> QED BY <1>2, <1>3, <1>4, <1>5

LEMMA UsbKnows ==
    ASSUME UsbInv
    PROVE  /\ UsbQueueTypes /\ UsbCallTypes /\ UsbTimeTypes
           /\ Len(packetQueue) \in Nat /\ accepted \in Nat /\ streamEnd \in Nat
           /\ packets \in Nat /\ Len(batch) \in Nat /\ Len(wire) \in Nat
           /\ UsbNext \in Int /\ UsbUnsent \in Int /\ UsbNext <= UsbUnsent
  <1>1. UsbQueueTypes /\ UsbCallTypes /\ UsbTimeTypes
    BY UsbTypes DEF UsbInv
  <1>2. /\ Len(packetQueue) \in Nat /\ accepted \in Nat /\ streamEnd \in Nat
        /\ packets \in Nat /\ Len(batch) \in Nat /\ Len(wire) \in Nat
    BY <1>1 DEF UsbQueueTypes, UsbCallTypes
  <1>3. UsbNext \in Int
    BY <1>2 DEF UsbNext
  <1>4. UsbUnsent \in Int /\ UsbNext <= UsbUnsent
    BY <1>2, <1>3 DEF UsbUnsent
  <1> QED BY <1>1, <1>2, <1>3, <1>4

-----------------------------------------------------------------------------
(* The stream through the queue                                             *)

LEMMA FlowFacts ==
    ASSUME NEW q \in Seq(Packet), NEW i \in 1..Len(q)
    PROVE  q[i] \in Packet /\ q[i].start \in Nat /\ q[i].size \in Nat /\ q[i].id \in Nat
  <1>1. q[i] \in Packet
    BY ElementOfSeq
  <1> QED BY <1>1 DEF Packet

LEMMA FlowPop ==
    ASSUME NEW q \in Seq(Packet), NEW end, Flowing(q, end), q # <<>>
    PROVE  Flowing(Tail(q), end)
  <1> DEFINE r == Tail(q)
  <1>1. /\ Len(r) = Len(q) - 1 /\ Len(q) \in Nat
        /\ \A i \in 1..Len(r) : i + 1 \in 1..Len(q) /\ r[i] = q[i + 1]
    BY Popped
  <1> HIDE DEF r
  <1>2. ASSUME NEW i \in 1..Len(r)
        PROVE  /\ r[i].start + r[i].size <= end
               /\ \A j \in 1..Len(r) : i < j => r[i].start + r[i].size <= r[j].start
               /\ r[i].data # NULL => /\ r[i].size >= 1
                                      /\ r[i].start + r[i].size =
                                            IF i = Len(r) THEN end ELSE r[i + 1].start
    <2>1. i + 1 \in 1..Len(q) /\ r[i] = q[i + 1]
      BY <1>1
    <2>2. ASSUME NEW j \in 1..Len(r), i < j PROVE r[i].start + r[i].size <= r[j].start
      <3>1. j + 1 \in 1..Len(q) /\ r[j] = q[j + 1] /\ i + 1 < j + 1
        BY <1>1, <2>2
      <3> QED BY <2>1, <3>1 DEF Flowing
    <2>3. ASSUME r[i].data # NULL
          PROVE  r[i].size >= 1 /\ r[i].start + r[i].size = IF i = Len(r) THEN end ELSE r[i + 1].start
      <3>1. r[i].size >= 1 /\ r[i].start + r[i].size = IF i + 1 = Len(q) THEN end ELSE q[(i + 1) + 1].start
        BY <2>1, <2>3 DEF Flowing
      <3>2. i = Len(r) <=> i + 1 = Len(q)
        BY <1>1
      <3>3. i # Len(r) => r[i + 1] = q[(i + 1) + 1]
        <4>1. i # Len(r) => i + 1 \in 1..Len(r)
          BY <1>1
        <4> QED BY <1>1, <4>1
      <3> QED BY <3>1, <3>2, <3>3
    <2>4. r[i].start + r[i].size <= end
      BY <2>1 DEF Flowing
    <2> QED BY <2>2, <2>3, <2>4
  <1> QED BY <1>2 DEF Flowing, r

LEMMA FreedFields ==
    ASSUME NEW q \in Seq(Packet), q # <<>>
    PROVE  /\ Freed(q) \in Seq(Packet) /\ Len(Freed(q)) = Len(q)
           /\ Freed(q)[1].start = q[1].start /\ Freed(q)[1].size = 0 /\ Freed(q)[1].data = 0
           /\ \A i \in 1..Len(q) : i # 1 => Freed(q)[i] = q[i]
  <1> DEFINE p == [q[1] EXCEPT !.data = 0, !.size = 0]
             r == Freed(q)
  <1>1. 1 \in 1..Len(q) /\ q[1] \in Packet
    <2>1. 1 \in 1..Len(q)
      OBVIOUS
    <2> QED BY <2>1, ElementOfSeq
  <1>2. r = [q EXCEPT ![1] = p]
    BY DEF Freed
  <1>3. p \in Packet /\ p.start = q[1].start /\ p.data = 0 /\ p.size = 0
    BY <1>1 DEF Packet
  <1> HIDE DEF p
  <1>5. /\ [q EXCEPT ![1] = p] \in Seq(Packet) /\ Len([q EXCEPT ![1] = p]) = Len(q)
        /\ \A i \in 1..Len(q) : [q EXCEPT ![1] = p][i] = IF i = 1 THEN p ELSE q[i]
    BY <1>1, <1>3, ExceptSeq
  <1> HIDE DEF r
  <1>6. /\ r \in Seq(Packet) /\ Len(r) = Len(q) /\ r[1] = p
        /\ \A i \in 1..Len(q) : i # 1 => r[i] = q[i]
    BY <1>1, <1>2, <1>5
  <1> QED BY <1>3, <1>6 DEF r

LEMMA FlowFree ==
    ASSUME NEW q \in Seq(Packet), NEW end \in Nat, Flowing(q, end), q # <<>>, NULL = 0
    PROVE  Flowing(Freed(q), end)
  <1> DEFINE r == Freed(q)
  <1>1. /\ Len(r) = Len(q) /\ Len(q) \in Nat /\ 1 \in 1..Len(q)
        /\ r[1].start = q[1].start /\ r[1].size = 0 /\ r[1].data = 0
        /\ \A i \in 1..Len(q) : i # 1 => r[i] = q[i]
    BY FreedFields
  <1> HIDE DEF r
  <1>s. \A i \in 1..Len(r) : r[i].start = q[i].start
    BY <1>1
  <1>2. ASSUME NEW i \in 1..Len(r)
        PROVE  /\ r[i].start + r[i].size <= end
               /\ \A j \in 1..Len(r) : i < j => r[i].start + r[i].size <= r[j].start
               /\ r[i].data # NULL => /\ r[i].size >= 1
                                      /\ r[i].start + r[i].size =
                                            IF i = Len(r) THEN end ELSE r[i + 1].start
    <2>1. CASE i = 1
      <3>1. q[1].start \in Nat /\ q[1].size \in Nat /\ q[1].start + q[1].size <= end
        BY <1>1, FlowFacts DEF Flowing
      <3>2. r[i].start + r[i].size = q[1].start
        BY <1>1, <2>1, <3>1
      <3>3. ASSUME NEW j \in 1..Len(r), i < j PROVE q[1].start <= r[j].start
        <4>1. q[1].start + q[1].size <= q[j].start /\ q[j].start \in Nat
          BY <1>1, <2>1, <3>3, FlowFacts DEF Flowing
        <4> QED BY <1>s, <3>1, <4>1
      <3> QED BY <1>1, <2>1, <3>1, <3>2, <3>3
    <2>2. CASE i # 1
      <3>1. r[i] = q[i] /\ i \in 1..Len(q)
        BY <1>1, <2>2
      <3>2. i # Len(r) => r[i + 1].start = q[i + 1].start
        <4>1. i # Len(r) => i + 1 \in 1..Len(r)
          BY <1>1
        <4> QED BY <1>s, <4>1
      <3> QED BY <1>1, <1>s, <3>1, <3>2 DEF Flowing
    <2> QED BY <2>1, <2>2
  <1> QED BY <1>2 DEF Flowing, r

LEMMA FlowShift ==
    ASSUME NEW q \in Seq(Packet), NEW end \in Nat, Flowing(q, end), NEW c \in Packet,
           NEW d \in {0, 1}, d <= Len(q), c.start = end, c.size >= 1
    PROVE  /\ Flowing(Shift(q, d, c), end + c.size)
           /\ q # <<>> => q[1].start <= Shift(q, d, c)[1].start
  <1> DEFINE r == Shift(q, d, c)
             last == end + c.size
  <1>1. /\ r \in Seq(Packet) /\ Len(r) = Len(q) + 1 - d
        /\ \A i \in 1..Len(r) : IF i = Len(r) THEN r[i] = c
                                ELSE i + d \in 1..Len(q) /\ r[i] = q[i + d]
    BY Shifted DEF Shift
  <1>2. Len(q) \in Nat /\ c.size \in Nat /\ last \in Nat /\ end <= last /\ c.start + c.size = last
    BY DEF Packet
  <1> HIDE DEF r, last
  <1>3. ASSUME NEW i \in 1..Len(r)
        PROVE  \/ i = Len(r) /\ r[i] = c
               \/ i # Len(r) /\ i + d \in 1..Len(q) /\ r[i] = q[i + d]
    BY <1>1
  <1>4. ASSUME NEW i \in 1..Len(q)
        PROVE  /\ q[i].start \in Nat /\ q[i].size \in Nat /\ q[i].start + q[i].size <= end
               /\ q[i].start <= end
    <2>1. q[i].start \in Nat /\ q[i].size \in Nat /\ q[i].start + q[i].size <= end
      BY FlowFacts DEF Flowing
    <2> QED BY <2>1
  <1>5. ASSUME NEW i \in 1..Len(r)
        PROVE  /\ r[i].start + r[i].size <= last
               /\ \A j \in 1..Len(r) : i < j => r[i].start + r[i].size <= r[j].start
               /\ r[i].data # NULL => /\ r[i].size >= 1
                                      /\ r[i].start + r[i].size =
                                            IF i = Len(r) THEN last ELSE r[i + 1].start
    <2>1. CASE i = Len(r) /\ r[i] = c
      <3>1. \A j \in 1..Len(r) : ~(i < j)
        BY <1>1, <1>2, <2>1
      <3> QED BY <1>2, <2>1, <3>1
    <2>2. CASE i # Len(r) /\ i + d \in 1..Len(q) /\ r[i] = q[i + d]
      <3>1. r[i].start + r[i].size <= last
        <4>1. /\ r[i].start \in Nat /\ r[i].size \in Nat
              /\ r[i].start + r[i].size <= end
          BY <1>4, <2>2
        <4>2. end \in Nat /\ last \in Nat /\ end <= last
          BY <1>2
        <4> QED BY ONLY <4>1, <4>2
      <3>2. ASSUME NEW j \in 1..Len(r), i < j PROVE r[i].start + r[i].size <= r[j].start
        <4>1. CASE r[j] = c
          BY <1>2, <1>4, <2>2, <4>1
        <4>2. CASE j + d \in 1..Len(q) /\ r[j] = q[j + d]
          <5>1. i + d < j + d
            BY <3>2
          <5> QED BY <2>2, <4>2, <5>1 DEF Flowing
        <4> QED BY <1>3, <4>1, <4>2
      <3>3. ASSUME r[i].data # NULL
            PROVE  r[i].size >= 1 /\ r[i].start + r[i].size = r[i + 1].start
        <4>1. r[i].size >= 1 /\ r[i].start + r[i].size = IF i + d = Len(q) THEN end ELSE q[(i + d) + 1].start
          BY <2>2, <3>3 DEF Flowing
        <4>2. i + 1 \in 1..Len(r)
          BY <1>1, <1>2, <2>2
        <4>3. CASE i + d = Len(q)
          <5>1. i + 1 = Len(r)
            BY <1>1, <1>2, <4>3
          <5> QED BY <1>3, <4>1, <4>2, <4>3, <5>1
        <4>4. CASE i + d # Len(q)
          <5>1. i + 1 # Len(r) /\ (i + 1) + d = (i + d) + 1
            BY <1>1, <1>2, <4>4
          <5>2. r[i + 1] = q[(i + 1) + d]
            BY <1>3, <4>2, <5>1
          <5> QED BY <4>1, <4>4, <5>1, <5>2
        <4> QED BY <4>3, <4>4
      <3> QED BY <2>2, <3>1, <3>2, <3>3
    <2> QED BY <1>3, <2>1, <2>2
  <1>6. Flowing(r, last)
    BY <1>5 DEF Flowing
  <1>7. ASSUME q # <<>> PROVE q[1].start <= r[1].start
    <2>1. 1 \in 1..Len(q) /\ 1 \in 1..Len(r)
      BY <1>1, <1>2, <1>7
    <2>2. CASE r[1] = c
      BY <1>4, <2>1, <2>2
    <2>3. CASE 1 + d \in 1..Len(q) /\ r[1] = q[1 + d]
      <3>1. CASE d = 0
        BY <1>4, <2>1, <2>3, <3>1
      <3>2. CASE d = 1
        <4>1. q[1].start + q[1].size <= q[1 + d].start
          BY <2>1, <2>3, <3>2 DEF Flowing
        <4>2. q[1].start \in Nat /\ q[1].size \in Nat /\ q[1 + d].start \in Nat
          BY <1>4, <2>1, <2>3
        <4> QED BY <2>3, <4>1, <4>2
      <3> QED BY <3>1, <3>2
    <2> QED BY <1>3, <2>1, <2>2, <2>3
  <1> QED BY <1>6, <1>7 DEF r, last

-----------------------------------------------------------------------------
(* The steps that leave the queue, the wire and a begun batch alone         *)

LEMMA PlusZero == \A n \in Int : n + 0 = n
  OBVIOUS

LEMMA NatPlus == \A a, b \in Nat : a + b \in Nat
  OBVIOUS

LEMMA NoneIn == \A s : s = <<>> => 1..Len(s) = {}
  OBVIOUS

LEMMA FartherStart ==
    ASSUME NEW a \in Nat, NEW b \in Nat, NEW c \in Nat, NEW n \in Nat, b <= c, a - b <= n
    PROVE  a - c <= n
  OBVIOUS

LEMMA EntryAccepted ==
    ASSUME NEW n \in Nat, NEW next \in Int, NEW len \in Nat, NEW acc \in Nat, NEW i \in Nat,
           NEW p \in Nat, NEW l \in Nat, i <= l, l <= p, p <= len,
           next = acc + 1 - len, n < next + i
    PROVE  n <= acc
  OBVIOUS

LEMMA UsbQuiet ==
    ASSUME UsbInv, UsbHand',
           UNCHANGED <<packetQueue, accepted, streamEnd, wire, torn>>,
           senderPc \in {"pop", "clear pop"} => senderPc' = senderPc,
           senderPc' \in UsbBatching => batch' = <<>> \/ (senderPc \in UsbBatching /\ batch' = batch),
           senderPc' \in UsbCommitting => senderPc \in UsbCommitting /\ packets' = packets,
           senderPc \in UsbCommitting => senderPc' \in UsbCommitting \/ packets = 0
    PROVE  UsbQueue' /\ UsbBatch' /\ UsbWire'
  <1>1. UsbQueue'
    BY DEF UsbInv, UsbQueue
  <1>2. UsbNext' = UsbNext /\ UsbNext \in Int
    BY UsbKnows DEF UsbNext
  <1>3. UsbUnsent' = UsbUnsent
    <2>1. CASE senderPc' \in UsbCommitting
      BY <1>2, <2>1 DEF UsbUnsent
    <2>2. CASE senderPc' \notin UsbCommitting
      <3>1. senderPc \in UsbCommitting => packets = 0
        BY <2>2
      <3>2. UsbNext + 0 = UsbNext
        BY <1>2, PlusZero
      <3> QED BY <1>2, <2>2, <3>1, <3>2 DEF UsbUnsent
    <2> QED BY <2>1, <2>2
  <1>4. UsbWire'
    BY <1>3 DEF UsbInv, UsbWire
  <1>5. UsbBatch'
    <2> SUFFICES ASSUME senderPc' \in UsbBatching PROVE UsbBatch'
      BY DEF UsbBatch
    <2>1. CASE batch' = <<>>
      <3>1. 1..Len(batch') = {}
        BY <2>1, NoneIn
      <3> QED BY <3>1 DEF UsbBatch
    <2>2. CASE senderPc \in UsbBatching /\ batch' = batch
      BY <1>2, <2>2 DEF UsbInv, UsbBatch, UsbEntry, UsbReach, Usb!Hole
    <2> QED BY <2>1, <2>2
  <1> QED BY <1>1, <1>4, <1>5

-----------------------------------------------------------------------------
(* enqueue()                                                                *)

LEMMA UsbEnqueueCases ==
    ASSUME UsbInv, NEW size \in OfferedSizes, Usb!Enqueue(size)
    PROVE  \/ UNCHANGED <<packetQueue, accepted, streamEnd>>
           \/ /\ accepted' = accepted + 1 /\ streamEnd' = streamEnd + size
              /\ \E d \in {0, 1} : /\ d <= Len(packetQueue)
                                   /\ Len(packetQueue) + 1 - d <= MaxQueuePackets
                                   /\ packetQueue' = Shift(packetQueue, d, Copy(size))
  <1>1. /\ Len(packetQueue) \in Nat /\ accepted \in Nat /\ Usb!Copy(size) = Copy(size)
        /\ packetQueue \in Seq(Packet) /\ Len(packetQueue) <= MaxQueuePackets
        /\ MaxQueuePackets \in Nat
    BY UsbKnows, UsbConstants DEF Usb!Copy, Copy, UsbQueueTypes
  <1>2. CASE /\ packetQueue' = Append(packetQueue, Copy(size)) /\ accepted' = accepted + 1
             /\ streamEnd' = streamEnd + size /\ Usb!WillAccept(size)
    <2>1. 0 <= Len(packetQueue) /\ packetQueue' = Shift(packetQueue, 0, Copy(size))
          /\ Len(packetQueue) + 1 - 0 <= MaxQueuePackets
      BY <1>1, <1>2 DEF Shift, Usb!WillAccept
    <2> QED BY <1>2, <2>1
  <1>3. CASE /\ packetQueue' = Append(Tail(packetQueue), Copy(size)) /\ accepted' = accepted + 1
             /\ streamEnd' = streamEnd + size /\ packetQueue # <<>>
    <2>1. 1 <= Len(packetQueue) /\ packetQueue' = Shift(packetQueue, 1, Copy(size))
          /\ Len(packetQueue) + 1 - 1 <= MaxQueuePackets
      BY <1>1, <1>3 DEF Shift
    <2> QED BY <1>3, <2>1
  <1>4. CASE UNCHANGED <<packetQueue, accepted, streamEnd>>
    BY <1>4
  <1> QED BY <1>1, <1>2, <1>3, <1>4 DEF Usb!Enqueue, Usb!Push

LEMMA UsbEnqueueTypes ==
    ASSUME UsbInv, NEW size \in OfferedSizes, Usb!Enqueue(size)
    PROVE  /\ currentQueueBytes' \in 0..(SizeMod - 1)
           /\ totalDropped' \in Nat /\ maxQueueDepth' \in Nat
           /\ offered' \in Nat /\ live' \subseteq Nat
           /\ Copy(size) \in Packet /\ Copy(size).id = accepted + 1
           /\ Copy(size).data = accepted + 1 /\ Copy(size).size = size
           /\ Copy(size).start = streamEnd /\ size \in Nat /\ size >= 1 /\ size <= MaxPacketSize
  <1>1. /\ UsbQueueTypes /\ Len(packetQueue) \in Nat /\ currentQueueBytes \in 0..(SizeMod - 1)
        /\ accepted \in Nat /\ streamEnd \in Nat /\ live \subseteq Nat /\ offered \in Nat
        /\ totalDropped \in Nat /\ maxQueueDepth \in Nat
    BY UsbKnows DEF UsbQueueTypes
  <1>2. /\ size \in Nat /\ size >= 1 /\ size <= MaxPacketSize /\ size < SizeMod
        /\ MaxPacketSize < SizeMod /\ SizeMod \in Nat /\ MaxPacketSize \in Nat /\ NULL = 0
    BY SmallSizes
  <1>3. /\ \A a, b : Usb!SizeAdd(a, b) = SizeAdd(a, b) /\ Usb!SizeSub(a, b) = SizeSub(a, b)
        /\ Usb!NULL = NULL
    BY DEF Usb!SizeAdd, SizeAdd, Usb!SizeSub, SizeSub, Usb!NULL, NULL
  <1>4. packetQueue # <<>> => Usb!BytesWithoutFront \in 0..(SizeMod - 1)
    <2> SUFFICES ASSUME packetQueue # <<>> PROVE Usb!BytesWithoutFront \in 0..(SizeMod - 1)
      OBVIOUS
    <2>1. Head(packetQueue) = packetQueue[1] /\ packetQueue[1].size \in 0..MaxPacketSize
      BY <1>1, LooseFront DEF UsbInv, UsbQueue
    <2>2. packetQueue[1].size \in Nat /\ packetQueue[1].size < SizeMod
      BY <1>2, <2>1
    <2>3. SizeSub(currentQueueBytes, packetQueue[1].size) \in 0..(SizeMod - 1)
      BY <1>1, <2>2, SizeSubType
    <2> QED BY <1>1, <1>3, <2>1, <2>3 DEF Usb!BytesWithoutFront
  <1>5. currentQueueBytes' \in 0..(SizeMod - 1)
    <2>1. \A a \in 0..(SizeMod - 1) : SizeAdd(a, size) \in 0..(SizeMod - 1)
      BY <1>2, SizeAddType
    <2>2. \/ currentQueueBytes' = currentQueueBytes
          \/ currentQueueBytes' = SizeAdd(currentQueueBytes, size)
          \/ packetQueue # <<>> /\ currentQueueBytes' = SizeAdd(Usb!BytesWithoutFront, size)
      BY <1>3 DEF Usb!Enqueue, Usb!Push
    <2> QED BY <1>1, <1>4, <2>1, <2>2
  <1>6. /\ totalDropped' \in {totalDropped, totalDropped + 1} /\ offered' = offered + 1
        /\ live' \subseteq live \cup {accepted + 1}
    BY DEF Usb!Enqueue, Usb!Push, Usb!Evicted
  <1>7. maxQueueDepth' \in Nat
    <2>1. packetQueue # <<>> => Len(Tail(packetQueue)) \in Nat
      <3>1. packetQueue \in Seq(Packet)
        BY <1>1 DEF UsbQueueTypes
      <3> QED BY <3>1
    <2>2. \/ maxQueueDepth' = maxQueueDepth \/ maxQueueDepth' = Len(packetQueue) + 1
          \/ packetQueue # <<>> /\ maxQueueDepth' = Len(Tail(packetQueue)) + 1
      BY DEF Usb!Enqueue, Usb!Push
    <2> QED BY <1>1, <2>1, <2>2
  <1>8. totalDropped' \in Nat /\ offered' \in Nat /\ live' \subseteq Nat
    BY <1>1, <1>6
  <1>9. /\ Copy(size) \in Packet /\ Copy(size).id = accepted + 1
        /\ Copy(size).data = accepted + 1 /\ Copy(size).size = size /\ Copy(size).start = streamEnd
    BY <1>1, <1>2 DEF Copy, Packet
  <1> QED BY <1>2, <1>5, <1>7, <1>8, <1>9

(* What the pushed packet does to the entries of a begun batch: nothing. *)
LEMMA UsbReachShift ==
    ASSUME NEW q \in Seq(Packet), NEW c \in Packet, NEW d \in {0, 1}, NEW n \in Nat,
           NEW upto \in Nat, d <= Len(q), c.id # n, q # <<>>, Reaches(q, n, upto),
           q[1].start <= Shift(q, d, c)[1].start, Shift(q, d, c)[1].start \in Nat
    PROVE  Reaches(Shift(q, d, c), n, upto)
  <1> DEFINE r == Shift(q, d, c)
  <1>1. /\ Len(r) = Len(q) + 1 - d
        /\ \A i \in 1..Len(r) : IF i = Len(r) THEN r[i] = c
                                ELSE i + d \in 1..Len(q) /\ r[i] = q[i + d]
    BY Shifted DEF Shift
  <1>0. q[1].start <= r[1].start /\ r[1].start \in Nat
    OBVIOUS
  <1> HIDE DEF r
  <1> SUFFICES ASSUME NEW k \in 1..Len(r), r[k].id = n PROVE UsbEnd(r, k) <= upto
    BY DEF Reaches, r
  <1>2. k # Len(r)
    BY <1>1
  <1> DEFINE m == k + d
             last == q[m].start + q[m].size
  <1>3. m \in 1..Len(q) /\ r[k] = q[m]
    BY <1>1, <1>2
  <1> HIDE DEF m
  <1>4. UsbEnd(q, m) <= upto
    BY <1>3 DEF Reaches
  <1>5. /\ q[m].start \in Nat /\ q[m].size \in Nat /\ q[1].start \in Nat
    <2>1. 1 \in 1..Len(q)
      OBVIOUS
    <2> QED BY <1>3, <2>1, FlowFacts
  <1>6. UsbEnd(r, k) = last - r[1].start /\ UsbEnd(q, m) = last - q[1].start
    BY <1>3 DEF UsbEnd
  <1>7. last \in Nat
    BY <1>5, NatPlus
  <1> HIDE DEF last
  <1>8. last - r[1].start <= upto
    BY <1>0, <1>4, <1>5, <1>6, <1>7, FartherStart
  <1> QED BY <1>6, <1>8

LEMMA UsbEnqueueInv ==
    ASSUME UsbInv, NEW size \in OfferedSizes, Usb!Enqueue(size)
    PROVE  UsbInv'
  <1>1. /\ UNCHANGED <<totalSent, detects, usbBlocked, lastAvailable, unchanged, backoffDelay,
                       sinceAttempt, window, lastBulkMode, senderPc, bulk, item, batch, packets,
                       used, wire, torn>>
    BY DEF Usb!Enqueue, Usb!detection, Usb!backoff, Usb!modes, Usb!call, Usb!output
  <1>2. /\ UsbQueueTypes /\ UsbCallTypes /\ UsbTimeTypes
        /\ Len(packetQueue) \in Nat /\ accepted \in Nat /\ streamEnd \in Nat
        /\ packets \in Nat /\ Len(batch) \in Nat /\ Len(wire) \in Nat
        /\ UsbNext \in Int /\ UsbUnsent \in Int /\ UsbNext <= UsbUnsent
    BY UsbKnows
  <1>3. UsbCallTypes' /\ UsbTimeTypes'
    BY <1>1, <1>2 DEF UsbCallTypes, UsbTimeTypes
  <1>4. CASE UNCHANGED <<packetQueue, accepted, streamEnd>>
    <2>1. UsbQueueTypes'
      <3>1. /\ currentQueueBytes' \in 0..(SizeMod - 1)
            /\ totalDropped' \in Nat /\ maxQueueDepth' \in Nat
            /\ offered' \in Nat /\ live' \subseteq Nat
        BY UsbEnqueueTypes
      <3> QED BY <1>2, <1>4, <3>1 DEF UsbQueueTypes
    <2>2. UsbHand'
      BY <1>1, <1>4 DEF UsbInv, UsbHand
    <2>r. UsbRoom'
      BY <1>1, <1>4 DEF UsbInv, UsbRoom, UsbNext
    <2>3. UsbQueue' /\ UsbBatch' /\ UsbWire'
      BY <1>1, <1>4, <2>2, UsbQuiet
    <2> QED BY <1>3, <2>1, <2>2, <2>3, <2>r, UsbTypes DEF UsbInv
  <1>5. ASSUME accepted' = accepted + 1, streamEnd' = streamEnd + size, NEW d \in {0, 1},
               d <= Len(packetQueue), Len(packetQueue) + 1 - d <= MaxQueuePackets,
               packetQueue' = Shift(packetQueue, d, Copy(size))
        PROVE  UsbInv'
    <2>0. /\ Loose(packetQueue, accepted) /\ Flowing(packetQueue, streamEnd)
          /\ packetQueue \in Seq(Packet)
      BY <1>2 DEF UsbInv, UsbQueue, UsbQueueTypes
    <2>1. /\ Copy(size) \in Packet /\ Copy(size).id = accepted + 1
          /\ Copy(size).data = accepted + 1 /\ Copy(size).size = size
          /\ Copy(size).start = streamEnd /\ size \in Nat /\ size >= 1 /\ size <= MaxPacketSize
      BY UsbEnqueueTypes
    <2>s. Copy(size).size <= MaxPacketSize
      BY <2>1
    <2>2. /\ Loose(packetQueue', accepted') /\ Len(packetQueue') = Len(packetQueue) + 1 - d
          /\ packetQueue' # <<>> /\ (Kept(packetQueue) => Kept(packetQueue'))
      BY <1>2, <1>5, <2>0, <2>1, <2>s, LooseShift
    <2>f. /\ packetQueue # <<>> /\ d = 0 => packetQueue'[1] = packetQueue[1]
          /\ d = 1 => packetQueue'[1].id = packetQueue[1].id + 1
      <3> DEFINE c == Copy(size)
                 r == Shift(packetQueue, d, c)
      <3>1. c \in Packet /\ c.id = accepted + 1 /\ c.data = accepted + 1 /\ c.size <= MaxPacketSize
        BY <2>1, <2>s
      <3>2. packetQueue' = r
        BY <1>5
      <3> HIDE DEF c
      <3>4. \A q : \A acc \in Nat, e \in {0, 1}, p \in Packet :
               /\ Loose(q, acc) /\ e <= Len(q) /\ p.id = acc + 1 /\ p.data = acc + 1
               /\ p.size <= MaxPacketSize
               => /\ q # <<>> /\ e = 0 => Shift(q, e, p)[1] = q[1]
                  /\ e = 1 => Shift(q, e, p)[1].id = q[1].id + 1
        BY LooseShift
      <3>5. accepted \in Nat /\ d \in {0, 1} /\ d <= Len(packetQueue) /\ Loose(packetQueue, accepted)
        BY <1>2, <1>5, <2>0
      <3>3. /\ packetQueue # <<>> /\ d = 0 => r[1] = packetQueue[1]
            /\ d = 1 => r[1].id = packetQueue[1].id + 1
        BY <3>1, <3>4, <3>5
      <3> HIDE DEF r
      <3> QED BY <3>2, <3>3
    <2>3. /\ Flowing(packetQueue', streamEnd')
          /\ packetQueue # <<>> => packetQueue[1].start <= packetQueue'[1].start
      BY <1>2, <1>5, <2>0, <2>1, FlowShift
    <2>4. UsbNext' = UsbNext + d /\ UsbNext' \in Int /\ UsbNext <= UsbNext'
      BY <1>2, <1>5, <2>2 DEF UsbNext
    <2>5. Len(packetQueue) <= Len(packetQueue') /\ Len(packetQueue') \in Nat
      BY <1>2, <2>2
    <2>6. UsbQueueTypes'
      <3>1. packetQueue' \in Seq(Packet) /\ Len(packetQueue') <= MaxQueuePackets
        BY <1>5, <2>2 DEF Loose
      <3>2. accepted' \in Nat /\ streamEnd' \in Nat
        BY <1>2, <1>5, <2>1
      <3>3. /\ currentQueueBytes' \in 0..(SizeMod - 1)
            /\ totalDropped' \in Nat /\ maxQueueDepth' \in Nat
            /\ offered' \in Nat /\ live' \subseteq Nat
        BY UsbEnqueueTypes
      <3> QED BY <3>1, <3>2, <3>3 DEF UsbQueueTypes
    <2>7. UsbQueue'
      BY <1>1, <2>2, <2>3 DEF UsbInv, UsbQueue
    <2>8. UsbHand'
      <3>1. ASSUME senderPc \in {"flush"} \cup UsbBatching \cup UsbCommitting
            PROVE  packets <= Len(packetQueue')
        <4>1. packets <= Len(packetQueue)
          BY <3>1 DEF UsbInv, UsbHand
        <4> QED BY <1>2, <2>5, <4>1
      <3> QED BY <1>1, <2>2, <3>1 DEF UsbInv, UsbHand
    <2>r. UsbRoom'
      <3>1. ASSUME senderPc \in {"fit", "write"}
            PROVE  /\ item <= UsbNext /\ item \in Nat /\ packetQueue # <<>>
                   /\ UsbNext = packetQueue[1].id
        <4>1. item <= UsbNext /\ packetQueue # <<>> /\ item \in Nat
          BY <1>2, <3>1 DEF UsbInv, UsbRoom, UsbHand, UsbCallTypes
        <4>2. packetQueue[1].id = accepted + 1 - Len(packetQueue)
          BY <1>2, <2>0, <4>1, LooseFront
        <4> QED BY <4>1, <4>2 DEF UsbNext
      <3>2. ASSUME senderPc \in {"fit", "write"} PROVE item <= UsbNext'
        BY <1>2, <2>4, <3>1, <3>2
      <3>3. ASSUME senderPc = "write", packetQueue'[1].id = item
            PROVE  packetQueue'[1] = packetQueue[1]
        <4>1. d = 0 => packetQueue'[1] = packetQueue[1]
          BY <2>f, <3>1, <3>3
        <4>2. d = 1 => packetQueue'[1].id = packetQueue[1].id + 1
          BY <2>f
        <4>3. d # 1
          BY <1>2, <3>1, <3>3, <4>2
        <4> QED BY <1>5, <4>1, <4>3
      <3> QED BY <1>1, <3>2, <3>3 DEF UsbInv, UsbRoom
    <2>9. UsbUnsent <= UsbUnsent' /\ UsbUnsent' \in Int
      BY <1>1, <1>2, <2>4 DEF UsbUnsent
    <2>10. UsbWire'
      <3>1. wire \in Seq(Nat)
        BY <1>2 DEF UsbCallTypes
      <3>2. Below(wire, UsbUnsent) => Below(wire, UsbUnsent')
        BY <1>2, <2>9, <3>1, RaiseBelow
      <3> QED BY <1>1, <3>2 DEF UsbInv, UsbWire
    <2>11. UsbBatch'
      <3> SUFFICES ASSUME senderPc \in UsbBatching PROVE UsbBatch'
        BY <1>1 DEF UsbBatch
      <3>1. /\ \A i \in 1..Len(batch) : UsbEntry(i)
            /\ Usb!Hole(batch) \/ \A i \in 1..Len(batch) : UsbReach(i)
        BY DEF UsbInv, UsbBatch
      <3>2. \A i \in 1..Len(batch) : batch[i] \in UsbEntries /\ batch[i].id \in Nat /\ batch[i].upto \in Nat
        <4>1. batch \in Seq(UsbEntries)
          BY <1>2 DEF UsbCallTypes
        <4>2. \A i \in 1..Len(batch) : batch[i] \in UsbEntries
          BY <4>1, ElementOfSeq
        <4> QED BY <4>2 DEF UsbEntries
      <3>3. ASSUME NEW i \in 1..Len(batch) PROVE UsbEntry(i)'
        <4>1. batch[i].id < UsbNext + i
          BY <3>1 DEF UsbEntry
        <4>2. batch[i].id < UsbNext' + i
          BY <1>2, <2>4, <3>2, <4>1
        <4> QED BY <1>1, <3>1, <4>2 DEF UsbEntry
      <3>4. ASSUME NEW i \in 1..Len(batch), UsbReach(i) PROVE UsbReach(i)'
        <4>a. /\ packets <= Len(packetQueue) /\ packets >= 1
              /\ Len(batch) < packets \/ Len(batch) = packets
          BY DEF UsbInv, UsbHand, UsbBatching
        <4>1. batch[i].id < UsbNext + i
          BY <3>1 DEF UsbEntry
        <4>b. UsbNext = accepted + 1 - Len(packetQueue)
          BY DEF UsbNext
        <4>c. batch[i].id \in Nat
          BY <3>2
        <4>e. Len(batch) <= packets /\ i \in Nat /\ i <= Len(batch)
          BY <1>2, <4>a
        <4>2. batch[i].id <= accepted
          BY <1>2, <4>a, <4>b, <4>c, <4>e, <4>1, EntryAccepted
        <4>f. Len(packetQueue) # 0
          BY <1>2, <4>a
        <4>d. packetQueue # <<>>
          BY <4>f
        <4>3. packetQueue'[1].start \in Nat
          <5>1. 1 \in 1..Len(packetQueue')
            BY <2>2, <2>5
          <5> QED BY <2>6, <5>1, FlowFacts DEF UsbQueueTypes
        <4>4. Reaches(packetQueue, batch[i].id, batch[i].upto)
          BY <3>4 DEF UsbReach
        <4>5. packetQueue[1].start <= packetQueue'[1].start
          BY <2>3, <4>d
        <4>6. batch[i].upto \in Nat /\ batch[i].id <= accepted
          BY <3>2, <4>2
        <4>8. batch[i].id \in Nat /\ batch[i].upto \in Nat /\ Copy(size).id = accepted + 1
              /\ Copy(size) \in Packet
          BY <2>1, <4>c, <4>6
        <4>9. Copy(size).id # batch[i].id
          BY <1>2, <4>6, <4>8
        <4>7. Reaches(packetQueue', batch[i].id, batch[i].upto)
          <5>1. \A q \in Seq(Packet), c \in Packet, e \in {0, 1}, n \in Nat, upto \in Nat :
                   /\ e <= Len(q) /\ c.id # n /\ q # <<>> /\ Reaches(q, n, upto)
                   /\ q[1].start <= Shift(q, e, c)[1].start /\ Shift(q, e, c)[1].start \in Nat
                   => Reaches(Shift(q, e, c), n, upto)
            BY UsbReachShift
          <5>2. /\ packetQueue' = Shift(packetQueue, d, Copy(size)) /\ d <= Len(packetQueue)
                /\ packetQueue \in Seq(Packet) /\ d \in {0, 1}
            BY <1>5, <2>0
          <5> QED BY <4>8, <4>d, <4>3, <4>4, <4>5, <4>9, <5>1, <5>2
        <4> QED BY <1>1, <4>7 DEF UsbReach
      <3>5. Usb!Hole(batch)' = Usb!Hole(batch)
        BY <1>1 DEF Usb!Hole
      <3> QED BY <1>1, <3>1, <3>3, <3>4, <3>5 DEF UsbBatch
    <2> QED BY <1>3, <2>6, <2>7, <2>8, <2>10, <2>11, <2>r, UsbTypes DEF UsbInv
  <1> QED BY <1>4, <1>5, UsbEnqueueCases

-----------------------------------------------------------------------------
(* The steps of the USB sender that end a call or change nothing of it      *)

UsbPlain == {"idle", "clear", "clear end", "front", "plan"}

LEMMA ZeroIn ==
    /\ \A n \in Nat : 0 \in 0..n
    /\ 0 \in 0..(SizeMod - 1)
    /\ 0 \in Nat /\ \A S : <<>> \in Seq(S)
  <1>1. SizeMod \in Nat /\ MaxPacketSize \in Nat /\ MaxPacketSize < SizeMod
    BY SmallSizes
  <1> QED BY <1>1

LEMMA UsbToPlain ==
    ASSUME UsbInv,
           UNCHANGED <<packetQueue, accepted, streamEnd, wire, torn>>,
           senderPc' \in UsbPlain, batch' = <<>>, senderPc \notin {"pop", "clear pop"},
           senderPc \in UsbCommitting => packets = 0
    PROVE  UsbHand' /\ UsbRoom' /\ UsbQueue' /\ UsbBatch' /\ UsbWire'
  <1>0. UsbRoom'
    BY DEF UsbRoom, UsbPlain
  <1>1. UsbHand'
    BY DEF UsbHand, UsbPlain, UsbBatching, UsbCommitting
  <1>2. senderPc' \notin UsbBatching /\ senderPc' \notin UsbCommitting
    BY DEF UsbPlain, UsbBatching, UsbCommitting
  <1>3. UsbQueue' /\ UsbBatch' /\ UsbWire'
    BY <1>1, <1>2, UsbQuiet
  <1> QED BY <1>0, <1>1, <1>3

LEMMA UsbStays ==
    ASSUME UsbInv,
           UNCHANGED <<packetQueue, accepted, streamEnd, wire, torn, senderPc, batch, packets>>
    PROVE  UsbHand' /\ UsbQueue' /\ UsbBatch' /\ UsbWire'
  <1>1. UsbHand'
    BY DEF UsbInv, UsbHand
  <1>2. UsbQueue' /\ UsbBatch' /\ UsbWire'
    BY <1>1, UsbQuiet
  <1> QED BY <1>1, <1>2

LEMMA UsbLater ==
    ASSUME NEW limit \in Nat, NEW age \in 0..limit \cup {Unset}
    PROVE  /\ Usb!Later(age, limit) \in 0..limit \cup {Unset}
           /\ age # Unset => Usb!Later(age, limit) \in 0..limit
  <1>1. Gap \in Nat
    BY UsbConstants
  <1>2. CASE age = Unset
    BY <1>2 DEF Usb!Later
  <1>3. CASE age # Unset
    <2>1. age \in 0..limit
      BY <1>3
    <2>2. age + Gap < limit => age + Gap \in 0..limit
      BY <1>1, <2>1
    <2>3. Usb!Later(age, limit) = IF age + Gap < limit THEN age + Gap ELSE limit
      BY <1>3 DEF Usb!Later
    <2>4. limit \in 0..limit
      OBVIOUS
    <2> QED BY <2>2, <2>3, <2>4
  <1> QED BY <1>2, <1>3

LEMMA UsbAvailable ==
    ASSUME UsbInv
    PROVE  Usb!Available \in 0..HostSpace /\ Usb!Available = HostSpace - used /\ used \in 0..HostSpace
  <1>1. used \in 0..HostSpace /\ HostSpace \in Nat
    BY UsbKnows, UsbConstants DEF UsbCallTypes
  <1> QED BY <1>1 DEF Usb!Available

LEMMA UsbTimes ==
    ASSUME UsbInv
    PROVE  /\ Usb!UnchangedNow \in 0..(USB_BLOCKED_TIMEOUT_MS + 1) \cup {Unset}
           /\ Usb!WindowNow \in 0..BATCH_T_MS_BULK \cup {Unset}
           /\ Usb!AttemptNow \in 0..MAX_BACKOFF
           /\ BATCH_T_MS_BULK \in 0..BATCH_T_MS_BULK /\ 0 \in 0..BATCH_T_MS_BULK
           /\ 0 \in 0..(USB_BLOCKED_TIMEOUT_MS + 1) /\ 0 \in 0..MAX_BACKOFF
  <1>1. /\ unchanged \in 0..(USB_BLOCKED_TIMEOUT_MS + 1) \cup {Unset}
        /\ window \in 0..BATCH_T_MS_BULK \cup {Unset} /\ sinceAttempt \in 0..MAX_BACKOFF
    BY UsbKnows DEF UsbTimeTypes
  <1>2. /\ USB_BLOCKED_TIMEOUT_MS \in Nat /\ BATCH_T_MS_BULK \in Nat /\ MAX_BACKOFF \in Nat
        /\ Unset \notin Nat
    BY UsbConstants
  <1>3. USB_BLOCKED_TIMEOUT_MS + 1 \in Nat /\ sinceAttempt # Unset
    BY <1>1, <1>2
  <1>4. Usb!UnchangedNow \in 0..(USB_BLOCKED_TIMEOUT_MS + 1) \cup {Unset}
    BY <1>1, <1>3, UsbLater DEF Usb!UnchangedNow
  <1>5. Usb!WindowNow \in 0..BATCH_T_MS_BULK \cup {Unset}
    BY <1>1, <1>2, UsbLater DEF Usb!WindowNow
  <1>6. Usb!Later(sinceAttempt, MAX_BACKOFF) \in 0..MAX_BACKOFF
    BY <1>1, <1>2, <1>3, UsbLater
  <1>7. /\ BATCH_T_MS_BULK \in 0..BATCH_T_MS_BULK /\ 0 \in 0..BATCH_T_MS_BULK
        /\ 0 \in 0..(USB_BLOCKED_TIMEOUT_MS + 1) /\ 0 \in 0..MAX_BACKOFF
    BY <1>2, <1>3
  <1>8. Usb!AttemptNow \in 0..MAX_BACKOFF
    BY <1>6, <1>7 DEF Usb!AttemptNow
  <1> QED BY <1>4, <1>5, <1>7, <1>8

LEMMA UsbBackoff ==
    ASSUME UsbInv
    PROVE  /\ Usb!ApplyBackoff => backoffDelay' \in 0..MAX_BACKOFF /\ sinceAttempt' \in 0..MAX_BACKOFF
           /\ Usb!ResetBackoff => backoffDelay' \in 0..MAX_BACKOFF /\ sinceAttempt' \in 0..MAX_BACKOFF
  <1>1. backoffDelay \in 0..MAX_BACKOFF /\ MAX_BACKOFF \in Nat /\ MAX_BACKOFF >= 1
    BY UsbKnows, UsbConstants DEF UsbTimeTypes
  <1>2. /\ 0 \in 0..MAX_BACKOFF /\ 1 \in 0..MAX_BACKOFF /\ MAX_BACKOFF \in 0..MAX_BACKOFF
        /\ 2 * backoffDelay < MAX_BACKOFF => 2 * backoffDelay \in 0..MAX_BACKOFF
    BY <1>1
  <1> QED BY <1>2 DEF Usb!ApplyBackoff, Usb!ResetBackoff

LEMMA UsbCallInv ==
    ASSUME UsbInv, Usb!SenderCall
    PROVE  UsbInv'
  <1>1. /\ UNCHANGED <<packetQueue, currentQueueBytes, totalSent, totalDropped, maxQueueDepth,
                       accepted, streamEnd, live, backoffDelay, bulk, item, batch, packets, used,
                       wire, torn, detects, offered>>
        /\ senderPc = "idle" /\ senderPc' \in UsbPlain
    BY DEF Usb!SenderCall, Usb!queueVars, Usb!call, Usb!output, Usb!Constant, UsbPlain
  <1>2. UsbQueueTypes /\ UsbCallTypes /\ UsbTimeTypes
    BY UsbKnows
  <1>3. batch' = <<>>
    BY <1>1 DEF UsbInv, UsbHand, UsbBatching, UsbCommitting
  <1>4. UsbHand' /\ UsbRoom' /\ UsbQueue' /\ UsbBatch' /\ UsbWire'
    <2>1. senderPc \notin {"pop", "clear pop"} /\ senderPc \notin UsbCommitting
      BY <1>1 DEF UsbCommitting
    <2> QED BY <1>1, <1>3, <2>1, UsbToPlain
  <1>5. UsbQueueTypes'
    BY <1>1, <1>2 DEF UsbQueueTypes
  <1>6. UsbCallTypes'
    <2>1. senderPc' \in UsbPcs
      BY <1>1 DEF UsbPlain, UsbPcs
    <2> QED BY <1>1, <1>2, <2>1 DEF UsbCallTypes
  <1>7. UsbTimeTypes'
    <2>1. /\ Usb!UnchangedNow \in 0..(USB_BLOCKED_TIMEOUT_MS + 1) \cup {Unset}
          /\ Usb!WindowNow \in 0..BATCH_T_MS_BULK \cup {Unset}
          /\ Usb!AttemptNow \in 0..MAX_BACKOFF
          /\ BATCH_T_MS_BULK \in 0..BATCH_T_MS_BULK
          /\ 0 \in 0..(USB_BLOCKED_TIMEOUT_MS + 1)
      BY UsbTimes
    <2>2. Usb!Available \in 0..HostSpace
      BY UsbAvailable
    <2>3. usbBlocked' \in BOOLEAN
      <3>1. usbBlocked \in BOOLEAN
        BY <1>2 DEF UsbTimeTypes
      <3> QED BY <3>1 DEF Usb!SenderCall, Usb!Detect
    <2>4. lastAvailable' \in 0..HostSpace
      <3>1. lastAvailable \in 0..HostSpace
        BY <1>2 DEF UsbTimeTypes
      <3> QED BY <2>2, <3>1 DEF Usb!SenderCall, Usb!Detect
    <2>5. unchanged' \in 0..(USB_BLOCKED_TIMEOUT_MS + 1) \cup {Unset}
      BY <2>1 DEF Usb!SenderCall, Usb!Detect
    <2>6. window' \in 0..BATCH_T_MS_BULK \cup {Unset} /\ sinceAttempt' \in 0..MAX_BACKOFF
      BY <2>1 DEF Usb!SenderCall
    <2>7. lastBulkMode' \in BOOLEAN
      <3>1. bulk \in BOOLEAN /\ lastBulkMode \in BOOLEAN
        BY <1>2 DEF UsbTimeTypes
      <3> QED BY <3>1 DEF Usb!SenderCall
    <2> QED BY <1>1, <1>2, <2>3, <2>4, <2>5, <2>6, <2>7 DEF UsbTimeTypes
  <1> QED BY <1>4, <1>5, <1>6, <1>7, UsbTypes DEF UsbInv

LEMMA RoomGrows ==
    ASSUME NEW t \in Nat, NEW u \in Nat, NEW v \in Nat, NEW n \in Nat, n <= t - u,
           t - u <= t - v
    PROVE  n <= t - v
  OBVIOUS

(* The mode, the host, and no step at all. *)
LEMMA UsbOtherInv ==
    ASSUME UsbInv, Usb!ModeChanges \/ Usb!HostTakes \/ UNCHANGED Usb!vars
    PROVE  UsbInv'
  <1>1. /\ UNCHANGED <<packetQueue, currentQueueBytes, totalSent, totalDropped, maxQueueDepth,
                       accepted, streamEnd, live, detects, usbBlocked, lastAvailable, unchanged,
                       backoffDelay, sinceAttempt, window, lastBulkMode, senderPc, item, batch,
                       packets, offered, wire, torn>>
    BY DEF Usb!ModeChanges, Usb!HostTakes, Usb!vars, Usb!queueVars, Usb!detection, Usb!backoff,
           Usb!modes, Usb!call, Usb!output
  <1>2. UsbQueueTypes /\ UsbCallTypes /\ UsbTimeTypes
    BY UsbKnows
  <1>3. UsbHand' /\ UsbQueue' /\ UsbBatch' /\ UsbWire'
    BY <1>1, UsbStays
  <1>4. UsbQueueTypes'
    BY <1>1, <1>2 DEF UsbQueueTypes
  <1>5. used' \in 0..HostSpace /\ HostSpace - used <= HostSpace - used'
    <2>1. used \in 0..HostSpace /\ HostSpace \in Nat
      BY UsbAvailable, UsbConstants
    <2>2. used' = used \/ used' \in 0..used - 1
      BY DEF Usb!ModeChanges, Usb!HostTakes, Usb!vars
    <2> QED BY <2>1, <2>2
  <1>r. UsbRoom'
    <2>1. UsbNext' = UsbNext
      BY <1>1 DEF UsbNext
    <2>2. ASSUME senderPc = "write", packetQueue[1].id = item
          PROVE  packetQueue[1].size <= HostSpace - used'
      <3>1. packetQueue[1].size <= HostSpace - used
        BY <2>2 DEF UsbInv, UsbRoom
      <3>2. packetQueue # <<>>
        BY <2>2 DEF UsbInv, UsbHand
      <3>3. packetQueue[1].size \in Nat
        <4>1. 1 \in 1..Len(packetQueue) /\ packetQueue \in Seq(Packet)
          BY <1>2, <3>2 DEF UsbQueueTypes
        <4> QED BY <4>1, FlowFacts
      <3>4. used \in Nat /\ used' \in Nat /\ HostSpace \in Nat
        BY <1>5, UsbAvailable, UsbConstants
      <3> QED BY <1>5, <3>1, <3>3, <3>4, RoomGrows
    <2> QED BY <1>1, <2>1, <2>2 DEF UsbInv, UsbRoom
  <1>6. bulk' \in BOOLEAN
    <2>1. bulk \in BOOLEAN
      BY <1>2 DEF UsbTimeTypes
    <2>2. bulk' = bulk \/ bulk' = ~bulk
      BY DEF Usb!ModeChanges, Usb!HostTakes, Usb!vars, Usb!call
    <2> QED BY <2>1, <2>2
  <1>7. UsbCallTypes'
    BY <1>1, <1>2, <1>5 DEF UsbCallTypes
  <1>8. UsbTimeTypes'
    BY <1>1, <1>2, <1>6 DEF UsbTimeTypes
  <1> QED BY <1>3, <1>4, <1>7, <1>8, <1>r, UsbTypes DEF UsbInv

(* A call that returns, or the end of clearAllQueues(). *)
LEMMA UsbReturnInv ==
    ASSUME UsbInv, senderPc' \in UsbPlain, batch' = <<>>,
           UNCHANGED <<packetQueue, totalSent, totalDropped, maxQueueDepth, accepted, streamEnd,
                       live, detects, usbBlocked, lastAvailable, unchanged, lastBulkMode, bulk,
                       used, offered, wire, torn>>,
           currentQueueBytes' = currentQueueBytes \/ currentQueueBytes' = 0,
           window' = window \/ window' = Unset,
           UNCHANGED <<backoffDelay, sinceAttempt>> \/ Usb!ApplyBackoff,
           item' = item \/ item' = 0, packets' = packets \/ packets' = 0,
           senderPc \notin {"pop", "clear pop"}, senderPc \in UsbCommitting => packets = 0
    PROVE  UsbInv'
  <1>1. UsbQueueTypes /\ UsbCallTypes /\ UsbTimeTypes
    BY UsbKnows
  <1>2. UsbHand' /\ UsbRoom' /\ UsbQueue' /\ UsbBatch' /\ UsbWire'
    BY UsbToPlain
  <1>3. currentQueueBytes' \in 0..(SizeMod - 1)
    <2>1. currentQueueBytes \in 0..(SizeMod - 1)
      BY <1>1 DEF UsbQueueTypes
    <2> QED BY <2>1, ZeroIn
  <1>4. UsbQueueTypes'
    BY <1>1, <1>3 DEF UsbQueueTypes
  <1>5. senderPc' \in UsbPcs
    BY DEF UsbPlain, UsbPcs
  <1>6. item' \in Nat /\ packets' \in 0..BATCH_N_PACKETS
    <2>1. item \in Nat /\ packets \in 0..BATCH_N_PACKETS /\ BATCH_N_PACKETS \in Nat
      BY <1>1, UsbConstants DEF UsbCallTypes
    <2>2. 0 \in 0..BATCH_N_PACKETS
      BY <2>1, ZeroIn
    <2>3. packets' \in 0..BATCH_N_PACKETS
      BY <2>1, <2>2
    <2>4. item' \in Nat
      BY <2>1, ZeroIn
    <2> QED BY <2>3, <2>4
  <1>7. batch' \in Seq(UsbEntries)
    BY ZeroIn
  <1>8. UsbCallTypes'
    BY <1>1, <1>5, <1>6, <1>7 DEF UsbCallTypes
  <1>9. backoffDelay' \in 0..MAX_BACKOFF /\ sinceAttempt' \in 0..MAX_BACKOFF
    BY <1>1, UsbBackoff DEF UsbTimeTypes
  <1>10. window' \in 0..BATCH_T_MS_BULK \cup {Unset}
    BY <1>1 DEF UsbTimeTypes
  <1>11. UsbTimeTypes'
    BY <1>1, <1>9, <1>10 DEF UsbTimeTypes
  <1> QED BY <1>2, <1>4, <1>8, <1>11, UsbTypes DEF UsbInv

LEMMA UsbClearEndInv ==
    ASSUME UsbInv, Usb!ClearTest \/ Usb!ClearEnd
    PROVE  UsbInv'
  <1>1. /\ UNCHANGED <<packetQueue, totalSent, totalDropped, maxQueueDepth, accepted, streamEnd,
                       live, detects, usbBlocked, lastAvailable, unchanged, lastBulkMode, bulk,
                       used, offered, wire, torn, backoffDelay, sinceAttempt, item, batch, packets>>
        /\ currentQueueBytes' = currentQueueBytes \/ currentQueueBytes' = 0
        /\ window' = window \/ window' = Unset
        /\ senderPc \in UsbPlain /\ senderPc' \in UsbPlain
    BY DEF Usb!ClearTest, Usb!ClearEnd, Usb!SenderGoes, Usb!queueVars, Usb!detection, Usb!backoff,
           Usb!modes, Usb!call, Usb!output, Usb!Constant, Usb!QueueRest, UsbPlain
  <1>2. batch' = <<>>
    BY <1>1 DEF UsbInv, UsbHand, UsbBatching, UsbCommitting, UsbPlain
  <1>3. senderPc \notin {"pop", "clear pop"} /\ senderPc \notin UsbCommitting
    BY <1>1 DEF UsbPlain, UsbCommitting
  <1> QED BY <1>1, <1>2, <1>3, UsbReturnInv

-----------------------------------------------------------------------------
(* The steps that free and pop packets                                      *)

LEMMA UsbFreed ==
    ASSUME UsbInv, packetQueue # <<>>,
           packetQueue' = [packetQueue EXCEPT ![1].data = Usb!NULL, ![1].size = 0],
           UNCHANGED <<accepted, streamEnd>>, senderPc' \in {"pop", "clear pop"}
    PROVE  /\ UsbQueue' /\ packetQueue' \in Seq(Packet) /\ packetQueue' # <<>>
           /\ Len(packetQueue') = Len(packetQueue) /\ UsbNext' = UsbNext
  <1>1. packetQueue' = Freed(packetQueue)
    BY UsbConstants DEF Freed
  <1>2. /\ packetQueue \in Seq(Packet) /\ Loose(packetQueue, accepted)
        /\ Flowing(packetQueue, streamEnd) /\ accepted \in Nat /\ streamEnd \in Nat /\ NULL = 0
    BY UsbKnows, UsbConstants DEF UsbInv, UsbQueue, Loose
  <1>3. /\ Loose(Freed(packetQueue), accepted) /\ Len(Freed(packetQueue)) = Len(packetQueue)
        /\ Freed(packetQueue) # <<>>
    BY <1>2, LooseFree
  <1>4. Flowing(Freed(packetQueue), streamEnd) /\ Freed(packetQueue) \in Seq(Packet)
    BY <1>2, FlowFree, FreedFields
  <1>5. UsbQueue'
    BY <1>1, <1>3, <1>4 DEF UsbQueue
  <1> QED BY <1>1, <1>3, <1>4, <1>5 DEF UsbNext

LEMMA UsbPopped ==
    ASSUME UsbInv, packetQueue # <<>>, packetQueue' = Tail(packetQueue),
           UNCHANGED <<accepted, streamEnd>>
    PROVE  /\ UsbQueue' /\ packetQueue' \in Seq(Packet)
           /\ Len(packetQueue') = Len(packetQueue) - 1 /\ UsbNext' = UsbNext + 1
  <1>1. /\ packetQueue \in Seq(Packet) /\ Loose(packetQueue, accepted) /\ Len(packetQueue) \in Nat
        /\ Flowing(packetQueue, streamEnd) /\ accepted \in Nat /\ streamEnd \in Nat
    BY UsbKnows DEF UsbInv, UsbQueue, Loose
  <1>2. /\ Loose(Tail(packetQueue), accepted) /\ Kept(Tail(packetQueue))
        /\ Len(Tail(packetQueue)) = Len(packetQueue) - 1
    BY <1>1, LoosePop
  <1>3. Flowing(Tail(packetQueue), streamEnd)
    BY <1>1, FlowPop
  <1>4. UsbQueue' /\ packetQueue' \in Seq(Packet)
    BY <1>2, <1>3 DEF UsbQueue, Loose
  <1>5. Len(packetQueue') = Len(packetQueue) - 1
    BY <1>2
  <1>6. UsbNext' = UsbNext + 1
    BY <1>1, <1>5 DEF UsbNext
  <1> QED BY <1>4, <1>5, <1>6

LEMMA UsbClearInv ==
    ASSUME UsbInv, Usb!ClearFree \/ Usb!ClearPop
    PROVE  UsbInv'
  <1>1. /\ UNCHANGED <<currentQueueBytes, totalSent, totalDropped, maxQueueDepth, accepted,
                       streamEnd, detects, usbBlocked, lastAvailable, unchanged, backoffDelay,
                       sinceAttempt, window, lastBulkMode, bulk, item, batch, packets, used, wire,
                       torn, offered>>
        /\ live' \subseteq live /\ senderPc \in {"clear", "clear pop"}
        /\ senderPc' \in {"clear", "clear pop"} /\ packetQueue # <<>>
    BY DEF Usb!ClearFree, Usb!ClearPop, Usb!SenderGoes, Usb!QueueRest, Usb!detection, Usb!backoff,
           Usb!modes, Usb!call, Usb!output, Usb!Constant, UsbInv, UsbHand
  <1>2. /\ UsbQueueTypes /\ UsbCallTypes /\ UsbTimeTypes /\ Len(packetQueue) \in Nat
        /\ UsbNext \in Int /\ MaxQueuePackets \in Nat
    BY UsbKnows, UsbConstants
  <1>3. batch' = <<>>
    BY <1>1 DEF UsbInv, UsbHand, UsbBatching, UsbCommitting
  <1>4. /\ senderPc \notin UsbCommitting /\ senderPc' \notin UsbCommitting
        /\ senderPc' \notin UsbBatching /\ senderPc' \notin {"fit", "write", "flush", "free", "pop"}
        /\ senderPc' \in UsbPcs
    BY <1>1 DEF UsbCommitting, UsbBatching, UsbPcs
  <1>5. /\ UsbQueue' /\ packetQueue' \in Seq(Packet) /\ Len(packetQueue') <= MaxQueuePackets
        /\ UsbNext <= UsbNext' /\ UsbNext' \in Int
        /\ senderPc' = "clear pop" => packetQueue' # <<>>
    <2>1. CASE Usb!ClearFree
      <3>1. /\ packetQueue' = [packetQueue EXCEPT ![1].data = Usb!NULL, ![1].size = 0]
            /\ senderPc' \in {"pop", "clear pop"}
        BY <2>1 DEF Usb!ClearFree, Usb!SenderGoes
      <3>2. /\ UsbQueue' /\ packetQueue' \in Seq(Packet) /\ packetQueue' # <<>>
            /\ Len(packetQueue') = Len(packetQueue) /\ UsbNext' = UsbNext
        BY <1>1, <3>1, UsbFreed
      <3>3. Len(packetQueue') <= MaxQueuePackets
        BY <1>2, <3>2 DEF UsbQueueTypes
      <3>4. UsbNext <= UsbNext' /\ UsbNext' \in Int
        BY <1>2, <3>2
      <3> QED BY <3>2, <3>3, <3>4
    <2>2. CASE Usb!ClearPop
      <3>1. packetQueue' = Tail(packetQueue) /\ senderPc' = "clear"
        BY <2>2 DEF Usb!ClearPop, Usb!SenderGoes
      <3>2. /\ UsbQueue' /\ packetQueue' \in Seq(Packet)
            /\ Len(packetQueue') = Len(packetQueue) - 1 /\ UsbNext' = UsbNext + 1
        BY <1>1, <3>1, UsbPopped
      <3>3. Len(packetQueue) <= MaxQueuePackets
        BY <1>2 DEF UsbQueueTypes
      <3> QED BY <1>2, <3>1, <3>2, <3>3
    <2> QED BY <2>1, <2>2
  <1>6. UsbHand'
    BY <1>3, <1>4, <1>5 DEF UsbHand, UsbBatching
  <1>7. UsbRoom' /\ UsbBatch'
    BY <1>4 DEF UsbRoom, UsbBatch
  <1>8. UsbWire'
    <2>1. UsbUnsent = UsbNext /\ UsbUnsent' = UsbNext'
      BY <1>4 DEF UsbUnsent
    <2>2. Below(wire, UsbUnsent) => Below(wire, UsbUnsent')
      BY <1>2, <1>5, <2>1, RaiseBelow DEF UsbCallTypes
    <2> QED BY <1>1, <2>2 DEF UsbInv, UsbWire
  <1>9. UsbQueueTypes'
    <2>1. live' \subseteq Nat
      BY <1>1, <1>2 DEF UsbQueueTypes
    <2> QED BY <1>1, <1>2, <1>5, <2>1 DEF UsbQueueTypes
  <1>10. UsbCallTypes' /\ UsbTimeTypes'
    BY <1>1, <1>2, <1>4 DEF UsbCallTypes, UsbTimeTypes
  <1> QED BY <1>5, <1>6, <1>7, <1>8, <1>9, <1>10, UsbTypes DEF UsbInv

LEMMA UsbCommitCountInv ==
    ASSUME UsbInv, Usb!CommitCount
    PROVE  UsbInv'
  <1>1. /\ UNCHANGED <<packetQueue, live, totalDropped, maxQueueDepth, accepted,
                       streamEnd, detects, usbBlocked, lastAvailable, unchanged, backoffDelay,
                       sinceAttempt, window, lastBulkMode, bulk, item, batch, packets, used, wire,
                       torn, offered>>
        /\ senderPc = "commit" /\ senderPc' = "free" /\ packets > 0 /\ packetQueue # <<>>
        /\ totalSent' = totalSent + 1
        /\ currentQueueBytes' = Usb!SizeSub(currentQueueBytes, Head(packetQueue).size)
    BY DEF Usb!CommitCount, Usb!QueueRest, Usb!detection, Usb!backoff,
           Usb!modes, Usb!call, Usb!output, Usb!Constant
  <1>2. /\ UsbQueueTypes /\ UsbCallTypes /\ UsbTimeTypes /\ packets \in Nat /\ accepted \in Nat
    BY UsbKnows
  <1>3. packets <= Len(packetQueue) /\ packets >= 1
    <2>1. packets <= Len(packetQueue)
      BY <1>1 DEF UsbInv, UsbHand, UsbCommitting
    <2> QED BY <1>1, <1>2, <2>1
  <1>4. UsbHand' /\ UsbRoom'
    BY <1>1, <1>3 DEF UsbHand, UsbRoom, UsbBatching, UsbCommitting
  <1>5. UsbQueue' /\ UsbBatch' /\ UsbWire'
    <2>1. senderPc \in UsbCommitting /\ senderPc' \in UsbCommitting /\ senderPc' \notin UsbBatching
      BY <1>1 DEF UsbCommitting, UsbBatching
    <2> QED BY <1>1, <1>4, <2>1, UsbQuiet
  <1>6. currentQueueBytes' \in 0..(SizeMod - 1)
    <2>1. Head(packetQueue) = packetQueue[1] /\ packetQueue[1].size \in 0..MaxPacketSize
      BY <1>1, <1>2, LooseFront DEF UsbInv, UsbQueue
    <2>2. packetQueue[1].size \in Nat /\ packetQueue[1].size < SizeMod
      BY <2>1, SmallSizes
    <2>3. SizeSub(currentQueueBytes, packetQueue[1].size) \in 0..(SizeMod - 1)
      BY <1>2, <2>2, SizeSubType DEF UsbQueueTypes
    <2> QED BY <1>1, <2>1, <2>3 DEF Usb!SizeSub, SizeSub
  <1>7. UsbQueueTypes'
    BY <1>1, <1>2, <1>6 DEF UsbQueueTypes
  <1>8. UsbCallTypes'
    <2>1. totalSent' \in Nat /\ senderPc' \in UsbPcs
      BY <1>1, <1>2 DEF UsbCallTypes, UsbPcs
    <2> QED BY <1>1, <1>2, <2>1 DEF UsbCallTypes
  <1>9. UsbTimeTypes'
    BY <1>1, <1>2 DEF UsbTimeTypes
  <1> QED BY <1>4, <1>5, <1>7, <1>8, <1>9, UsbTypes DEF UsbInv

LEMMA UsbCommitPopInv ==
    ASSUME UsbInv, Usb!CommitFree \/ Usb!CommitPop
    PROVE  UsbInv'
  <1>1. /\ UNCHANGED <<currentQueueBytes, totalSent, totalDropped, maxQueueDepth, accepted,
                       streamEnd, detects, usbBlocked, lastAvailable, unchanged, backoffDelay,
                       sinceAttempt, window, lastBulkMode, bulk, item, batch, used, wire,
                       torn, offered>>
        /\ live' \subseteq live /\ senderPc \in {"free", "pop"}
        /\ senderPc' \in {"pop", "commit"}
    BY DEF Usb!CommitFree, Usb!CommitPop, Usb!SenderGoes, Usb!QueueRest, Usb!detection, Usb!backoff,
           Usb!modes, Usb!call, Usb!output, Usb!Constant
  <1>2. /\ UsbQueueTypes /\ UsbCallTypes /\ UsbTimeTypes /\ Len(packetQueue) \in Nat
        /\ UsbNext \in Int /\ packets \in Nat /\ MaxQueuePackets \in Nat /\ BATCH_N_PACKETS \in Nat
        /\ Len(packetQueue) <= MaxQueuePackets /\ packets <= BATCH_N_PACKETS
    <2>1. UsbQueueTypes /\ UsbCallTypes /\ UsbTimeTypes /\ BATCH_N_PACKETS \in Nat
      BY UsbKnows, UsbConstants
    <2> QED BY <2>1, UsbKnows, UsbConstants DEF UsbQueueTypes, UsbCallTypes
  <1>3. /\ senderPc \in UsbCommitting /\ senderPc' \in UsbCommitting /\ senderPc' \in UsbPcs
        /\ senderPc' \notin UsbBatching
        /\ senderPc' \notin {"fit", "write", "clear pop", "flush", "copy", "send", "free"}
    BY <1>1 DEF UsbCommitting, UsbBatching, UsbPcs
  <1>4. packets >= 1 /\ packets <= Len(packetQueue)
    BY <1>1, <1>3 DEF UsbInv, UsbHand
  <1>n. packetQueue # <<>>
    <2>1. Len(packetQueue) # 0
      BY <1>2, <1>4
    <2> QED BY <2>1
  <1>5. /\ UsbQueue' /\ packetQueue' \in Seq(Packet) /\ Len(packetQueue') <= MaxQueuePackets
        /\ packets' <= Len(packetQueue') /\ packets' \in 0..BATCH_N_PACKETS
        /\ UsbNext' + packets' = UsbNext + packets /\ UsbNext' \in Int
        /\ senderPc' = "pop" => packets' >= 1
    <2>1. CASE Usb!CommitFree
      <3>1. /\ packetQueue' = [packetQueue EXCEPT ![1].data = Usb!NULL, ![1].size = 0]
            /\ senderPc' \in {"pop", "clear pop"} /\ packets' = packets
        BY <2>1 DEF Usb!CommitFree, Usb!SenderGoes, Usb!call
      <3>2. /\ UsbQueue' /\ packetQueue' \in Seq(Packet) /\ packetQueue' # <<>>
            /\ Len(packetQueue') = Len(packetQueue) /\ UsbNext' = UsbNext
        BY <1>1, <1>n, <3>1, UsbFreed
      <3>e. packets' = packets /\ Len(packetQueue') = Len(packetQueue) /\ UsbNext' = UsbNext
        BY <3>1, <3>2
      <3>3. /\ packets' <= Len(packetQueue') /\ packets' >= 1
            /\ Len(packetQueue') <= MaxQueuePackets
        BY <1>2, <1>4, <3>e
      <3>5. packets' \in 0..BATCH_N_PACKETS
        BY <1>2, <3>e DEF UsbCallTypes
      <3>4. UsbNext' + packets' = UsbNext + packets /\ UsbNext' \in Int
        BY <1>2, <3>e
      <3> QED BY <3>2, <3>3, <3>4, <3>5
    <2>2. CASE Usb!CommitPop
      <3>1. packetQueue' = Tail(packetQueue) /\ senderPc' = "commit" /\ packets' = packets - 1
        BY <2>2 DEF Usb!CommitPop, Usb!SenderGoes
      <3>2. /\ UsbQueue' /\ packetQueue' \in Seq(Packet)
            /\ Len(packetQueue') = Len(packetQueue) - 1 /\ UsbNext' = UsbNext + 1
        BY <1>1, <1>n, <3>1, UsbPopped
      <3>3. /\ packets' <= Len(packetQueue') /\ packets' \in 0..BATCH_N_PACKETS
            /\ Len(packetQueue') <= MaxQueuePackets
        BY <1>2, <1>4, <3>1, <3>2
      <3>4. UsbNext' + packets' = UsbNext + packets /\ UsbNext' \in Int
        BY <1>2, <3>1, <3>2
      <3> QED BY <3>1, <3>2, <3>3, <3>4
    <2> QED BY <2>1, <2>2
  <1>6. UsbHand'
    BY <1>3, <1>5 DEF UsbHand
  <1>7. UsbRoom' /\ UsbBatch'
    BY <1>3 DEF UsbRoom, UsbBatch
  <1>8. UsbWire'
    <2>1. UsbUnsent' = UsbUnsent
      BY <1>3, <1>5 DEF UsbUnsent
    <2> QED BY <1>1, <2>1 DEF UsbInv, UsbWire
  <1>9. UsbQueueTypes'
    <2>1. live' \subseteq Nat
      BY <1>1, <1>2 DEF UsbQueueTypes
    <2> QED BY <1>1, <1>2, <1>5, <2>1 DEF UsbQueueTypes
  <1>10. UsbCallTypes' /\ UsbTimeTypes'
    <2>1. packets' \in 0..BATCH_N_PACKETS /\ senderPc' \in UsbPcs
      BY <1>3, <1>5
    <2>2. UsbCallTypes'
      BY <1>1, <1>2, <2>1 DEF UsbCallTypes
    <2>3. UsbTimeTypes'
      BY <1>1, <1>2 DEF UsbTimeTypes
    <2> QED BY <2>2, <2>3
  <1> QED BY <1>5, <1>6, <1>7, <1>8, <1>9, <1>10, UsbTypes DEF UsbInv

LEMMA UsbCommitEndInv ==
    ASSUME UsbInv, Usb!CommitEnd
    PROVE  UsbInv'
  <1>1. /\ UNCHANGED <<packetQueue, currentQueueBytes, totalSent, totalDropped, maxQueueDepth,
                       accepted, streamEnd, live, detects, usbBlocked, lastAvailable, unchanged,
                       lastBulkMode, bulk, used, offered, wire, torn, backoffDelay, sinceAttempt>>
        /\ window' = window \/ window' = Unset
        /\ item' = 0 /\ packets' = 0 /\ batch' = <<>>
        /\ senderPc = "commit" /\ senderPc' = "idle" /\ (packets = 0 \/ packetQueue = <<>>)
    BY DEF Usb!CommitEnd, Usb!SenderGoes, Usb!Returns, Usb!queueVars, Usb!detection, Usb!backoff,
           Usb!output, Usb!Constant
  <1>2. packets = 0
    <2>1. packets <= Len(packetQueue) /\ packets \in Nat
      BY <1>1, UsbKnows DEF UsbInv, UsbHand, UsbCommitting
    <2>2. packetQueue = <<>> => Len(packetQueue) = 0
      OBVIOUS
    <2> QED BY <1>1, <2>1, <2>2
  <1>3. senderPc' \in UsbPlain /\ senderPc \notin {"pop", "clear pop"}
    BY <1>1 DEF UsbPlain
  <1> QED BY <1>1, <1>2, <1>3, UsbReturnInv

-----------------------------------------------------------------------------
(* write()                                                                  *)

LEMMA UsbIds ==
    ASSUME NEW b \in Seq(UsbEntries), NEW k \in 0..Len(b)
    PROVE  /\ Usb!Ids(b, k) \in Seq(Nat) /\ Len(Usb!Ids(b, k)) = k
           /\ \A i \in 1..k : Usb!Ids(b, k)[i] = b[i].id /\ i \in 1..Len(b)
  <1> DEFINE s == Usb!Ids(b, k)
  <1>1. k \in Nat /\ \A i \in 1..k : i \in 1..Len(b)
    OBVIOUS
  <1>2. \A i \in 1..k : b[i].id \in Nat
    <2>1. \A i \in 1..Len(b) : b[i] \in UsbEntries
      BY ElementOfSeq
    <2> QED BY <1>1, <2>1 DEF UsbEntries
  <1>3. s \in [1..k -> Nat] /\ \A i \in 1..k : s[i] = b[i].id
    BY <1>2 DEF Usb!Ids
  <1> HIDE DEF s
  <1>4. s \in Seq(Nat) /\ Len(s) = k
    BY <1>1, <1>3
  <1> QED BY <1>1, <1>3, <1>4 DEF s

LEMMA JoinRising ==
    ASSUME NEW w \in Seq(Nat), NEW b \in Seq(Nat), Rising(w), Rising(b),
           \A i \in 1..Len(b) : Below(w, b[i])
    PROVE  w \o b \in Seq(Nat) /\ Rising(w \o b)
  <1> DEFINE v == w \o b
  <1>1. /\ v \in Seq(Nat) /\ Len(v) = Len(w) + Len(b)
        /\ \A i \in 1..Len(w) + Len(b) : v[i] = IF i <= Len(w) THEN w[i] ELSE b[i - Len(w)]
    BY ConcatProperties
  <1>2. Len(w) \in Nat /\ Len(b) \in Nat
    OBVIOUS
  <1> HIDE DEF v
  <1>3. ASSUME NEW i \in 1..Len(v)
        PROVE  \/ i \in 1..Len(w) /\ v[i] = w[i]
               \/ i > Len(w) /\ i - Len(w) \in 1..Len(b) /\ v[i] = b[i - Len(w)]
    BY <1>1, <1>2
  <1>4. ASSUME NEW i \in 1..Len(v), NEW j \in 1..Len(v), i < j PROVE v[i] < v[j]
    <2>1. CASE j \in 1..Len(w) /\ v[j] = w[j]
      <3>1. i \in 1..Len(w) /\ v[i] = w[i]
        BY <1>2, <1>3, <1>4, <2>1
      <3> QED BY <1>4, <2>1, <3>1 DEF Rising
    <2>2. CASE j > Len(w) /\ j - Len(w) \in 1..Len(b) /\ v[j] = b[j - Len(w)]
      <3>1. CASE i \in 1..Len(w) /\ v[i] = w[i]
        BY <2>2, <3>1 DEF Below
      <3>2. CASE i > Len(w) /\ i - Len(w) \in 1..Len(b) /\ v[i] = b[i - Len(w)]
        <4>1. i - Len(w) < j - Len(w)
          BY <1>2, <1>4
        <4> QED BY <2>2, <3>2, <4>1 DEF Rising
      <3> QED BY <1>3, <3>1, <3>2
    <2> QED BY <1>3, <2>1, <2>2
  <1> QED BY <1>1, <1>4 DEF Rising, v

(* A batch that may be written: newer than all that was written, in order,  *)
(* and its packets up to byte n are older than next.                        *)
UsbSendable(b, n, next) ==
    /\ \A i \in 1..Len(b) : Below(wire, b[i].id) /\ (b[i].upto <= n => b[i].id < next)
    /\ \A i, j \in 1..Len(b) : i < j => b[i].id < b[j].id

LEMMA UsbTakenWire ==
    ASSUME NEW b \in Seq(UsbEntries), NEW n, Usb!Taken(b, n), wire \in Seq(Nat)
    PROVE  /\ wire' \in Seq(Nat)
           /\ \A next \in Int : UsbSendable(b, n, next) /\ Rising(wire) /\ Below(wire, next)
                              => Rising(wire') /\ Below(wire', next)
  <1>1. PICK k \in 0..Len(b) : /\ \A i \in 1..Len(b) : b[i].upto <= n <=> i <= k
                               /\ wire' = wire \o Usb!Ids(b, k)
    BY DEF Usb!Taken
  <1> DEFINE s == Usb!Ids(b, k)
  <1>2. /\ s \in Seq(Nat) /\ Len(s) = k /\ k \in Nat
        /\ \A i \in 1..k : s[i] = b[i].id /\ i \in 1..Len(b) /\ i <= k
    BY UsbIds
  <1>3. wire' = wire \o s
    BY <1>1
  <1> HIDE DEF s
  <1>4. wire' \in Seq(Nat)
    BY <1>2, <1>3, ConcatProperties
  <1>5. ASSUME NEW next \in Int, UsbSendable(b, n, next), Rising(wire), Below(wire, next)
        PROVE  Rising(wire') /\ Below(wire', next)
    <2>1. Rising(s)
      BY <1>2, <1>5 DEF Rising, UsbSendable
    <2>2. \A i \in 1..Len(s) : Below(wire, s[i])
      BY <1>2, <1>5 DEF UsbSendable
    <2>3. Below(s, next)
      BY <1>1, <1>2, <1>5 DEF Below, UsbSendable
    <2>4. Rising(wire')
      BY <1>2, <1>3, <1>5, <2>1, <2>2, JoinRising
    <2>5. Below(wire', next)
      BY <1>2, <1>3, <1>5, <2>3, JoinBelow
    <2> QED BY <2>4, <2>5
  <1> QED BY <1>4, <1>5

LEMMA FartherOn == \A n \in Int, k \in Nat : n + k \in Int /\ n <= n + k
  OBVIOUS

(* The bytes are out and the packets are to be committed. *)
LEMMA UsbSentInv ==
    ASSUME UsbInv, NEW b \in Seq(UsbEntries), NEW n \in Nat, Usb!Taken(b, n),
           n <= HostSpace - used, senderPc \in {"write", "send"}, senderPc' = "commit",
           packets' \in Nat, packets' <= Len(packetQueue), packets' \in 0..BATCH_N_PACKETS,
           Usb!ResetBackoff, torn' \in BOOLEAN,
           torn' \/ (UsbSendable(b, n, UsbNext + packets') /\ ~torn),
           UNCHANGED <<packetQueue, currentQueueBytes, totalSent, totalDropped, maxQueueDepth,
                       accepted, streamEnd, live, detects, usbBlocked, lastAvailable, unchanged,
                       window, lastBulkMode, bulk, item, batch, offered>>
    PROVE  UsbInv'
  <1>1. /\ UsbQueueTypes /\ UsbCallTypes /\ UsbTimeTypes /\ UsbNext \in Int
        /\ wire \in Seq(Nat)
    BY UsbKnows DEF UsbCallTypes
  <1>2. UsbQueueTypes' /\ UsbQueue'
    <2>1. UsbQueueTypes'
      BY <1>1 DEF UsbQueueTypes
    <2>2. UsbQueue'
      BY DEF UsbInv, UsbQueue
    <2> QED BY <2>1, <2>2
  <1>3. UsbTimeTypes'
    <2>1. backoffDelay' \in 0..MAX_BACKOFF /\ sinceAttempt' \in 0..MAX_BACKOFF
      BY UsbBackoff
    <2> QED BY <1>1, <2>1 DEF UsbTimeTypes
  <1>4. used' \in 0..HostSpace
    <2>1. used' = used + n
      BY DEF Usb!Taken
    <2>2. used \in 0..HostSpace /\ HostSpace \in Nat
      BY UsbAvailable, UsbConstants
    <2> QED BY <2>1, <2>2
  <1>5. UsbCallTypes'
    <2>1. wire' \in Seq(Nat) /\ senderPc' \in UsbPcs
      BY <1>1, UsbTakenWire DEF UsbPcs
    <2> QED BY <1>1, <1>4, <2>1 DEF UsbCallTypes
  <1>6. UsbHand' /\ UsbRoom' /\ UsbBatch'
    BY DEF UsbHand, UsbRoom, UsbBatch, UsbBatching, UsbCommitting
  <1>7. UsbWire'
    <2> SUFFICES ASSUME ~torn' PROVE UsbWire'
      BY DEF UsbWire
    <2> DEFINE next == UsbNext + packets'
    <2>1. next \in Int /\ UsbNext <= next
      BY <1>1, FartherOn
    <2>2. UsbUnsent = UsbNext /\ UsbUnsent' = next
      BY DEF UsbUnsent, UsbCommitting, UsbNext
    <2>3. UsbSendable(b, n, next) /\ Rising(wire) /\ Below(wire, UsbNext)
      BY <2>2 DEF UsbInv, UsbWire
    <2> HIDE DEF next
    <2>4. Below(wire, next)
      BY <1>1, <2>1, <2>3, RaiseBelow
    <2>5. Rising(wire') /\ Below(wire', next)
      BY <1>1, <2>1, <2>3, <2>4, UsbTakenWire
    <2> QED BY <2>2, <2>5 DEF UsbWire
  <1> QED BY <1>2, <1>3, <1>5, <1>6, <1>7, UsbTypes DEF UsbInv

-----------------------------------------------------------------------------
(* sendSinglePacket()                                                       *)

LEMMA UsbSingleFrontInv ==
    ASSUME UsbInv, Usb!SingleFront
    PROVE  UsbInv'
  <1>1. /\ UNCHANGED <<packetQueue, currentQueueBytes, totalSent, totalDropped, maxQueueDepth,
                       accepted, streamEnd, live, detects, usbBlocked, lastAvailable, unchanged,
                       backoffDelay, sinceAttempt, window, lastBulkMode, bulk, used, offered,
                       wire, torn>>
        /\ senderPc = "front"
    BY DEF Usb!SingleFront, Usb!Quiet, Usb!queueVars, Usb!detection, Usb!backoff, Usb!modes,
           Usb!output, Usb!Constant, Usb!Returns
  <1>2. /\ UsbQueueTypes /\ UsbCallTypes /\ UsbTimeTypes
        /\ batch = <<>> /\ accepted \in Nat
    BY <1>1, UsbKnows DEF UsbInv, UsbHand, UsbBatching, UsbCommitting
  <1>3. CASE senderPc' = "idle" /\ Usb!Returns
    <2>1. senderPc' \in UsbPlain /\ item' = 0 /\ packets' = 0 /\ batch' = <<>>
      BY <1>3 DEF UsbPlain, Usb!Returns
    <2>2. senderPc \notin {"pop", "clear pop"} /\ senderPc \notin UsbCommitting
      BY <1>1 DEF UsbCommitting
    <2> QED BY <1>1, <2>1, <2>2, UsbReturnInv
  <1>4. CASE /\ senderPc' = "fit" /\ item' = Head(packetQueue).id /\ packetQueue # <<>>
             /\ UNCHANGED <<bulk, batch, packets>>
    <2>1. item' \in Nat /\ item' = UsbNext
      <3>1. Head(packetQueue) = packetQueue[1] /\ packetQueue[1].id \in Nat
            /\ packetQueue[1].id = accepted + 1 - Len(packetQueue)
        BY <1>2, <1>4, LooseFront DEF UsbInv, UsbQueue
      <3> QED BY <1>4, <3>1 DEF UsbNext
    <2>2. UsbHand'
      BY <1>1, <1>2, <1>4 DEF UsbHand, UsbBatching, UsbCommitting
    <2>3. UsbRoom'
      <3>1. UsbNext' = UsbNext /\ UsbNext \in Int
        BY <1>1, UsbKnows DEF UsbNext
      <3> QED BY <1>4, <2>1, <3>1 DEF UsbRoom
    <2>4. UsbQueue' /\ UsbBatch' /\ UsbWire'
      <3>1. /\ senderPc \notin {"pop", "clear pop"} /\ senderPc \notin UsbCommitting
            /\ senderPc' \notin UsbBatching /\ senderPc' \notin UsbCommitting
        BY <1>1, <1>4 DEF UsbCommitting, UsbBatching
      <3> QED BY <1>1, <2>2, <3>1, UsbQuiet
    <2>5. UsbQueueTypes' /\ UsbTimeTypes'
      <3>1. UsbQueueTypes'
        BY <1>1, <1>2 DEF UsbQueueTypes
      <3>2. UsbTimeTypes'
        BY <1>1, <1>2 DEF UsbTimeTypes
      <3> QED BY <3>1, <3>2
    <2>6. UsbCallTypes'
      BY <1>1, <1>2, <1>4, <2>1 DEF UsbCallTypes, UsbPcs
    <2> QED BY <2>2, <2>3, <2>4, <2>5, <2>6, UsbTypes DEF UsbInv
  <1> QED BY <1>3, <1>4 DEF Usb!SingleFront

LEMMA UsbContent ==
    ASSUME UsbInv, senderPc \in {"fit", "write"}
    PROVE  /\ packetQueue[1].id = item \/ Usb!Content = <<>>
           /\ Usb!Content \in Seq(UsbEntries) /\ Usb!Bytes(Usb!Content) \in Nat
           /\ item = packetQueue[1].id =>
                 /\ Usb!Bytes(Usb!Content) = packetQueue[1].size /\ item = UsbNext
                 /\ Len(Usb!Content) = 1 /\ Usb!Content[1].id = item
           /\ packetQueue[1].size \in Nat /\ packetQueue # <<>> /\ UsbNext \in Int
  <1>1. /\ packetQueue # <<>> /\ accepted \in Nat /\ item \in Nat /\ UsbNext \in Int
        /\ Loose(packetQueue, accepted)
    BY UsbKnows DEF UsbInv, UsbHand, UsbQueue, UsbCallTypes
  <1>2. /\ Head(packetQueue) = packetQueue[1] /\ packetQueue[1] \in Packet
        /\ packetQueue[1].id = accepted + 1 - Len(packetQueue)
    BY <1>1, LooseFront
  <1>3. packetQueue[1].size \in Nat /\ packetQueue[1].id = UsbNext
    BY <1>2 DEF Packet, UsbNext
  <1>4. CASE packetQueue[1].id = item
    <2> DEFINE e == [id |-> item, upto |-> packetQueue[1].size]
    <2>1. Usb!Content = <<e>>
      BY <1>2, <1>4 DEF Usb!Content
    <2>2. e \in UsbEntries /\ e.id = item /\ e.upto = packetQueue[1].size
      BY <1>1, <1>3 DEF UsbEntries
    <2> HIDE DEF e
    <2>3. <<e>> \in Seq(UsbEntries) /\ Len(<<e>>) = 1 /\ <<e>>[1] = e /\ <<e>> # <<>>
      BY <2>2
    <2>4. Usb!Bytes(<<e>>) = packetQueue[1].size
      BY <2>2, <2>3 DEF Usb!Bytes
    <2> QED BY <1>1, <1>3, <1>4, <2>1, <2>2, <2>3, <2>4
  <1>5. CASE packetQueue[1].id # item
    <2>1. Usb!Content = <<>>
      BY <1>2, <1>5 DEF Usb!Content
    <2>2. Usb!Bytes(<<>>) = 0
      BY DEF Usb!Bytes
    <2> QED BY <1>1, <1>3, <1>5, <2>1, <2>2, ZeroIn
  <1> QED BY <1>4, <1>5

LEMMA UsbSingleFitInv ==
    ASSUME UsbInv, Usb!SingleFit
    PROVE  UsbInv'
  <1>1. /\ UNCHANGED <<packetQueue, currentQueueBytes, totalSent, totalDropped, maxQueueDepth,
                       accepted, streamEnd, live, detects, usbBlocked, lastAvailable, unchanged,
                       backoffDelay, sinceAttempt, window, lastBulkMode, bulk, used, offered,
                       wire, torn>>
        /\ senderPc = "fit"
    BY DEF Usb!SingleFit, Usb!Quiet, Usb!queueVars, Usb!detection, Usb!backoff, Usb!modes,
           Usb!output, Usb!Constant, Usb!Returns, Usb!call
  <1>2. /\ UsbQueueTypes /\ UsbCallTypes /\ UsbTimeTypes
        /\ batch = <<>> /\ accepted \in Nat
    BY <1>1, UsbKnows DEF UsbInv, UsbHand, UsbBatching, UsbCommitting
  <1>3. CASE senderPc' = "idle" /\ Usb!Returns
    <2>1. senderPc' \in UsbPlain /\ item' = 0 /\ packets' = 0 /\ batch' = <<>>
      BY <1>3 DEF UsbPlain, Usb!Returns
    <2>2. senderPc \notin {"pop", "clear pop"} /\ senderPc \notin UsbCommitting
      BY <1>1 DEF UsbCommitting
    <2> QED BY <1>1, <2>1, <2>2, UsbReturnInv
  <1>4. CASE /\ senderPc' = "write" /\ UNCHANGED <<item, batch, packets>>
             /\ Usb!Bytes(Usb!Content) <= Usb!Available
    <2>1. UsbHand'
      BY <1>1, <1>2, <1>4 DEF UsbHand, UsbBatching, UsbCommitting, UsbInv
    <2>2. UsbRoom'
      <3>1. UsbNext' = UsbNext
        BY <1>1 DEF UsbNext
      <3>2. item = packetQueue[1].id => packetQueue[1].size <= HostSpace - used
        BY <1>1, <1>4, UsbContent, UsbAvailable
      <3> QED BY <1>1, <1>4, <3>1, <3>2 DEF UsbRoom, UsbInv
    <2>3. UsbQueue' /\ UsbBatch' /\ UsbWire'
      <3>1. /\ senderPc \notin {"pop", "clear pop"} /\ senderPc \notin UsbCommitting
            /\ senderPc' \notin UsbBatching /\ senderPc' \notin UsbCommitting
        BY <1>1, <1>4 DEF UsbCommitting, UsbBatching
      <3> QED BY <1>1, <2>1, <3>1, UsbQuiet
    <2>4. UsbQueueTypes'
      BY <1>1, <1>2 DEF UsbQueueTypes
    <2>5. UsbTimeTypes'
      BY <1>1, <1>2 DEF UsbTimeTypes
    <2>6. UsbCallTypes'
      BY <1>1, <1>2, <1>4 DEF UsbCallTypes, UsbPcs
    <2> QED BY <2>1, <2>2, <2>3, <2>4, <2>5, <2>6, UsbTypes DEF UsbInv
  <1> QED BY <1>3, <1>4 DEF Usb!SingleFit, Usb!call, Usb!Fits

LEMMA UsbSingleWriteInv ==
    ASSUME UsbInv, Usb!SingleWrite
    PROVE  UsbInv'
  <1>1. /\ UNCHANGED <<packetQueue, currentQueueBytes, totalSent, totalDropped, maxQueueDepth,
                       accepted, streamEnd, live, detects, usbBlocked, lastAvailable, unchanged,
                       window, lastBulkMode, bulk, offered, torn>>
        /\ senderPc = "write"
    BY DEF Usb!SingleWrite, Usb!queueVars, Usb!detection, Usb!modes, Usb!output, Usb!Constant,
           Usb!Returns
  <1>2. /\ UsbQueueTypes /\ UsbCallTypes /\ UsbTimeTypes /\ torn \in BOOLEAN
    BY UsbKnows DEF UsbCallTypes
  <1>3. CASE /\ senderPc' = "idle" /\ Usb!Returns /\ Usb!ApplyBackoff /\ UNCHANGED <<used, wire>>
    <2>1. senderPc' \in UsbPlain /\ item' = 0 /\ packets' = 0 /\ batch' = <<>>
      BY <1>3 DEF UsbPlain, Usb!Returns
    <2>2. senderPc \notin {"pop", "clear pop"} /\ senderPc \notin UsbCommitting
      BY <1>1 DEF UsbCommitting
    <2> QED BY <1>1, <1>3, <2>1, <2>2, UsbReturnInv
  <1>4. CASE /\ Usb!Taken(Usb!Content, Usb!Bytes(Usb!Content)) /\ Usb!ResetBackoff
             /\ senderPc' = "commit" /\ packets' = 1 /\ UNCHANGED <<item, batch>>
    <2> DEFINE b == Usb!Content
               n == Usb!Bytes(Usb!Content)
    <2>1. /\ b \in Seq(UsbEntries) /\ n \in Nat /\ packetQueue # <<>> /\ UsbNext \in Int
          /\ packetQueue[1].id = item \/ b = <<>>
      BY <1>1, UsbContent
    <2>2. n > 0
      BY <1>4 DEF Usb!Taken
    <2>3. item = packetQueue[1].id
      <3>1. b = <<>> => n = 0
        BY DEF Usb!Bytes
      <3> QED BY <2>1, <2>2, <3>1
    <2>4. n = packetQueue[1].size /\ item = UsbNext /\ Len(b) = 1 /\ b[1].id = item
      BY <1>1, <2>3, UsbContent
    <2>5. n <= HostSpace - used
      BY <1>1, <2>3, <2>4 DEF UsbInv, UsbRoom
    <2>t. Usb!Taken(b, n)
      BY <1>4
    <2> HIDE DEF b, n
    <2>6. ~torn => UsbSendable(b, n, UsbNext + packets')
      <3> SUFFICES ASSUME ~torn PROVE UsbSendable(b, n, UsbNext + packets')
        OBVIOUS
      <3>1. Below(wire, UsbNext)
        BY <1>1 DEF UsbInv, UsbWire, UsbUnsent, UsbCommitting
      <3>2. \A i \in 1..Len(b) : i = 1 /\ b[i].id = UsbNext
        BY <2>4
      <3>3. UsbNext < UsbNext + packets'
        BY <1>4, <2>1
      <3>4. \A i, j \in 1..Len(b) : ~(i < j)
        BY <2>4
      <3> QED BY <3>1, <3>2, <3>3, <3>4 DEF UsbSendable
    <2>7. packets' \in Nat /\ packets' <= Len(packetQueue) /\ packets' \in 0..BATCH_N_PACKETS
      <3>1. Len(packetQueue) >= 1
        <4>1. packetQueue \in Seq(Packet)
          BY <1>2 DEF UsbQueueTypes
        <4> QED BY <2>1, <4>1
      <3>2. BATCH_N_PACKETS \in Nat /\ BATCH_N_PACKETS >= 1
        BY UsbConstants
      <3> QED BY <1>4, <3>1, <3>2
    <2>8. torn' \in BOOLEAN /\ (torn' \/ (UsbSendable(b, n, UsbNext + packets') /\ ~torn))
          /\ senderPc \in {"write", "send"}
      BY <1>1, <1>2, <2>6
    <2> QED BY <1>1, <1>4, <2>1, <2>5, <2>t, <2>7, <2>8, UsbSentInv
  <1> QED BY <1>3, <1>4 DEF Usb!SingleWrite, Usb!output

-----------------------------------------------------------------------------
(* Bulk mode: planning and waiting                                          *)

LEMMA UsbPlanInv ==
    ASSUME UsbInv, Usb!Plan
    PROVE  UsbInv'
  <1>1. /\ UNCHANGED <<packetQueue, currentQueueBytes, totalSent, totalDropped, maxQueueDepth,
                       accepted, streamEnd, live, detects, usbBlocked, lastAvailable, unchanged,
                       backoffDelay, sinceAttempt, lastBulkMode, bulk, used, offered, wire, torn>>
        /\ senderPc = "plan"
    BY DEF Usb!Plan, Usb!queueVars, Usb!detection, Usb!backoff, Usb!output, Usb!Constant,
           Usb!Returns
  <1>2. /\ UsbQueueTypes /\ UsbCallTypes /\ UsbTimeTypes /\ batch = <<>> /\ UsbNext \in Int
    BY <1>1, UsbKnows DEF UsbInv, UsbHand, UsbBatching, UsbCommitting
  <1>3. senderPc \notin {"pop", "clear pop"} /\ senderPc \notin UsbCommitting
    BY <1>1 DEF UsbCommitting
  <1>4. CASE senderPc' = "idle" /\ window' = Unset /\ Usb!Returns
    <2>1. senderPc' \in UsbPlain /\ item' = 0 /\ packets' = 0 /\ batch' = <<>>
      BY <1>4 DEF UsbPlain, Usb!Returns
    <2> QED BY <1>1, <1>3, <1>4, <2>1, UsbReturnInv
  <1>5. CASE /\ \E n \in 1..Len(packetQueue) :
                   /\ Usb!Planned(n) /\ packets' = n
                   /\ senderPc' = IF Usb!EnoughIn(n) THEN "copy" ELSE "flush"
             /\ window' = IF window = Unset THEN 0 ELSE window
             /\ UNCHANGED <<item, batch>>
    <2>1. PICK n \in 1..Len(packetQueue) : Usb!Planned(n) /\ packets' = n /\ senderPc' \in {"copy", "flush"}
      BY <1>5
    <2>2. n <= BATCH_N_PACKETS
      <3>1. Len(packetQueue) \in Nat /\ BATCH_N_PACKETS \in Nat /\ BATCH_N_PACKETS >= 1 /\ n \in Nat
        BY UsbKnows, UsbConstants
      <3>2. CASE n = 1
        BY <3>1, <3>2
      <3>3. CASE n # 1
        <4> DEFINE k == n - 1
        <4>1. k \in 1..n - 1 /\ n = k + 1 /\ k \in Nat
          BY <3>1, <3>3
        <4>2. ~Usb!EnoughIn(k)
          BY <2>1, <4>1 DEF Usb!Planned
        <4> HIDE DEF k
        <4>3. ~(k >= BATCH_N_PACKETS)
          BY <4>2 DEF Usb!EnoughIn
        <4> QED BY <3>1, <4>1, <4>3
      <3> QED BY <3>2, <3>3
    <2>3. n \in Nat /\ n >= 1 /\ n <= Len(packetQueue) /\ packets' \in 0..BATCH_N_PACKETS
          /\ packets' = n
      BY <2>1, <2>2, UsbConstants
    <2>4. batch' = <<>> /\ Len(<<>>) = 0 /\ 0 < n
      BY <1>2, <1>5, <2>3
    <2>5. UsbHand' /\ UsbRoom'
      BY <1>1, <2>1, <2>3, <2>4 DEF UsbHand, UsbRoom, UsbCommitting
    <2>6. UsbQueue' /\ UsbBatch' /\ UsbWire'
      <3>1. senderPc' \notin UsbCommitting
        BY <2>1 DEF UsbCommitting
      <3> QED BY <1>1, <1>3, <2>4, <2>5, <3>1, UsbQuiet
    <2>7. UsbQueueTypes'
      BY <1>1, <1>2 DEF UsbQueueTypes
    <2>8. UsbTimeTypes'
      <3>1. window' \in 0..BATCH_T_MS_BULK \cup {Unset}
        BY <1>2, <1>5, UsbTimes DEF UsbTimeTypes
      <3> QED BY <1>1, <1>2, <3>1 DEF UsbTimeTypes
    <2>9. UsbCallTypes'
      <3>1. senderPc' \in UsbPcs
        BY <2>1 DEF UsbPcs
      <3> QED BY <1>1, <1>2, <1>5, <2>3, <3>1 DEF UsbCallTypes
    <2> QED BY <2>5, <2>6, <2>7, <2>8, <2>9, UsbTypes DEF UsbInv
  <1> QED BY <1>4, <1>5 DEF Usb!Plan

LEMMA UsbFlushInv ==
    ASSUME UsbInv, Usb!Flush
    PROVE  UsbInv'
  <1>1. /\ UNCHANGED <<packetQueue, currentQueueBytes, totalSent, totalDropped, maxQueueDepth,
                       accepted, streamEnd, live, detects, usbBlocked, lastAvailable, unchanged,
                       backoffDelay, sinceAttempt, window, lastBulkMode, bulk, used, offered,
                       wire, torn>>
        /\ senderPc = "flush"
    BY DEF Usb!Flush, Usb!Quiet, Usb!queueVars, Usb!detection, Usb!backoff, Usb!modes, Usb!output,
           Usb!Constant, Usb!Returns, Usb!call
  <1>2. /\ UsbQueueTypes /\ UsbCallTypes /\ UsbTimeTypes /\ batch = <<>> /\ packets \in Nat
        /\ packets >= 1 /\ packets <= Len(packetQueue)
    BY <1>1, UsbKnows DEF UsbInv, UsbHand, UsbBatching, UsbCommitting
  <1>3. senderPc \notin {"pop", "clear pop"} /\ senderPc \notin UsbCommitting
    BY <1>1 DEF UsbCommitting
  <1>4. CASE senderPc' = "idle" /\ Usb!Returns
    <2>1. senderPc' \in UsbPlain /\ item' = 0 /\ packets' = 0 /\ batch' = <<>>
      BY <1>4 DEF UsbPlain, Usb!Returns
    <2> QED BY <1>1, <1>3, <1>4, <2>1, UsbReturnInv
  <1>5. CASE senderPc' = "copy" /\ UNCHANGED <<item, batch, packets>>
    <2>1. batch' = <<>> /\ Len(<<>>) = 0 /\ 0 < packets'
      BY <1>2, <1>5
    <2>2. UsbHand' /\ UsbRoom'
      BY <1>1, <1>2, <1>5, <2>1 DEF UsbHand, UsbRoom, UsbBatching, UsbCommitting
    <2>3. UsbQueue' /\ UsbBatch' /\ UsbWire'
      <3>1. senderPc' \notin UsbCommitting
        BY <1>5 DEF UsbCommitting
      <3> QED BY <1>1, <1>3, <2>1, <2>2, <3>1, UsbQuiet
    <2>4. UsbQueueTypes'
      BY <1>1, <1>2 DEF UsbQueueTypes
    <2>5. UsbTimeTypes'
      BY <1>1, <1>2 DEF UsbTimeTypes
    <2>6. UsbCallTypes'
      BY <1>1, <1>2, <1>5 DEF UsbCallTypes, UsbPcs
    <2> QED BY <2>2, <2>3, <2>4, <2>5, <2>6, UsbTypes DEF UsbInv
  <1> QED BY <1>4, <1>5 DEF Usb!Flush, Usb!call

-----------------------------------------------------------------------------
(* Bulk mode: the copy of the batch                                         *)

LEMMA UsbAppended ==
    ASSUME NEW b \in Seq(UsbEntries), NEW e \in UsbEntries
    PROVE  /\ Append(b, e) \in Seq(UsbEntries) /\ Len(Append(b, e)) = Len(b) + 1
           /\ Len(b) \in Nat /\ Len(b) + 1 \in 1..Len(b) + 1 /\ Append(b, e)[Len(b) + 1] = e
           /\ \A i \in 1..Len(b) : /\ Append(b, e)[i] = b[i] /\ i \in 1..Len(b) + 1
                                   /\ i < Len(b) + 1 /\ i # Len(b) + 1
           /\ \A i \in 1..Len(b) + 1 : i \in 1..Len(b) \/ i = Len(b) + 1
  OBVIOUS

LEMMA PlaceNumber ==
    \A n, l, acc, k \in Nat : n + l = acc + k => n + 1 = (acc + 1 - l) + k
  OBVIOUS

LEMMA EndsLater ==
    \A a, s, b, z, f \in Nat : a + s <= b /\ z >= 1 => (a + s) - f < (b + z) - f
  OBVIOUS

(* The k-th packet of the queue. *)
LEMMA UsbPlace ==
    ASSUME UsbInv, NEW k \in 1..Len(packetQueue)
    PROVE  /\ packetQueue[k] \in Packet /\ packetQueue[k].id + 1 = UsbNext + k
           /\ packetQueue[k].start \in Nat /\ packetQueue[k].size \in Nat
           /\ packetQueue[k].id \in Nat /\ packetQueue[1].start \in Nat
           /\ senderPc \notin {"pop", "clear pop"} => packetQueue[k].data # NULL
  <1>1. /\ packetQueue \in Seq(Packet) /\ Loose(packetQueue, accepted) /\ accepted \in Nat
        /\ Len(packetQueue) \in Nat
    BY UsbKnows DEF UsbInv, UsbQueue, UsbQueueTypes
  <1>2. /\ packetQueue[k] \in Packet /\ packetQueue[k].start \in Nat /\ packetQueue[k].size \in Nat
        /\ packetQueue[k].id \in Nat
    BY <1>1, FlowFacts
  <1>3. packetQueue[k].id + Len(packetQueue) = accepted + k
    BY <1>1 DEF Loose, Numbered
  <1>4. packetQueue[k].id + 1 = UsbNext + k
    <2>1. packetQueue[k].id + 1 = (accepted + 1 - Len(packetQueue)) + k
      <3> DEFINE n == packetQueue[k].id
                 m == Len(packetQueue)
      <3>1. n \in Nat /\ m \in Nat /\ accepted \in Nat /\ k \in Nat /\ n + m = accepted + k
        BY <1>1, <1>2, <1>3
      <3> HIDE DEF n, m
      <3>2. n + 1 = (accepted + 1 - m) + k
        BY <3>1, PlaceNumber
      <3> QED BY <3>2 DEF n, m
    <2> QED BY <2>1 DEF UsbNext
  <1>5. packetQueue[1].start \in Nat
    <2>1. 1 \in 1..Len(packetQueue)
      BY <1>1
    <2> QED BY <1>1, <2>1, FlowFacts
  <1>6. senderPc \notin {"pop", "clear pop"} => packetQueue[k].data # NULL
    <2>1. k # 1 => packetQueue[k].data # NULL
      BY <1>1 DEF Loose
    <2>2. packetQueue # <<>>
      OBVIOUS
    <2>3. senderPc \notin {"pop", "clear pop"} => packetQueue[1].data # NULL
      BY <2>2 DEF UsbInv, UsbQueue, Kept
    <2> QED BY <2>1, <2>3
  <1> QED BY <1>2, <1>4, <1>5, <1>6

(* A packet of the queue ends later than the ones before it. *)
LEMMA UsbFarther ==
    ASSUME UsbInv, NEW k \in 1..Len(packetQueue),
           NEW n \in 1..Len(packetQueue), n < k, senderPc \notin {"pop", "clear pop"}
    PROVE  UsbEnd(packetQueue, n) < UsbEnd(packetQueue, k)
  <1>1. /\ packetQueue[k].start \in Nat /\ packetQueue[k].size \in Nat
        /\ packetQueue[n].start \in Nat /\ packetQueue[n].size \in Nat
        /\ packetQueue[1].start \in Nat /\ packetQueue[k].data # NULL
    BY UsbPlace
  <1>2. /\ packetQueue[n].start + packetQueue[n].size <= packetQueue[k].start
        /\ packetQueue[k].size >= 1
    BY <1>1 DEF UsbInv, UsbQueue, Flowing
  <1> QED BY <1>1, <1>2, EndsLater DEF UsbEnd

LEMMA NewEntry ==
    ASSUME NEW n \in Nat, NEW next \in Int, NEW l \in Nat, n + 1 = next + (l + 1)
    PROVE  /\ next <= n /\ n < next + (l + 1)
           /\ \A i \in 1..l, m \in Nat : m < next + i => m < n
  OBVIOUS

LEMMA EndAfter ==
    \A a, s, z, f, u \in Nat : (a + s) - f <= u => ((a + s) + z) - f <= u + z
  OBVIOUS

LEMMA SamePlace ==
    \A n, m, b, l \in Nat : \A next \in Int :
        n + 1 = next + l /\ m + 1 = next + (l + 1) /\ m = b + 1 => n = b
  OBVIOUS

LEMMA OnePlace ==
    \A n, k, l \in Nat : \A next \in Int : n + 1 = next + k /\ n + 1 = next + (l + 1) => k = l + 1
  OBVIOUS

LEMMA UsbCopyNextInv ==
    ASSUME UsbInv, Usb!CopyNext
    PROVE  UsbInv'
  <1> DEFINE l == Len(batch)
             p == packetQueue[l + 1]
             e == [id |-> p.id, upto |-> Usb!Bytes(batch) + p.size]
  <1>1. /\ UNCHANGED <<packetQueue, currentQueueBytes, totalSent, totalDropped, maxQueueDepth,
                       accepted, streamEnd, live, detects, usbBlocked, lastAvailable, unchanged,
                       backoffDelay, sinceAttempt, window, lastBulkMode, bulk, item, packets, used,
                       offered, wire, torn>>
        /\ senderPc = "copy" /\ l < packets /\ batch' = Append(batch, e)
        /\ senderPc' = IF l + 1 = packets THEN "send" ELSE "copy"
    BY DEF Usb!CopyNext, Usb!Quiet, Usb!queueVars, Usb!detection, Usb!backoff, Usb!modes,
           Usb!output, Usb!Constant
  <1>2. /\ UsbQueueTypes /\ UsbCallTypes /\ UsbTimeTypes /\ packets \in Nat /\ l \in Nat
        /\ packets >= 1 /\ packets <= Len(packetQueue) /\ UsbNext \in Int
        /\ batch \in Seq(UsbEntries) /\ Len(packetQueue) \in Nat
    <2>1. UsbQueueTypes /\ UsbCallTypes /\ UsbTimeTypes
      BY UsbKnows
    <2>2. packets <= Len(packetQueue) /\ packets >= 1
      BY <1>1 DEF UsbInv, UsbHand, UsbBatching
    <2> QED BY <2>1, <2>2, UsbKnows DEF UsbCallTypes
  <1>3. l + 1 \in 1..Len(packetQueue)
    BY <1>1, <1>2
  <1>4. /\ p \in Packet /\ p.id + 1 = UsbNext + (l + 1) /\ p.size \in Nat /\ p.id \in Nat
        /\ p.start \in Nat /\ packetQueue[1].start \in Nat
    BY <1>3, UsbPlace
  <1>5. \A i \in 1..l : batch[i].id \in Nat /\ batch[i].upto \in Nat
    <2>1. \A i \in 1..l : batch[i] \in UsbEntries
      BY <1>2, ElementOfSeq
    <2> QED BY <2>1 DEF UsbEntries
  <1>6. Usb!Bytes(batch) \in Nat /\ (l # 0 => Usb!Bytes(batch) = batch[l].upto)
        /\ (l = 0 => Usb!Bytes(batch) = 0)
    <2>1. l # 0 => l \in 1..l /\ batch # <<>>
      BY <1>2
    <2>2. l = 0 => batch = <<>>
      BY <1>2
    <2> QED BY <1>5, <2>1, <2>2, ZeroIn DEF Usb!Bytes
  <1>7. e \in UsbEntries /\ e.id = p.id /\ e.upto = Usb!Bytes(batch) + p.size
    <2>1. Usb!Bytes(batch) + p.size \in Nat
      BY <1>4, <1>6, NatPlus
    <2> QED BY <1>4, <2>1 DEF UsbEntries
  <1> HIDE DEF e
  <1>8. /\ batch' \in Seq(UsbEntries) /\ Len(batch') = l + 1 /\ batch'[l + 1] = e
        /\ \A i \in 1..l : /\ batch'[i] = batch[i] /\ i \in 1..l + 1 /\ i # l + 1
        /\ \A i \in 1..l + 1 : i \in 1..l \/ i = l + 1
    BY <1>1, <1>2, <1>7, UsbAppended
  <1> HIDE DEF p
  <1>9. UsbHand' /\ UsbRoom'
    <2>1. l + 1 = packets \/ l + 1 < packets
      BY <1>1, <1>2
    <2> QED BY <1>1, <1>2, <1>8, <2>1 DEF UsbHand, UsbRoom, UsbBatching, UsbCommitting
  <1>10. UsbQueue' /\ UsbWire' /\ UsbNext' = UsbNext
    <2>1. UsbQueue'
      BY <1>1 DEF UsbInv, UsbQueue
    <2>2. UsbNext' = UsbNext
      BY <1>1 DEF UsbNext
    <2>3. UsbUnsent' = UsbUnsent
      BY <1>1, <2>2 DEF UsbUnsent, UsbCommitting
    <2> QED BY <1>1, <2>1, <2>2, <2>3 DEF UsbInv, UsbWire
  <1>11. /\ \A i \in 1..l : UsbEntry(i)
         /\ Usb!Hole(batch) \/ \A i \in 1..l : UsbReach(i)
    BY <1>1 DEF UsbInv, UsbBatch, UsbBatching
  <1>12. /\ UsbNext <= e.id /\ e.id < UsbNext + (l + 1)
         /\ \A i \in 1..l, m \in Nat : m < UsbNext + i => m < e.id
    BY <1>2, <1>4, <1>7, NewEntry
  <1>13. ASSUME NEW i \in 1..l + 1 PROVE UsbEntry(i)'
    <2>1. CASE i \in 1..l
      <3>1. /\ batch'[i] = batch[i] /\ batch[i].id < UsbNext + i /\ batch[i].id < e.id
            /\ \A j \in 1..l : i < j => batch[i].id < batch[j].id
            /\ torn \/ Below(wire, batch[i].id)
        BY <1>5, <1>8, <1>11, <1>12, <2>1 DEF UsbEntry
      <3>2. \A j \in 1..l + 1 : i < j => batch[i].id < batch'[j].id
        BY <1>8, <3>1
      <3> QED BY <1>1, <1>8, <1>10, <3>1, <3>2 DEF UsbEntry
    <2>2. CASE i = l + 1
      <3>1. torn \/ Below(wire, e.id)
        <4>1. torn \/ Below(wire, UsbNext)
          BY <1>1 DEF UsbInv, UsbWire, UsbUnsent, UsbCommitting
        <4>2. wire \in Seq(Nat) /\ e.id \in Int
          BY <1>2, <1>4, <1>7 DEF UsbCallTypes
        <4> QED BY <1>2, <1>12, <4>1, <4>2, RaiseBelow
      <3>2. \A j \in 1..l + 1 : ~(i < j)
        BY <1>2, <2>2
      <3> QED BY <1>1, <1>8, <1>10, <1>12, <2>2, <3>1, <3>2 DEF UsbEntry
    <2> QED BY <1>8, <2>1, <2>2
  <1>14. ASSUME ~Usb!Hole(batch'), NEW i \in 1..l + 1 PROVE UsbReach(i)'
    <2>1. \A j \in 1..l : j + 1 \in 1..l + 1 /\ j \in 1..(l + 1) - 1
      BY <1>2
    <2>2. \A j \in 1..l : batch'[j + 1].id = batch'[j].id + 1
      BY <1>8, <1>14, <2>1 DEF Usb!Hole
    <2>3. ~Usb!Hole(batch)
      <3>1. \A j \in 1..l - 1 : j \in 1..l /\ j + 1 \in 1..l
        BY <1>2
      <3> QED BY <1>8, <2>2, <3>1 DEF Usb!Hole
    <2>4. CASE i \in 1..l
      BY <1>1, <1>8, <1>11, <2>3, <2>4 DEF UsbReach
    <2>5. CASE i = l + 1
      <3>1. UsbEnd(packetQueue, l + 1) <= e.upto
        <4>1. CASE l = 0
          <5>1. UsbEnd(packetQueue, 1) = (p.start + p.size) - p.start /\ packetQueue[1].start = p.start
            BY <4>1 DEF UsbEnd, p
          <5>2. (p.start + p.size) - p.start <= 0 + p.size
            BY <1>4
          <5> QED BY <1>6, <1>7, <4>1, <5>1, <5>2
        <4>2. CASE l # 0
          <5>1. l \in 1..l /\ l \in 1..Len(packetQueue) /\ l # Len(packetQueue)
            BY <1>2, <1>3, <4>2
          <5>2. /\ packetQueue[l].id + 1 = UsbNext + l /\ packetQueue[l].start \in Nat
                /\ packetQueue[l].size \in Nat /\ packetQueue[l].data # NULL
                /\ packetQueue[l].id \in Nat
            BY <1>1, <5>1, UsbPlace
          <5>3. e.id = batch[l].id + 1
            BY <1>8, <2>2, <5>1
          <5>4. packetQueue[l].id = batch[l].id
            <6> DEFINE n == packetQueue[l].id
                       b == batch[l].id
            <6>1. /\ n \in Nat /\ b \in Nat /\ e.id \in Nat /\ n + 1 = UsbNext + l
                  /\ e.id + 1 = UsbNext + (l + 1) /\ e.id = b + 1 /\ l \in Nat
                  /\ UsbNext \in Int
              BY <1>2, <1>4, <1>5, <1>7, <5>1, <5>2, <5>3
            <6> HIDE DEF n, b, l
            <6>2. n = b
              BY <6>1, SamePlace
            <6> QED BY <6>2 DEF n, b
          <5>5. UsbEnd(packetQueue, l) <= batch[l].upto
            BY <1>11, <2>3, <5>1, <5>4 DEF UsbReach, Reaches
          <5>6. packetQueue[l].start + packetQueue[l].size = p.start
            BY <5>1, <5>2 DEF UsbInv, UsbQueue, Flowing, p
          <5>7. ((packetQueue[l].start + packetQueue[l].size) + p.size) - packetQueue[1].start
                   <= batch[l].upto + p.size
            BY <1>4, <1>5, <5>1, <5>2, <5>5, EndAfter DEF UsbEnd
          <5> QED BY <1>6, <1>7, <4>2, <5>6, <5>7 DEF UsbEnd, p
        <4> QED BY <4>1, <4>2
      <3>2. ASSUME NEW k \in 1..Len(packetQueue), packetQueue[k].id = e.id PROVE k = l + 1
        <4>1. packetQueue[k].id + 1 = UsbNext + k
          BY UsbPlace
        <4> QED BY <1>2, <1>4, <1>7, <3>2, <4>1, OnePlace
      <3>3. Reaches(packetQueue, e.id, e.upto)
        BY <3>1, <3>2 DEF Reaches
      <3> QED BY <1>1, <1>8, <2>5, <3>3 DEF UsbReach
    <2> QED BY <1>8, <2>4, <2>5
  <1>15. UsbBatch'
    BY <1>8, <1>13, <1>14 DEF UsbBatch, Usb!Hole
  <1>16. UsbQueueTypes'
    BY <1>1, <1>2 DEF UsbQueueTypes
  <1>17. UsbTimeTypes'
    BY <1>1, <1>2 DEF UsbTimeTypes
  <1>18. UsbCallTypes'
    <2>1. senderPc' \in UsbPcs
      BY <1>1 DEF UsbPcs
    <2> QED BY <1>1, <1>2, <1>8, <2>1 DEF UsbCallTypes
  <1> QED BY <1>9, <1>10, <1>15, <1>16, <1>17, <1>18, UsbTypes DEF UsbInv

-----------------------------------------------------------------------------
(* Bulk mode: the batch is written, or a part of it                         *)

(* What the copied batch is, when it is written. *)
LEMMA UsbGathered ==
    ASSUME UsbInv, senderPc = "send"
    PROVE  /\ batch \in Seq(UsbEntries) /\ Len(batch) = packets /\ packets \in Nat
           /\ packets >= 1 /\ packets <= Len(packetQueue) /\ packets <= BATCH_N_PACKETS
           /\ BATCH_N_PACKETS \in Nat /\ Len(packetQueue) \in Nat /\ UsbNext \in Int
           /\ \A i \in 1..Len(batch) : /\ UsbEntry(i) /\ batch[i].id \in Nat /\ batch[i].upto \in Nat
           /\ Usb!Hole(batch) \/ \A i \in 1..Len(batch) : UsbReach(i)
           /\ Usb!Bytes(batch) \in Nat
  <1>1. /\ batch \in Seq(UsbEntries) /\ packets \in 0..BATCH_N_PACKETS /\ BATCH_N_PACKETS \in Nat
        /\ Len(packetQueue) \in Nat /\ UsbNext \in Int
    BY UsbKnows, UsbConstants DEF UsbCallTypes
  <1>2. Len(batch) = packets /\ packets >= 1 /\ packets <= Len(packetQueue)
    BY DEF UsbInv, UsbHand, UsbBatching
  <1>3. /\ \A i \in 1..Len(batch) : UsbEntry(i)
        /\ Usb!Hole(batch) \/ \A i \in 1..Len(batch) : UsbReach(i)
    BY DEF UsbInv, UsbBatch, UsbBatching
  <1>4. \A i \in 1..Len(batch) : batch[i].id \in Nat /\ batch[i].upto \in Nat
    <2>1. \A i \in 1..Len(batch) : batch[i] \in UsbEntries
      BY <1>1, ElementOfSeq
    <2> QED BY <2>1 DEF UsbEntries
  <1>5. Usb!Bytes(batch) \in Nat
    <2>1. batch # <<>> => Len(batch) \in 1..Len(batch)
      BY <1>1
    <2> QED BY <1>4, <2>1, ZeroIn DEF Usb!Bytes
  <1>6. packets \in Nat /\ packets <= BATCH_N_PACKETS
    BY <1>1
  <1> QED BY <1>1, <1>2, <1>3, <1>4, <1>5, <1>6

LEMMA LastPlace ==
    \A m, i, p \in Nat : \A next \in Int : m < next + i /\ i <= p => m < next + p
  OBVIOUS

LEMMA UsbSendBatchInv ==
    ASSUME UsbInv, Usb!SendBatch
    PROVE  UsbInv'
  <1>1. /\ UNCHANGED <<packetQueue, currentQueueBytes, totalSent, totalDropped, maxQueueDepth,
                       accepted, streamEnd, live, detects, usbBlocked, lastAvailable, unchanged,
                       window, lastBulkMode, bulk, offered, torn>>
        /\ senderPc = "send" /\ Usb!Bytes(batch) <= Usb!Available
    BY DEF Usb!SendBatch, Usb!queueVars, Usb!detection, Usb!modes, Usb!output, Usb!Constant,
           Usb!Returns, Usb!call, Usb!Fits
  <1>2. /\ UsbQueueTypes /\ UsbCallTypes /\ UsbTimeTypes /\ torn \in BOOLEAN
    BY UsbKnows DEF UsbCallTypes
  <1>3. CASE /\ senderPc' = "idle" /\ Usb!Returns /\ Usb!ApplyBackoff /\ UNCHANGED <<used, wire>>
    <2>1. senderPc' \in UsbPlain /\ item' = 0 /\ packets' = 0 /\ batch' = <<>>
      BY <1>3 DEF UsbPlain, Usb!Returns
    <2>2. senderPc \notin {"pop", "clear pop"} /\ senderPc \notin UsbCommitting
      BY <1>1 DEF UsbCommitting
    <2> QED BY <1>1, <1>3, <2>1, <2>2, UsbReturnInv
  <1>4. CASE /\ Usb!Taken(batch, Usb!Bytes(batch)) /\ Usb!ResetBackoff
             /\ senderPc' = "commit" /\ UNCHANGED <<item, batch, packets>>
    <2> DEFINE n == Usb!Bytes(batch)
    <2>1. /\ batch \in Seq(UsbEntries) /\ Len(batch) = packets /\ packets \in Nat
          /\ packets >= 1 /\ packets <= Len(packetQueue) /\ packets <= BATCH_N_PACKETS
          /\ BATCH_N_PACKETS \in Nat /\ UsbNext \in Int /\ n \in Nat
          /\ \A i \in 1..Len(batch) : /\ UsbEntry(i) /\ batch[i].id \in Nat
      BY <1>1, UsbGathered
    <2>t. Usb!Taken(batch, n) /\ n <= HostSpace - used
      BY <1>1, <1>4, UsbAvailable
    <2> HIDE DEF n
    <2>2. ~torn => UsbSendable(batch, n, UsbNext + packets')
      <3> SUFFICES ASSUME ~torn PROVE UsbSendable(batch, n, UsbNext + packets)
        BY <1>4
      <3>1. \A i \in 1..Len(batch) : /\ batch[i].id < UsbNext + i /\ batch[i].id \in Nat
                                     /\ i \in Nat /\ i <= packets /\ Below(wire, batch[i].id)
        BY <2>1 DEF UsbEntry
      <3>2. \A i \in 1..Len(batch) : batch[i].id < UsbNext + packets
        BY <2>1, <3>1, LastPlace
      <3>3. \A i, j \in 1..Len(batch) : i < j => batch[i].id < batch[j].id
        BY <2>1 DEF UsbEntry
      <3> QED BY <3>1, <3>2, <3>3 DEF UsbSendable
    <2>3. packets' \in Nat /\ packets' <= Len(packetQueue) /\ packets' \in 0..BATCH_N_PACKETS
      BY <1>4, <2>1
    <2>4. /\ torn' \in BOOLEAN /\ senderPc \in {"write", "send"}
          /\ torn' \/ (UsbSendable(batch, n, UsbNext + packets') /\ ~torn)
      BY <1>1, <1>2, <2>2
    <2> QED BY <1>1, <1>4, <2>1, <2>t, <2>3, <2>4, UsbSentInv
  <1> QED BY <1>3, <1>4 DEF Usb!SendBatch, Usb!output, Usb!call

LEMMA EndType == \A a, s, f \in Nat : (a + s) - f \in Int
  OBVIOUS

LEMMA BeyondPlace ==
    ASSUME NEW m \in Nat, NEW next \in Int, NEW i \in Nat, NEW len \in Nat, NEW n \in Nat,
           m < next + i, i <= len, ~(m < next + n), n >= 1
    PROVE  /\ (m - next) + 1 \in 1..len /\ n < (m - next) + 1
           /\ \A id \in Nat : id + 1 = next + ((m - next) + 1) => id = m
  OBVIOUS

(* The packets that end within the first n of the queue are of these n. *)
LEMMA UsbWithin ==
    ASSUME UsbInv, senderPc = "send", ~Usb!Hole(batch), NEW n \in 1..packets,
           NEW i \in 1..Len(batch), batch[i].upto <= UsbEnd(packetQueue, n)
    PROVE  batch[i].id < UsbNext + n
  <1>1. /\ Len(batch) = packets /\ packets \in Nat /\ packets <= Len(packetQueue)
        /\ Len(packetQueue) \in Nat /\ UsbNext \in Int /\ UsbEntry(i) /\ UsbReach(i)
        /\ batch[i].id \in Nat /\ batch[i].upto \in Nat
    BY UsbGathered
  <1> SUFFICES ASSUME ~(batch[i].id < UsbNext + n) PROVE FALSE
    OBVIOUS
  <1> DEFINE m == batch[i].id
             k == (m - UsbNext) + 1
             last == batch[i].upto
             f == UsbEnd(packetQueue, n)
             g == UsbEnd(packetQueue, k)
  <1>2. m < UsbNext + i /\ m \in Nat /\ i \in Nat /\ n \in Nat /\ n >= 1 /\ i <= Len(packetQueue)
        /\ n \in 1..Len(packetQueue) /\ ~(m < UsbNext + n)
    BY <1>1 DEF UsbEntry
  <1> HIDE DEF m
  <1>3. /\ k \in 1..Len(packetQueue) /\ n < k
        /\ \A id \in Nat : id + 1 = UsbNext + k => id = m
    BY <1>1, <1>2, BeyondPlace
  <1> HIDE DEF k
  <1>4. packetQueue[k].id = m
    <2>1. packetQueue[k].id \in Nat /\ packetQueue[k].id + 1 = UsbNext + k
      BY <1>3, UsbPlace
    <2> QED BY <1>3, <2>1
  <1>5. g <= last
    BY <1>1, <1>3, <1>4 DEF UsbReach, Reaches, m
  <1>6. f < g
    BY <1>2, <1>3, UsbFarther
  <1>7. f \in Int /\ g \in Int /\ last \in Nat /\ last <= f
    <2>1. /\ packetQueue[k].start \in Nat /\ packetQueue[k].size \in Nat
          /\ packetQueue[n].start \in Nat /\ packetQueue[n].size \in Nat
          /\ packetQueue[1].start \in Nat
      BY <1>2, <1>3, UsbPlace
    <2>2. f \in Int
      BY <2>1, EndType DEF UsbEnd
    <2>3. g \in Int
      BY <2>1, EndType DEF UsbEnd
    <2> QED BY <1>1, <2>2, <2>3
  <1> HIDE DEF f, g, last
  <1> QED BY <1>5, <1>6, <1>7

LEMMA UsbSendPartInv ==
    ASSUME UsbInv, Usb!SendPart
    PROVE  UsbInv'
  <1>1. /\ UNCHANGED <<packetQueue, currentQueueBytes, totalSent, totalDropped, maxQueueDepth,
                       accepted, streamEnd, live, detects, usbBlocked, lastAvailable, unchanged,
                       lastBulkMode, bulk, offered>>
        /\ senderPc = "send"
    BY DEF Usb!SendPart, Usb!queueVars, Usb!detection, Usb!Constant, Usb!Returns
  <1>2. /\ UsbQueueTypes /\ UsbCallTypes /\ UsbTimeTypes /\ torn \in BOOLEAN
    BY UsbKnows DEF UsbCallTypes
  <1>3. CASE /\ senderPc' = "idle" /\ Usb!Returns
             /\ UNCHANGED <<backoffDelay, sinceAttempt, used, wire, torn>>
             /\ window' = window \/ window' = Unset
    <2>1. senderPc' \in UsbPlain /\ item' = 0 /\ packets' = 0 /\ batch' = <<>>
      BY <1>3 DEF UsbPlain, Usb!Returns
    <2>2. senderPc \notin {"pop", "clear pop"} /\ senderPc \notin UsbCommitting
      BY <1>1 DEF UsbCommitting
    <2> QED BY <1>1, <1>3, <2>1, <2>2, UsbReturnInv
  <1>4. ASSUME NEW n \in 1..packets, Usb!Room(n), Usb!Taken(batch, Usb!Prefix(n)), packets' = n,
               torn' = (torn \/ Usb!Hole(batch)), Usb!ResetBackoff, senderPc' = "commit",
               UNCHANGED <<item, batch, window>>
        PROVE  UsbInv'
    <2> DEFINE bytes == Usb!Prefix(n)
    <2>1. /\ batch \in Seq(UsbEntries) /\ Len(batch) = packets /\ packets \in Nat
          /\ packets <= Len(packetQueue) /\ packets <= BATCH_N_PACKETS
          /\ BATCH_N_PACKETS \in Nat /\ Len(packetQueue) \in Nat /\ UsbNext \in Int
          /\ \A i \in 1..Len(batch) : UsbEntry(i)
      BY <1>1, UsbGathered
    <2>2. n \in Nat /\ n # 0 /\ n \in 1..Len(packetQueue)
      BY <1>4, <2>1
    <2>3. bytes = UsbEnd(packetQueue, n)
      BY <2>2 DEF UsbEnd, Usb!Prefix
    <2>4. bytes \in Nat
      <3>1. /\ packetQueue[n].start \in Nat /\ packetQueue[n].size \in Nat
            /\ packetQueue[1].start \in Nat
        BY <2>2, UsbPlace
      <3>2. bytes > 0
        BY <1>4 DEF Usb!Taken
      <3>3. bytes \in Int
        BY <2>3, <3>1 DEF UsbEnd
      <3> QED BY <3>2, <3>3
    <2>5. Usb!Taken(batch, bytes) /\ bytes <= HostSpace - used
      BY <1>4, UsbAvailable DEF Usb!Room, Usb!Fits
    <2> HIDE DEF bytes
    <2>6. ~torn' => UsbSendable(batch, bytes, UsbNext + packets')
      <3> SUFFICES ASSUME ~torn, ~Usb!Hole(batch) PROVE UsbSendable(batch, bytes, UsbNext + n)
        BY <1>4
      <3>1. \A i \in 1..Len(batch) : batch[i].upto <= bytes => batch[i].id < UsbNext + n
        BY <1>1, <1>4, <2>3, UsbWithin
      <3>2. \A i, j \in 1..Len(batch) : i < j => batch[i].id < batch[j].id
        BY <2>1 DEF UsbEntry
      <3>3. \A i \in 1..Len(batch) : Below(wire, batch[i].id)
        BY <2>1 DEF UsbEntry
      <3> QED BY <3>1, <3>2, <3>3 DEF UsbSendable
    <2>7. packets' \in Nat /\ packets' <= Len(packetQueue) /\ packets' \in 0..BATCH_N_PACKETS
      BY <1>4, <2>1, <2>2
    <2>8. torn' \in BOOLEAN /\ senderPc \in {"write", "send"} /\ (torn => torn')
      BY <1>1, <1>4
    <2>9. torn' \/ (UsbSendable(batch, bytes, UsbNext + packets') /\ ~torn)
      BY <2>6, <2>8
    <2> QED BY <1>1, <1>4, <2>1, <2>4, <2>5, <2>7, <2>8, <2>9, UsbSentInv
  <1>5. \/ \E n \in 1..packets : /\ Usb!Room(n) /\ Usb!Taken(batch, Usb!Prefix(n)) /\ packets' = n
                                 /\ torn' = (torn \/ Usb!Hole(batch)) /\ Usb!ResetBackoff
                                 /\ senderPc' = "commit" /\ UNCHANGED <<item, batch, window>>
        \/ /\ senderPc' = "idle" /\ Usb!Returns
           /\ UNCHANGED <<backoffDelay, sinceAttempt, used, wire, torn>>
           /\ window' = window \/ window' = Unset
    BY DEF Usb!SendPart, Usb!backoff, Usb!output
  <1> QED BY <1>3, <1>4, <1>5

-----------------------------------------------------------------------------
(* The theorems of the USB sender                                           *)

LEMMA UsbInit == Usb!Init => UsbInv
  <1> SUFFICES ASSUME Usb!Init PROVE UsbInv
    OBVIOUS
  <1>1. /\ packetQueue = <<>> /\ currentQueueBytes = 0 /\ totalSent = 0 /\ totalDropped = 0
        /\ maxQueueDepth = 0 /\ accepted = 0 /\ streamEnd = 0 /\ live = {}
        /\ detects \in BOOLEAN /\ usbBlocked = FALSE /\ lastAvailable = 0 /\ unchanged = Unset
        /\ backoffDelay = 0 /\ sinceAttempt = 0 /\ window = Unset /\ lastBulkMode = FALSE
        /\ senderPc = "idle" /\ bulk = FALSE /\ item = 0 /\ batch = <<>> /\ packets = 0
        /\ used = 0 /\ offered = 0 /\ wire = <<>> /\ torn = FALSE
    BY DEF Usb!Init, Usb!QueueInit
  <1>2. /\ HostSpace \in Nat /\ USB_BLOCKED_TIMEOUT_MS \in Nat /\ BATCH_T_MS_BULK \in Nat
        /\ MAX_BACKOFF \in Nat /\ BATCH_N_PACKETS \in Nat /\ MaxQueuePackets \in Nat
        /\ Usb!Packet = Packet
    BY UsbConstants
  <1>3. \A S : <<>> \in Seq(S) /\ Len(<<>>) = 0 /\ 1..0 = {}
    OBVIOUS
  <1>4. /\ 0 \in 0..(SizeMod - 1) /\ 0 \in 0..HostSpace /\ 0 \in 0..MAX_BACKOFF
        /\ 0 \in 0..BATCH_N_PACKETS /\ 0 <= MaxQueuePackets
    BY <1>2, ZeroIn
  <1>5. Usb!UsbTypeOK
    <2>1. /\ packetQueue \in Seq(Usb!Packet) /\ Len(packetQueue) <= MaxQueuePackets
          /\ currentQueueBytes \in 0..(SizeMod - 1)
      BY <1>1, <1>2, <1>3, <1>4
    <2>2. /\ {totalSent, totalDropped, maxQueueDepth, accepted, streamEnd, item, offered} \subseteq Nat
          /\ live \subseteq Nat /\ {detects, usbBlocked, bulk, lastBulkMode} \subseteq BOOLEAN
      BY <1>1, ZeroIn
    <2>3. /\ lastAvailable \in 0..HostSpace /\ used \in 0..HostSpace
          /\ unchanged \in 0..(USB_BLOCKED_TIMEOUT_MS + 1) \cup {Unset}
          /\ window \in 0..BATCH_T_MS_BULK \cup {Unset}
          /\ {backoffDelay, sinceAttempt} \subseteq 0..MAX_BACKOFF
      BY <1>1, <1>4
    <2>4. /\ senderPc \in UsbPcs /\ batch \in Seq(UsbEntries)
          /\ packets \in 0..BATCH_N_PACKETS /\ wire \in Seq(Nat) /\ torn \in BOOLEAN
      BY <1>1, <1>3, <1>4 DEF UsbPcs
    <2> QED BY <2>1, <2>2, <2>3, <2>4 DEF Usb!UsbTypeOK, UsbEntries, UsbPcs
  <1>6. UsbQueue
    BY <1>1, <1>3 DEF UsbQueue, Loose, Numbered, Flowing, Kept
  <1>7. UsbHand /\ UsbRoom /\ UsbBatch
    BY <1>1 DEF UsbHand, UsbRoom, UsbBatch, UsbBatching, UsbCommitting
  <1>8. UsbWire
    BY <1>1, <1>3 DEF UsbWire, Rising, Below
  <1> QED BY <1>5, <1>6, <1>7, <1>8 DEF UsbInv

LEMMA UsbStep == UsbInv /\ [Usb!Next]_Usb!vars => UsbInv'
  <1> SUFFICES ASSUME UsbInv, [Usb!Next]_Usb!vars PROVE UsbInv'
    OBVIOUS
  <1>1. ASSUME NEW size \in OfferedSizes, Usb!Enqueue(size) PROVE UsbInv'
    BY <1>1, UsbEnqueueInv
  <1>2. CASE Usb!SenderCall
    BY <1>2, UsbCallInv
  <1>3. CASE Usb!ClearFree \/ Usb!ClearPop
    BY <1>3, UsbClearInv
  <1>4. CASE Usb!ClearTest \/ Usb!ClearEnd
    BY <1>4, UsbClearEndInv
  <1>5. CASE Usb!SingleFront
    BY <1>5, UsbSingleFrontInv
  <1>6. CASE Usb!SingleFit
    BY <1>6, UsbSingleFitInv
  <1>7. CASE Usb!SingleWrite
    BY <1>7, UsbSingleWriteInv
  <1>8. CASE Usb!Plan
    BY <1>8, UsbPlanInv
  <1>9. CASE Usb!Flush
    BY <1>9, UsbFlushInv
  <1>10. CASE Usb!CopyNext
    BY <1>10, UsbCopyNextInv
  <1>11. CASE Usb!SendBatch
    BY <1>11, UsbSendBatchInv
  <1>12. CASE Usb!SendPart
    BY <1>12, UsbSendPartInv
  <1>13. CASE Usb!CommitCount
    BY <1>13, UsbCommitCountInv
  <1>14. CASE Usb!CommitFree \/ Usb!CommitPop
    BY <1>14, UsbCommitPopInv
  <1>15. CASE Usb!CommitEnd
    BY <1>15, UsbCommitEndInv
  <1>16. CASE Usb!ModeChanges \/ Usb!HostTakes \/ UNCHANGED Usb!vars
    BY <1>16, UsbOtherInv
  <1> QED BY <1>1, <1>2, <1>3, <1>4, <1>5, <1>6, <1>7, <1>8, <1>9, <1>10, <1>11, <1>12, <1>13,
             <1>14, <1>15, <1>16 DEF Usb!Next, Usb!Bridge, Usb!Sender

(* Whatever the sizes, the limits and the times are, and however the bridge *)
(* task's enqueue() falls between the steps of the USB sender: its state    *)
(* stays well formed, and nothing is written that the host's buffer, asked  *)
(* for its room steps before, does not take (usb_sender.h:99-103, :292-301).*)
THEOREM UsbTypeCorrect == Usb!Spec => []UsbTypeOK
  <1>1. Usb!Init => UsbInv
    BY UsbInit
  <1>2. UsbInv /\ [Usb!Next]_Usb!vars => UsbInv'
    BY UsbStep
  <1>3. UsbInv => UsbTypeOK
    BY DEF UsbInv, Usb!UsbTypeOK, UsbTypeOK, Usb!Packet, Packet
  <1> QED BY <1>1, <1>2, <1>3, PTL DEF Usb!Spec

(* Single packets and batches leave in the order they were accepted and none *)
(* is sent twice, though the packet in hand may be evicted, the batch may be *)
(* of packets that are gone and commitPackets() pops what is at the front by *)
(* then, unless a part of a batch with a hole was ever written               *)
(* (usb_sender.h:67-77, :216-245).                                           *)
THEOREM UsbSafe == Usb!Spec => []UsbInOrder
  <1>1. Usb!Init => UsbInv
    BY UsbInit
  <1>2. UsbInv /\ [Usb!Next]_Usb!vars => UsbInv'
    BY UsbStep
  <1>3. UsbInv => UsbInOrder
    BY DEF UsbInv, UsbWire, Rising, UsbInOrder
  <1> QED BY <1>1, <1>2, <1>3, PTL DEF Usb!Spec
=============================================================================
