------------------------- MODULE PacketSender_proofs -------------------------
(***************************************************************************)
(* What popping the oldest packet and pushing a new one preserve, for any  *)
(* queue a sender can hold.  The proofs about the senders rest on the two  *)
(* lemmas PopShape and PushShape; without a lock only the numbers of the   *)
(* packets can be relied on (TailNumbered, ShiftNumbered).                 *)
(***************************************************************************)
EXTENDS PacketSender, SequenceTheorems, TLAPS

(***************************************************************************)
(* A well-formed queue q with byte counter bytes: its packets carry the    *)
(* consecutive acceptance numbers up to acc, none is freed or oversized,   *)
(* they cover the accepted bytes up to end without a gap, bytes is the     *)
(* length of that stretch, and mem is the set of their copies.             *)
(***************************************************************************)
Numbered(q, acc) ==
    \A i \in 1..Len(q) : q[i].id + Len(q) = acc + i

Intact(q) ==
    \A i \in 1..Len(q) : q[i].data # NULL /\ q[i].size \in 1..MaxPacketSize

Gapless(q, end) ==
    \A i \in 1..Len(q) :
        q[i].start + q[i].size = IF i = Len(q) THEN end ELSE q[i + 1].start

(* At most MaxPacketSize bytes for each packet from i on. *)
Spread(q, end) ==
    \A i \in 1..Len(q) :
        /\ q[i].start + q[i].size <= end
        /\ end <= q[i].start + (Len(q) - i + 1) * MaxPacketSize

FirstByte(q, end) == IF q = <<>> THEN end ELSE q[1].start

Owned(q) == {q[i].id : i \in 1..Len(q)}

Shape(q, bytes, end, acc, mem) ==
    /\ q \in Seq(Packet)
    /\ Len(q) <= acc
    /\ Numbered(q, acc)
    /\ Intact(q)
    /\ Gapless(q, end)
    /\ Spread(q, end)
    /\ bytes \in Nat
    /\ FirstByte(q, end) + bytes = end
    /\ mem = Owned(q)

LEMMA PacketFields ==
    ASSUME NEW p \in Packet
    PROVE  /\ p.id \in Nat
           /\ p.size \in Nat
           /\ p.data \in Nat
           /\ p.start \in Nat
  BY DEF Packet

LEMMA ProductMonotonic ==
    ASSUME NEW a \in Nat, NEW b \in Nat, NEW m \in Nat, a <= b
    PROVE  a * m <= b * m
  <1>1. PICK d \in Nat : b = a + d
    <2>1. b - a \in Nat /\ b = a + (b - a)
      OBVIOUS
    <2> QED BY <2>1
  <1>2. b * m = a * m + d * m
    BY <1>1
  <1>3. d * m \in Nat /\ a * m \in Nat
    OBVIOUS
  <1> QED BY <1>2, <1>3

(* The byte counter of a well-formed queue fits in size_t with room to     *)
(* spare, so neither counting up nor counting down wraps.                  *)
LEMMA BytesFit ==
    ASSUME NEW q, NEW bytes, NEW end \in Nat, NEW acc \in Nat, NEW mem,
           Shape(q, bytes, end, acc, mem),
           Len(q) <= MaxQueuePackets
    PROVE  bytes <= Len(q) * MaxPacketSize
  <1>1. CASE q = <<>>
    BY <1>1, LimitsAssumption DEF Shape, FirstByte
  <1>2. CASE q # <<>>
    <2>1. Len(q) \in Nat /\ 1 \in 1..Len(q) /\ q[1] \in Packet
      BY <1>2 DEF Shape
    <2>2. end <= q[1].start + (Len(q) - 1 + 1) * MaxPacketSize
      BY <2>1 DEF Shape, Spread
    <2>3. (Len(q) - 1 + 1) * MaxPacketSize = Len(q) * MaxPacketSize
      BY <2>1, LimitsAssumption
    <2>4. q[1].start + bytes = end /\ q[1].start \in Nat /\ bytes \in Nat
      BY <1>2, <2>1 DEF Shape, FirstByte, Packet
    <2>5. Len(q) * MaxPacketSize \in Nat
      BY <2>1, LimitsAssumption
    <2> QED BY <2>2, <2>3, <2>4, <2>5
  <1> QED BY <1>1, <1>2

(* Popping the front packet: commitPackets(1) and dropOldestPacket().      *)
LEMMA PopShape ==
    ASSUME NEW q, NEW bytes, NEW end \in Nat, NEW acc \in Nat, NEW mem,
           Shape(q, bytes, end, acc, mem),
           q # <<>>
    PROVE  /\ Shape(Tail(q), SizeSub(bytes, Head(q).size), end, acc,
                    mem \ {Head(q).id})
           /\ Len(Tail(q)) = Len(q) - 1
  <1> DEFINE t == Tail(q)
             n == Len(q)
  <1>1. /\ q \in Seq(Packet)
        /\ n \in Nat /\ n > 0
        /\ t \in Seq(Packet)
        /\ Len(t) = n - 1
        /\ \A i \in 1..Len(t) : t[i] = q[i + 1]
        /\ Head(q) = q[1]
    BY DEF Shape
  <1>2. \A i \in 1..n : /\ q[i].id \in Nat
                         /\ q[i].size \in Nat
                         /\ q[i].start \in Nat
    BY <1>1, PacketFields
  <1>len. n \in Nat /\ n > 0 /\ Len(t) = n - 1
    BY <1>1
  <1>shape. /\ \A i \in 1..n : q[i].id + n = acc + i
        /\ mem = {q[i].id : i \in 1..n}
    BY DEF Shape, Numbered, Owned
  <1> HIDE DEF t, n
  <1>3. \A i \in 1..Len(t) : i + 1 \in 1..n
    BY <1>1
  <1>4. Numbered(t, acc)
    <2> SUFFICES ASSUME NEW i \in 1..Len(t)
                 PROVE  t[i].id + Len(t) = acc + i
      BY DEF Numbered
    <2>1. t[i] = q[i + 1] /\ i + 1 \in 1..n
      BY <1>1, <1>3
    <2>2. q[i + 1].id + n = acc + (i + 1) /\ q[i + 1].id \in Nat
      BY <2>1, <1>2, <1>shape
    <2>3. t[i].id + n = acc + (i + 1) /\ t[i].id \in Nat
      BY <2>1, <2>2
    <2>4. Len(t) = n - 1 /\ n \in Nat /\ i \in Nat
      BY <1>len
    <2> HIDE DEF n
    <2> QED BY <2>3, <2>4
  <1>5. Intact(t)
    BY <1>1, <1>3 DEF Shape, Intact, n
  <1>6. Gapless(t, end)
    <2> SUFFICES ASSUME NEW i \in 1..Len(t)
                 PROVE  t[i].start + t[i].size =
                            IF i = Len(t) THEN end ELSE t[i + 1].start
      BY DEF Gapless
    <2>1. /\ i + 1 \in 1..n
          /\ t[i] = q[i + 1]
          /\ i = Len(t) <=> i + 1 = n
          /\ i # Len(t) => t[i + 1] = q[(i + 1) + 1]
      BY <1>1, <1>3
    <2>2. q[i + 1].start + q[i + 1].size =
              IF i + 1 = n THEN end ELSE q[(i + 1) + 1].start
      BY <2>1 DEF Shape, Gapless, n
    <2> QED BY <2>1, <2>2
  <1>7. Spread(t, end)
    <2> SUFFICES ASSUME NEW i \in 1..Len(t)
                 PROVE  /\ t[i].start + t[i].size <= end
                        /\ end <= t[i].start
                                    + (Len(t) - i + 1) * MaxPacketSize
      BY DEF Spread
    <2>1. Len(t) - i + 1 = n - (i + 1) + 1
      BY <1>1
    <2> QED BY <1>1, <1>3, <2>1 DEF Shape, Spread, n
  <1>8. q[1].size \in Nat /\ q[1].start \in Nat /\ q[1].id \in Nat
    BY <1>1, <1>2
  <1>9. q[1].start + bytes = end /\ q[1].start + q[1].size <= end
        /\ bytes \in Nat
    BY <1>1, <1>8 DEF Shape, FirstByte, Spread, n
  <1>10. SizeSub(bytes, Head(q).size) = bytes - q[1].size
         /\ bytes - q[1].size \in Nat
    <2>1. Head(q) = q[1]
      BY <1>1
    <2>2. q[1].start + bytes = end /\ q[1].start + q[1].size <= end
          /\ bytes \in Nat /\ q[1].size \in Nat /\ q[1].start \in Nat /\ end \in Nat
      BY <1>8, <1>9
    <2>3. bytes >= q[1].size
      BY ONLY <2>2
    <2> QED BY <2>1, <2>2, <2>3 DEF SizeSub
  <1>11. FirstByte(t, end) = q[1].start + q[1].size
    <2>1. CASE n = 1
      BY <2>1, <1>1 DEF Shape, Gapless, FirstByte, n
    <2>2. CASE n > 1
      <3>1. t # <<>> /\ t[1] = q[2]
        BY <2>2, <1>1
      <3>2. q[1].start + q[1].size = q[2].start
        BY <2>2, <1>1 DEF Shape, Gapless, n
      <3> QED BY <3>1, <3>2 DEF FirstByte
    <2> QED BY <1>1, <2>1, <2>2
  <1>12. FirstByte(t, end) + SizeSub(bytes, Head(q).size) = end
    BY <1>8, <1>9, <1>10, <1>11
  <1>13. mem \ {Head(q).id} = Owned(t)
    <2>1. \A i \in 1..n : q[i].id = q[1].id => i = 1
      <3> SUFFICES ASSUME NEW i \in 1..n, q[i].id = q[1].id
                   PROVE  i = 1
        OBVIOUS
      <3>1. q[i].id + n = acc + i /\ q[1].id + n = acc + 1
            /\ q[i].id \in Nat
        BY <1>len, <1>2, <1>shape
      <3>2. acc + i = acc + 1
        BY <3>1
      <3> QED BY <3>2, <1>len
    <2>2. \A i \in 1..n : i # 1 => i - 1 \in 1..Len(t) /\ t[i - 1] = q[i]
      BY <1>1
    <2>3. Owned(t) = {t[i].id : i \in 1..Len(t)} /\ Head(q).id = q[1].id
      BY <1>1 DEF Owned
    <2>4. Owned(t) \subseteq mem \ {Head(q).id}
      <3> SUFFICES ASSUME NEW i \in 1..Len(t)
                   PROVE  t[i].id \in mem \ {q[1].id}
        BY <2>3
      <3>1. i + 1 \in 1..n /\ i + 1 # 1 /\ t[i] = q[i + 1]
        BY <1>1, <1>3
      <3> QED BY <3>1, <2>1, <1>shape
    <2>5. mem \ {Head(q).id} \subseteq Owned(t)
      <3> SUFFICES ASSUME NEW i \in 1..n, q[i].id # q[1].id
                   PROVE  q[i].id \in Owned(t)
        BY <2>3, <1>shape
      <3>1. i - 1 \in 1..Len(t) /\ t[i - 1] = q[i]
        BY <2>2
      <3> QED BY <3>1, <2>3
    <2> QED BY <2>4, <2>5
  <1>14. Len(t) <= acc
    BY <1>1 DEF Shape, n
  <1> QED
    BY <1>1, <1>4, <1>5, <1>6, <1>7, <1>10, <1>12, <1>13, <1>14
    DEF Shape, t, n

(* Pushing a copy of a valid packet: the second half of enqueue().         *)
LEMMA PushShape ==
    ASSUME NEW q, NEW bytes, NEW end \in Nat, NEW acc \in Nat, NEW mem,
           NEW size \in 1..MaxPacketSize,
           Shape(q, bytes, end, acc, mem),
           Len(q) < MaxQueuePackets
    PROVE  LET copy == [id |-> acc + 1, size |-> size, data |-> acc + 1,
                        sendOffset |-> 0, start |-> end]
           IN  Shape(Append(q, copy), SizeAdd(bytes, size), end + size,
                     acc + 1, mem \cup {acc + 1})
  <1> DEFINE copy == [id |-> acc + 1, size |-> size, data |-> acc + 1,
                      sendOffset |-> 0, start |-> end]
             r == Append(q, copy)
             n == Len(q)
  <1>1. copy \in Packet
    BY LimitsAssumption DEF Packet
  <1>2. /\ q \in Seq(Packet)
        /\ n \in Nat
        /\ r \in Seq(Packet)
        /\ Len(r) = n + 1
        /\ \A i \in 1..n : r[i] = q[i]
        /\ r[n + 1] = copy
    BY <1>1 DEF Shape
  <1>3. \A i \in 1..n : /\ q[i].id \in Nat
                         /\ q[i].size \in Nat
                         /\ q[i].start \in Nat
    BY <1>2, PacketFields
  <1>4. \A i \in 1..Len(r) : i \in 1..n \/ i = n + 1
    BY <1>2
  <1>len. n \in Nat /\ Len(r) = n + 1
    BY <1>2
  <1> HIDE DEF r, n, copy
  <1>5. Numbered(r, acc + 1)
    <2> SUFFICES ASSUME NEW i \in 1..Len(r)
                 PROVE  r[i].id + Len(r) = (acc + 1) + i
      BY DEF Numbered
    <2>1. CASE i = n + 1
      BY <2>1, <1>2, <1>len DEF copy
    <2>2. CASE i \in 1..n
      <3>1. q[i].id + n = acc + i /\ q[i].id \in Nat /\ r[i] = q[i]
        BY <2>2, <1>2, <1>3 DEF Shape, Numbered, n
      <3>2. r[i].id + n = acc + i /\ r[i].id \in Nat
        BY <3>1
      <3> QED BY <3>2, <1>len, <2>2
    <2> QED BY <2>1, <2>2, <1>4
  <1>6. Intact(r)
    BY <1>2, <1>4, LimitsAssumption DEF Shape, Intact, n, copy, NULL
  <1>7. Gapless(r, end + size)
    <2> SUFFICES ASSUME NEW i \in 1..Len(r)
                 PROVE  r[i].start + r[i].size =
                            IF i = Len(r) THEN end + size ELSE r[i + 1].start
      BY DEF Gapless
    <2>1. CASE i = n + 1
      BY <2>1, <1>2 DEF copy
    <2>2. CASE i \in 1..n
      <3>1. i + 1 \in 1..n \/ (i = n /\ i + 1 = n + 1)
        BY <2>2, <1>2
      <3>2. r[i] = q[i] /\ i # Len(r)
        BY <2>2, <1>2
      <3>3. CASE i = n
        BY <3>2, <3>3, <2>2, <1>2 DEF Shape, Gapless, n, copy
      <3>4. CASE i + 1 \in 1..n
        BY <3>2, <3>4, <2>2, <1>2 DEF Shape, Gapless, n
      <3> QED BY <3>1, <3>3, <3>4
    <2> QED BY <2>1, <2>2, <1>4
  <1>8. Spread(r, end + size)
    <2> SUFFICES ASSUME NEW i \in 1..Len(r)
                 PROVE  /\ r[i].start + r[i].size <= end + size
                        /\ end + size <= r[i].start
                               + (Len(r) - i + 1) * MaxPacketSize
      BY DEF Spread
    <2>1. CASE i = n + 1
      <3>1. Len(r) - i + 1 = 1
        BY <2>1, <1>2
      <3> QED BY <2>1, <3>1, <1>2, LimitsAssumption DEF copy
    <2>2. CASE i \in 1..n
      <3> DEFINE k == n - i + 1
      <3>1. k \in Nat /\ Len(r) - i + 1 = k + 1
        BY <2>2, <1>2
      <3>2. (k + 1) * MaxPacketSize = k * MaxPacketSize + MaxPacketSize
            /\ k * MaxPacketSize \in Nat
        BY <3>1, LimitsAssumption
      <3>3. /\ q[i].start + q[i].size <= end
            /\ end <= q[i].start + k * MaxPacketSize
        BY <2>2 DEF Shape, Spread, n
      <3>4. r[i] = q[i] /\ q[i].start \in Nat /\ q[i].size \in Nat
        BY <2>2, <1>2, <1>3
      <3> DEFINE room == k * MaxPacketSize
      <3>5. r[i].start \in Nat /\ r[i].size \in Nat
            /\ r[i].start + r[i].size <= end
            /\ end <= r[i].start + room
        BY <3>3, <3>4
      <3>6. room \in Nat /\ (Len(r) - i + 1) * MaxPacketSize
                               = room + MaxPacketSize
        BY <3>1, <3>2
      <3>7. MaxPacketSize \in Nat /\ size \in Nat /\ size <= MaxPacketSize
        BY LimitsAssumption
      <3> DEFINE first == r[i].start
                 bytesOf == r[i].size
                 reach == (Len(r) - i + 1) * MaxPacketSize
      <3>8. /\ first \in Nat /\ bytesOf \in Nat
            /\ first + bytesOf <= end /\ end <= first + room
            /\ room \in Nat /\ reach = room + MaxPacketSize
        BY <3>5, <3>6
      <3> HIDE DEF k, room, first, bytesOf, reach
      <3>9. first + bytesOf <= end + size /\ end + size <= first + reach
        BY <3>7, <3>8
      <3> QED BY <3>9 DEF first, bytesOf, reach
    <2> QED BY <2>1, <2>2, <1>4
  <1>9. SizeAdd(bytes, size) = bytes + size /\ bytes \in Nat
    <2>1. bytes <= n * MaxPacketSize
      <3>1. Len(q) <= MaxQueuePackets
        BY <1>len, LimitsAssumption DEF n
      <3> QED BY <3>1, BytesFit DEF n
    <2>2. (n + 1) * MaxPacketSize <= MaxQueuePackets * MaxPacketSize
      BY <1>2, LimitsAssumption, ProductMonotonic DEF n
    <2>3. (n + 1) * MaxPacketSize = n * MaxPacketSize + MaxPacketSize
          /\ n * MaxPacketSize \in Nat
      BY <1>2, LimitsAssumption
    <2>4. MaxQueuePackets * MaxPacketSize \in Nat
      BY LimitsAssumption
    <2>5. bytes \in Nat
      BY DEF Shape
    <2>6. bytes + size < SizeMod
      BY <2>1, <2>2, <2>3, <2>4, <2>5, LimitsAssumption
    <2> QED BY <2>5, <2>6 DEF SizeAdd
  <1>10. FirstByte(r, end + size) = FirstByte(q, end)
    <2>1. r # <<>>
      BY <1>2
    <2>2. CASE n = 0
      <3>1. q = <<>> /\ r[1] = copy
        BY <2>2, <1>2 DEF n
      <3> QED BY <2>1, <3>1 DEF FirstByte, copy
    <2>3. CASE n > 0
      <3>1. q # <<>> /\ 1 \in 1..n
        BY <2>3, <1>2 DEF n
      <3> QED BY <2>1, <3>1, <1>2 DEF FirstByte
    <2> QED BY <1>2, <2>2, <2>3
  <1>11. FirstByte(q, end) \in Nat
    <2>1. CASE q = <<>>
      BY <2>1 DEF FirstByte
    <2>2. CASE q # <<>>
      <3>1. q[1].start \in Nat
        BY <2>2, <1>2, <1>3 DEF n
      <3> QED BY <2>2, <3>1 DEF FirstByte
    <2> QED BY <2>1, <2>2
  <1>12. FirstByte(r, end + size) + SizeAdd(bytes, size) = end + size
    BY <1>9, <1>10, <1>11 DEF Shape
  <1>13. mem \cup {acc + 1} = Owned(r)
    <2>1. \A i \in 1..n : i \in 1..Len(r) /\ r[i].id = q[i].id
      BY <1>2
    <2>2. n + 1 \in 1..Len(r) /\ r[n + 1].id = acc + 1
      BY <1>2 DEF copy
    <2>3. mem = {q[i].id : i \in 1..n}
      BY DEF Shape, Owned, n
    <2>4. Owned(r) = {r[i].id : i \in 1..Len(r)}
      BY DEF Owned
    <2>5. mem \cup {acc + 1} \subseteq Owned(r)
      BY <2>1, <2>2, <2>3, <2>4
    <2>6. Owned(r) \subseteq mem \cup {acc + 1}
      BY <2>1, <2>2, <2>3, <2>4, <1>4
    <2> QED BY <2>5, <2>6
  <1>14. Len(r) <= acc + 1
    BY <1>2 DEF Shape, n
  <1> QED
    BY <1>2, <1>5, <1>6, <1>7, <1>8, <1>9, <1>12, <1>13, <1>14
    DEF Shape, r, copy

-----------------------------------------------------------------------------
(* What the senders without a lock do to a queue whose counter may be wrong *)

(* Appending a packet, after taking away the first one or not. *)
LEMMA Shifted ==
    ASSUME NEW q \in Seq(Packet), NEW r, NEW c \in Packet, NEW d \in {0, 1}, d <= Len(q),
           r = Append(IF d = 0 THEN q ELSE Tail(q), c)
    PROVE  /\ r \in Seq(Packet) /\ Len(r) = Len(q) + 1 - d
           /\ \A i \in 1..Len(r) : IF i = Len(r) THEN r[i] = c
                                   ELSE i + d \in 1..Len(q) /\ r[i] = q[i + d]
  <1>1. CASE d = 0
    BY <1>1
  <1>2. CASE d = 1
    <2>1. /\ Tail(q) \in Seq(Packet) /\ Len(Tail(q)) = Len(q) - 1
          /\ \A i \in 1..Len(Tail(q)) : Tail(q)[i] = q[i + 1]
      BY <1>2
    <2> DEFINE t == Tail(q)
    <2>2. r = Append(t, c) /\ Len(q) \in Nat
      BY <1>2
    <2>3. t \in Seq(Packet) /\ Len(t) = Len(q) - 1 /\ \A i \in 1..Len(t) : t[i] = q[i + 1]
      BY <2>1
    <2> HIDE DEF t
    <2>4. /\ r \in Seq(Packet) /\ Len(r) = Len(t) + 1
          /\ \A i \in 1..Len(r) : r[i] = IF i = Len(r) THEN c ELSE t[i]
      BY <2>2, <2>3
    <2> QED BY <1>2, <2>2, <2>3, <2>4
  <1> QED BY <1>1, <1>2

LEMMA Popped ==
    ASSUME NEW q \in Seq(Packet), q # <<>>
    PROVE  /\ Tail(q) \in Seq(Packet) /\ Len(Tail(q)) = Len(q) - 1
           /\ \A i \in 1..Len(Tail(q)) : i + 1 \in 1..Len(q) /\ Tail(q)[i] = q[i + 1]
  OBVIOUS

(* The numbers stay consecutive. *)
LEMMA TailNumbered ==
    ASSUME NEW q \in Seq(Packet), NEW acc \in Nat, Numbered(q, acc), q # <<>>
    PROVE  Numbered(Tail(q), acc)
  <1> DEFINE r == Tail(q)
  <1>1. /\ Len(q) \in Nat /\ Len(r) = Len(q) - 1
        /\ \A i \in 1..Len(r) : i + 1 \in 1..Len(q) /\ r[i] = q[i + 1]
    BY Popped
  <1> HIDE DEF r
  <1> SUFFICES ASSUME NEW i \in 1..Len(r) PROVE r[i].id + Len(r) = acc + i
    BY DEF Numbered, r
  <1>2. i + 1 \in 1..Len(q) /\ r[i] = q[i + 1] /\ q[i + 1] \in Packet /\ i \in Nat
    BY <1>1, ElementOfSeq
  <1>3. r[i].id \in Nat /\ r[i].id + Len(q) = acc + (i + 1)
    BY <1>2, PacketFields DEF Numbered
  <1>4. Len(q) \in Nat /\ Len(r) = Len(q) - 1 /\ i \in Nat /\ acc \in Nat
    BY <1>1, <1>2
  <1> QED BY ONLY <1>3, <1>4

(* The place of a packet when d packets left the front and one came. *)
LEMMA Renumbered ==
    ASSUME NEW x \in Nat, NEW n \in Nat, NEW i \in Nat, NEW d \in Nat, NEW a \in Nat,
           x + n = a + (i + d)
    PROVE  x + (n + 1 - d) = (a + 1) + i
  OBVIOUS

LEMMA ShiftNumbered ==
    ASSUME NEW q \in Seq(Packet), NEW acc \in Nat, Numbered(q, acc), NEW c \in Packet,
           NEW d \in {0, 1}, d <= Len(q), c.id = acc + 1
    PROVE  Numbered(Append(IF d = 0 THEN q ELSE Tail(q), c), acc + 1)
  <1> DEFINE r == Append(IF d = 0 THEN q ELSE Tail(q), c)
  <1>1. /\ Len(q) \in Nat /\ Len(r) = Len(q) + 1 - d
        /\ \A i \in 1..Len(r) : IF i = Len(r) THEN r[i] = c
                                ELSE i + d \in 1..Len(q) /\ r[i] = q[i + d]
    BY Shifted
  <1> HIDE DEF r
  <1> SUFFICES ASSUME NEW i \in 1..Len(r) PROVE r[i].id + Len(r) = (acc + 1) + i
    BY DEF Numbered, r
  <1>2. CASE i = Len(r)
    BY <1>1, <1>2
  <1>3. CASE i # Len(r)
    <2>1. /\ i + d \in 1..Len(q) /\ r[i] = q[i + d] /\ q[i + d] \in Packet
          /\ i \in Nat /\ d \in Nat
      BY <1>1, <1>3, ElementOfSeq
    <2>2. r[i].id \in Nat /\ r[i].id + Len(q) = acc + (i + d)
      BY <2>1, PacketFields DEF Numbered
    <2>3. /\ Len(q) \in Nat /\ Len(r) = Len(q) + 1 - d
          /\ i \in Nat /\ d \in Nat /\ acc \in Nat
      BY <1>1, <2>1
    <2>4. \A x, m, k, e, a \in Nat :
             x + m = a + (k + e) => x + (m + 1 - e) = (a + 1) + k
      BY Renumbered
    <2>5. r[i].id + (Len(q) + 1 - d) = (acc + 1) + i
      BY ONLY <2>2, <2>3, <2>4
    <2> QED BY <2>3, <2>5
  <1> QED BY <1>2, <1>3

LEMMA FrontSet ==
    ASSUME NEW q \in Seq(Packet), q # <<>>, NEW p \in Packet, NEW r,
           r = [q EXCEPT ![1] = p]
    PROVE  /\ r \in Seq(Packet) /\ Len(r) = Len(q) /\ r[1] = p
           /\ \A i \in 1..Len(q) : i # 1 => r[i] = q[i]
  <1>1. Len(q) \in Nat /\ 1 \in 1..Len(q)
    OBVIOUS
  <1>2. /\ [q EXCEPT ![1] = p] \in Seq(Packet) /\ Len([q EXCEPT ![1] = p]) = Len(q)
        /\ \A i \in 1..Len(q) : [q EXCEPT ![1] = p][i] = IF i = 1 THEN p ELSE q[i]
    BY <1>1, ExceptSeq
  <1> QED BY <1>1, <1>2

(* Consecutive numbers ascend, and none is 0. *)
LEMMA Ascending ==
    ASSUME NEW q \in Seq(Packet), NEW acc \in Nat, Numbered(q, acc)
    PROVE  /\ \A i \in 1..Len(q) : q[i].id \in Nat \ {0} /\ q[i].id <= acc
           /\ \A i, j \in 1..Len(q) : i < j => q[i].id < q[j].id
  <1>1. \A i \in 1..Len(q) : /\ q[i].id \in Nat \ {0}
                              /\ q[i].id + Len(q) = acc + i
    <2> SUFFICES ASSUME NEW i \in 1..Len(q)
                 PROVE  q[i].id \in Nat \ {0} /\ q[i].id + Len(q) = acc + i
      OBVIOUS
    <2>1. q[i] \in Packet
      BY ElementOfSeq
    <2> QED BY <2>1 DEF Numbered, Packet
  <1>2. Len(q) \in Nat
    OBVIOUS
  <1>3. ASSUME NEW i \in 1..Len(q) PROVE q[i].id \in Nat \ {0} /\ q[i].id <= acc
    BY <1>1, <1>2
  <1>4. ASSUME NEW i \in 1..Len(q), NEW j \in 1..Len(q), i < j PROVE q[i].id < q[j].id
    <2>1. /\ q[i].id + Len(q) = acc + i /\ q[j].id + Len(q) = acc + j
          /\ q[i].id \in Nat /\ q[j].id \in Nat
      BY <1>1
    <2> QED BY <2>1, <1>2, <1>4
  <1> QED BY <1>3, <1>4

LEMMA ForTrue ==
    ASSUME NEW f \in [BOOLEAN -> Nat \ {0}] PROVE f[TRUE] \in Nat
  OBVIOUS
=============================================================================
