---------------------------- MODULE Uart1Tx_proofs ----------------------------
(*****************************************************************************)
(* The transmit service of UART1 for every size of the ring, of the packets, *)
(* of the driver's buffer, and any number of tasks: its ring and counts.     *)
(*                                                                           *)
(* The mutex makes each task's knowledge last: what a task that holds it     *)
(* found out about the ring stays true until it gives the mutex (Knows).     *)
(* The arithmetic of the ring is apart, in four lemmas about its indices.    *)
(*****************************************************************************)
EXTENDS Uart1Tx, TLAPS

-----------------------------------------------------------------------------
(* The ring                                                                   *)

LEMMA SpaceSplit ==
    ASSUME head \in Places, tail \in Places
    PROVE  /\ Available \in 0 .. Capacity - 1 /\ FreeSpace \in 0 .. Capacity - 1
           /\ FreeSpace = (Capacity - 1) - Available
  BY CapacityAssumption DEF Places, Available, FreeSpace

(* consume(n) of at most what there is. *)
LEMMA Consumed ==
    ASSUME head \in Places, tail \in Places, NEW n \in 0 .. Available,
           tail' = TailAfter(n), head' = head
    PROVE  /\ tail' \in Places /\ Available' = Available - n
           /\ \A i \in 0 .. Available' - 1 : Wrap(tail' + i) = Wrap(tail + (n + i))
  BY CapacityAssumption, SpaceSplit DEF Places, Available, TailAfter, Least, Wrap

(* The head moves over n free places. *)
LEMMA Produced ==
    ASSUME head \in Places, tail \in Places, NEW n \in 0 .. FreeSpace,
           head' = Wrap(head + n), tail' = tail
    PROVE  /\ head' \in Places /\ Available' = Available + n
           /\ \A i \in 0 .. n - 1 : Wrap(tail + (Available + i)) = Wrap(head + i)
  BY CapacityAssumption, SpaceSplit DEF Places, Available, FreeSpace, Wrap

(* n bytes are copied to the free places from the head on. *)
LEMMA CopiedBytes ==
    ASSUME head \in Places, tail \in Places, NEW n \in 0 .. FreeSpace, NEW f \in Nat
    PROVE  /\ \A i \in 0 .. n - 1 : Copied(head, n, f)[Wrap(head + i)] = f + i
           /\ \A i \in 0 .. Available - 1 :
                 Copied(head, n, f)[Wrap(tail + i)] = mainBuffer[Wrap(tail + i)]
  <1>1. ASSUME NEW i \in 0 .. n - 1
        PROVE  Wrap(head + i) \in Places /\ Offset(head, Wrap(head + i)) = i /\ i < n
    BY CapacityAssumption, SpaceSplit DEF Places, Wrap, Offset
  <1>2. ASSUME NEW i \in 0 .. Available - 1
        PROVE  Wrap(tail + i) \in Places /\ ~(Offset(head, Wrap(tail + i)) < n)
    BY CapacityAssumption, SpaceSplit DEF Places, Available, FreeSpace, Wrap, Offset
  <1> QED BY <1>1, <1>2 DEF Copied

LEMMA CopyType ==
    ASSUME head \in Places, mainBuffer \in [Places -> Nat], NEW n \in Nat, NEW f \in Nat
    PROVE  Copied(head, n, f) \in [Places -> Nat]
  <1>1. \A q \in Places : Offset(head, q) \in Nat
    BY CapacityAssumption DEF Places, Offset
  <1>2. \A q \in Places :
          (IF Offset(head, q) < n THEN f + Offset(head, q) ELSE mainBuffer[q]) \in Nat
    BY <1>1
  <1> QED BY <1>2, Zenon DEF Copied

-----------------------------------------------------------------------------
(* The mutex                                                                  *)

Holding == {"evict", "write", "commit", "loop", "first", "second"}
Transmitting == {"txlock", "loop", "first", "second"}

Mutual ==
    /\ pc \in [Tasks -> PCs] /\ ringMutex \in Tasks \cup {NoTask}
    /\ \A t \in Tasks : pc[t] \in Holding <=> ringMutex = t
    /\ \A t \in Tasks : pc[t] \in Transmitting => t = Bridge

LEMMA MutualInit == Init => Mutual
  BY Uart1Assumption DEF Init, Mutual, PCs, Holding, Transmitting

LEMMA MutualEnqueue ==
    ASSUME Mutual, NEW t \in Tasks, Offer(t) \/ Enqueue(t) PROVE Mutual'
  <1> USE Uart1Assumption DEF Mutual, PCs, Holding, Transmitting, Goto
  <1>1. CASE Offer(t)
    BY <1>1 DEF Offer
  <1>2. CASE EnqueueLock(t)
    BY <1>2 DEF EnqueueLock, Take
  <1>3. CASE Evict(t)
    BY <1>3 DEF Evict
  <1>4. CASE Write(t)
    BY <1>4 DEF Write
  <1>5. CASE Commit(t)
    BY <1>5 DEF Commit
  <1> QED BY <1>1, <1>2, <1>3, <1>4, <1>5 DEF Enqueue

LEMMA MutualProcess == Mutual /\ ProcessTxQueue => Mutual'
  <1> SUFFICES ASSUME Mutual, ProcessTxQueue PROVE Mutual'
    OBVIOUS
  <1> USE Uart1Assumption DEF Mutual, PCs, Holding, Transmitting, Goto
  <1>1. CASE TxCheck
    BY <1>1 DEF TxCheck
  <1>2. CASE TxLock
    BY <1>2 DEF TxLock, Take
  <1>3. CASE TxSegments
    BY <1>3 DEF TxSegments
  <1>4. CASE TxFirst
    BY <1>4 DEF TxFirst, Send
  <1>5. CASE TxSecond
    BY <1>5 DEF TxSecond, Send
  <1>6. CASE TxNoSecond
    BY <1>6 DEF TxNoSecond
  <1>7. CASE TxEnd
    BY <1>7 DEF TxEnd, Give
  <1> QED BY <1>1, <1>2, <1>3, <1>4, <1>5, <1>6, <1>7 DEF ProcessTxQueue

LEMMA MutualStep == Mutual /\ [Next]_vars => Mutual'
  <1> SUFFICES ASSUME Mutual, [Next]_vars PROVE Mutual'
    OBVIOUS
  <1>1. CASE Drain \/ UNCHANGED vars
    BY <1>1 DEF Drain, vars, serviceVars, Mutual
  <1> QED BY <1>1, MutualEnqueue, MutualProcess DEF Next

-----------------------------------------------------------------------------
(* The contents                                                               *)

Contents == KeepsNewest /\ CountsBalance

LEMMA ContentsKept ==
    ASSUME Contents, UNCHANGED <<ringVars, accepted, totalBytes, droppedBytes>> PROVE Contents'
  BY DEF Contents, KeepsNewest, CountsBalance, ringVars, Available

LEMMA ContentsConsumed ==
    ASSUME TypeOK, Contents, NEW n \in 0 .. Available, tail' = TailAfter(n),
           UNCHANGED <<head, mainBuffer, accepted>>,
           totalBytes' + droppedBytes' = (totalBytes + droppedBytes) + n,
           totalBytes' \in Nat, droppedBytes' \in Nat
    PROVE  Contents' /\ Available' = Available - n /\ tail' \in Places
  <1>1. /\ tail' \in Places /\ Available' = Available - n
        /\ \A i \in 0 .. Available' - 1 : Wrap(tail' + i) = Wrap(tail + (n + i))
    BY Consumed DEF TypeOK
  <1>2. Available \in Nat /\ accepted \in Nat /\ totalBytes \in Nat /\ droppedBytes \in Nat
    BY SpaceSplit DEF TypeOK
  <1>3. CountsBalance'
    <2>1. accepted = (totalBytes + droppedBytes) + Available
      BY DEF Contents, CountsBalance
    <2>2. accepted = ((totalBytes + droppedBytes) + n) + (Available - n)
      BY <1>2, <2>1
    <2>3. accepted' = (totalBytes' + droppedBytes') + Available'
      BY <1>1, <2>2, Zenon
    <2> QED BY <2>3 DEF CountsBalance
  <1>4. ASSUME NEW i \in 0 .. Available' - 1
        PROVE  mainBuffer'[Wrap(tail' + i)] = ((accepted' - Available') + 1) + i
    <2>1. n + i \in 0 .. Available - 1
      BY <1>1, <1>2
    <2>2. mainBuffer[Wrap(tail + (n + i))] = ((accepted - Available) + 1) + (n + i)
      BY <2>1 DEF Contents, KeepsNewest
    <2>3. ((accepted - Available) + 1) + (n + i) = ((accepted - (Available - n)) + 1) + i
      BY <1>2
    <2> QED BY <1>1, <2>2, <2>3
  <1>5. KeepsNewest'
    BY <1>4 DEF KeepsNewest
  <1> QED BY <1>1, <1>3, <1>5 DEF Contents

LEMMA ContentsCopied ==
    ASSUME TypeOK, Contents, NEW n \in 0 .. FreeSpace, mainBuffer' = Copied(head, n, accepted + 1),
           UNCHANGED <<head, tail, accepted, totalBytes, droppedBytes>>
    PROVE  /\ Contents'
           /\ \A i \in 0 .. n - 1 : mainBuffer'[Wrap(head + i)] = (accepted + 1) + i
  <1>1. head \in Places /\ tail \in Places /\ accepted + 1 \in Nat
    BY DEF TypeOK
  <1>2. Available' = Available
    BY DEF Available
  <1>3. /\ \A i \in 0 .. n - 1 : mainBuffer'[Wrap(head + i)] = (accepted + 1) + i
        /\ \A i \in 0 .. Available - 1 :
              mainBuffer'[Wrap(tail + i)] = mainBuffer[Wrap(tail + i)]
    BY <1>1, CopiedBytes
  <1>4. KeepsNewest'
    BY <1>2, <1>3 DEF Contents, KeepsNewest
  <1>5. CountsBalance'
    BY <1>2 DEF Contents, CountsBalance
  <1> QED BY <1>3, <1>4, <1>5 DEF Contents

LEMMA ContentsCommitted ==
    ASSUME TypeOK, Contents, NEW n \in 0 .. FreeSpace, head' = Wrap(head + n),
           \A i \in 0 .. n - 1 : mainBuffer[Wrap(head + i)] = (accepted + 1) + i,
           accepted' = accepted + n, UNCHANGED <<tail, mainBuffer, totalBytes, droppedBytes>>
    PROVE  Contents' /\ head' \in Places
  <1>1. /\ head' \in Places /\ Available' = Available + n
        /\ \A i \in 0 .. n - 1 : Wrap(tail + (Available + i)) = Wrap(head + i)
    BY Produced DEF TypeOK
  <1>2. /\ Available \in Nat /\ accepted \in Nat /\ totalBytes \in Nat /\ droppedBytes \in Nat
        /\ n \in Nat
    BY SpaceSplit DEF TypeOK
  <1>3. CountsBalance'
    <2>1. accepted = (totalBytes + droppedBytes) + Available
      BY DEF Contents, CountsBalance
    <2>2. accepted' = (totalBytes' + droppedBytes') + Available'
      BY <1>1, <1>2, <2>1
    <2> QED BY <2>2 DEF CountsBalance
  <1>4. ASSUME NEW i \in 0 .. Available' - 1
        PROVE  mainBuffer'[Wrap(tail' + i)] = ((accepted' - Available') + 1) + i
    <2>1. (accepted + n) - (Available + n) = accepted - Available
      BY <1>2
    <2>2. CASE i < Available
      <3>1. mainBuffer[Wrap(tail + i)] = ((accepted - Available) + 1) + i
        BY <1>2, <2>2 DEF Contents, KeepsNewest
      <3> QED BY <1>1, <2>1, <3>1
    <2>3. CASE i >= Available
      <3>1. i - Available \in 0 .. n - 1 /\ Available + (i - Available) = i
        BY <1>1, <1>2, <2>3
      <3>2. mainBuffer[Wrap(tail + i)] = (accepted + 1) + (i - Available)
        BY <1>1, <3>1
      <3>3. (accepted + 1) + (i - Available) = ((accepted - Available) + 1) + i
        BY <1>2, <3>1
      <3> QED BY <1>1, <2>1, <3>2, <3>3
    <2> QED BY <1>2, <2>2, <2>3
  <1>5. KeepsNewest'
    BY <1>4 DEF KeepsNewest
  <1> QED BY <1>1, <1>3, <1>5 DEF Contents

-----------------------------------------------------------------------------
(* What the tasks know, and the invariant                                     *)

Knows(t) ==
    /\ pc[t] = "write" => len[t] <= FreeSpace
    /\ pc[t] = "commit" =>
         /\ written[t] = len[t] /\ len[t] <= FreeSpace
         /\ \A i \in 0 .. len[t] - 1 : mainBuffer[Wrap(head + i)] = (accepted + 1) + i

KnowsSegments ==
    /\ pc[Bridge] = "first" => canWrite <= Room /\ first.size + second.size = Available
    /\ pc[Bridge] = "second" => second.size <= Available

RingInv ==
    TypeOK /\ Mutual /\ Contents /\ KnowsSegments /\ \A t \in Tasks : Knows(t)

LEMMA RingInvInit == Init => RingInv
  <1> SUFFICES ASSUME Init PROVE RingInv
    OBVIOUS
  <1>1. TypeOK
    <2>1. head \in Places /\ tail \in Places /\ mainBuffer \in [Places -> Nat]
      BY CapacityAssumption DEF Init, RingInit, Places
    <2>2. first \in Segment /\ second \in Segment
      BY CapacityAssumption DEF Init, NoSegment, Segment, Places
    <2>3. /\ pc \in [Tasks -> PCs] /\ len \in [Tasks -> PacketSizes \cup {0}]
          /\ written \in [Tasks -> 0 .. Capacity - 1]
      BY CapacityAssumption DEF Init, PCs
    <2> QED BY <2>1, <2>2, <2>3, Uart1Assumption DEF Init, TypeOK
  <1>2. Contents
    BY DEF Init, RingInit, Contents, KeepsNewest, CountsBalance, Available
  <1>3. KnowsSegments /\ \A t \in Tasks : Knows(t)
    BY Uart1Assumption DEF Init, KnowsSegments, Knows
  <1> QED BY <1>1, <1>2, <1>3, MutualInit DEF RingInv

(* A task without the mutex knows nothing of the ring. *)
LEMMA OthersKnowNothing ==
    ASSUME Mutual', NEW t \in Tasks, ringMutex' # t
    PROVE  Knows(t)' /\ (t = Bridge => KnowsSegments')
  BY DEF Mutual, Holding, Knows, KnowsSegments

LEMMA OfferKeeps ==
    ASSUME RingInv, Mutual', NEW t \in Tasks, Offer(t) PROVE RingInv'
  <1>1. /\ UNCHANGED <<ringVars, ringMutex, written, txLocals, txFill, counters, accepted>>
        /\ pc' = [pc EXCEPT ![t] = "lock"] /\ pc[t] = "idle"
        /\ \E n \in PacketSizes : len' = [len EXCEPT ![t] = n]
    BY DEF Offer, Goto
  <1>2. TypeOK'
    <2>1. pc' \in [Tasks -> PCs] /\ len' \in [Tasks -> PacketSizes \cup {0}]
      BY <1>1 DEF RingInv, TypeOK, PCs
    <2> QED BY <1>1, <2>1 DEF RingInv, TypeOK, ringVars, txLocals, counters
  <1>3. Contents'
    BY <1>1, ContentsKept DEF RingInv, counters
  <1>4. ASSUME NEW u \in Tasks PROVE Knows(u)'
    BY <1>1 DEF RingInv, Knows, TypeOK, ringVars, FreeSpace
  <1>5. KnowsSegments'
    BY <1>1, Uart1Assumption DEF RingInv, TypeOK, KnowsSegments, ringVars, txLocals, Room, Available
  <1> QED BY <1>2, <1>3, <1>4, <1>5 DEF RingInv

LEMMA EnqueueKeeps ==
    ASSUME RingInv, Mutual', NEW t \in Tasks, Enqueue(t) PROVE RingInv'
  <1>1. ringMutex' \in {t, NoTask} /\ pc[t] \notin Transmitting /\ pc'[t] \notin Transmitting
    BY DEF Enqueue, EnqueueLock, Evict, Write, Commit, Goto, Take, Transmitting, RingInv, TypeOK,
           Mutual, Holding
  <1>2. \A u \in Tasks \ {t} : Knows(u)'
    BY <1>1, OthersKnowNothing, Uart1Assumption
  <1>3. KnowsSegments'
    BY <1>1, Uart1Assumption, OthersKnowNothing DEF KnowsSegments, Transmitting
  <1>t. /\ len[t] \in 0 .. Capacity - 1 /\ head \in Places /\ tail \in Places
        /\ pc \in [Tasks -> PCs] /\ pc' \in [Tasks -> PCs]
    <2>1. len[t] \in PacketSizes \cup {0} /\ head \in Places /\ tail \in Places
      BY DEF RingInv, TypeOK
    <2>2. len[t] \in 0 .. Capacity - 1
      <3>1. PacketSizes \subseteq 1 .. Capacity - 1
        BY Uart1Assumption
      <3>2. len[t] = 0 \/ len[t] \in 1 .. Capacity - 1
        BY <2>1, <3>1
      <3> QED BY <3>2, CapacityAssumption
    <2> QED BY <2>1, <2>2 DEF RingInv, Mutual
  <1>s. /\ Available \in 0 .. Capacity - 1 /\ FreeSpace \in 0 .. Capacity - 1
        /\ FreeSpace = (Capacity - 1) - Available
    BY <1>t, SpaceSplit
  <1>4. CASE EnqueueLock(t)
    <2>1. UNCHANGED <<ringVars, len, written, txLocals, txFill, counters, accepted>>
          /\ pc'[t] = "evict"
      BY <1>4, <1>t DEF EnqueueLock, Goto
    <2>2. TypeOK'
      BY <2>1 DEF RingInv, TypeOK, Mutual, ringVars, txLocals, counters
    <2>3. Contents' /\ Knows(t)'
      BY <2>1, ContentsKept DEF RingInv, counters, Knows
    <2> QED BY <1>2, <1>3, <2>2, <2>3 DEF RingInv
  <1>5. CASE Evict(t)
    <2>1. /\ tail' = TailAfter(Excess(len[t])) /\ droppedBytes' = droppedBytes + Excess(len[t])
          /\ UNCHANGED <<head, mainBuffer, ringMutex, len, written, txLocals, txFill, totalBytes,
                         accepted>>
          /\ pc'[t] = "write"
      BY <1>5, <1>t DEF Evict, Goto
    <2>2. Excess(len[t]) \in 0 .. Available /\ len[t] <= FreeSpace + Excess(len[t])
      BY <1>t, <1>s, CapacityAssumption DEF Excess
    <2>3. /\ totalBytes \in Nat /\ droppedBytes \in Nat /\ Excess(len[t]) \in Nat
          /\ TypeOK /\ Contents
      BY <1>s, <2>2 DEF RingInv, TypeOK
    <2>4. /\ totalBytes' \in Nat /\ droppedBytes' \in Nat
          /\ totalBytes' + droppedBytes' = (totalBytes + droppedBytes) + Excess(len[t])
      BY <2>1, <2>3
    <2>5. Contents' /\ Available' = Available - Excess(len[t]) /\ tail' \in Places
      BY <2>1, <2>2, <2>3, <2>4, ContentsConsumed
    <2>6. TypeOK'
      BY <2>1, <2>3, <2>4, <2>5 DEF TypeOK, RingInv, Mutual, txLocals
    <2>7. FreeSpace' = (Capacity - 1) - Available'
      <3>1. head' \in Places
        BY <1>t, <2>1
      <3> QED BY <2>5, <3>1, CapacityAssumption DEF Places, Available, FreeSpace
    <2>8. len'[t] <= FreeSpace'
      BY <1>t, <1>s, <2>1, <2>2, <2>5, <2>7, CapacityAssumption
    <2>9. Knows(t)'
      BY <2>1, <2>8 DEF Knows
    <2> QED BY <1>2, <1>3, <2>5, <2>6, <2>9 DEF RingInv
  <1>6. CASE Write(t)
    <2>1. /\ written' = [written EXCEPT ![t] = Least(len[t], FreeSpace)]
          /\ mainBuffer' = Copied(head, Least(len[t], FreeSpace), accepted + 1)
          /\ UNCHANGED <<head, tail, ringMutex, len, txLocals, txFill, counters, accepted>>
          /\ pc'[t] = "commit" /\ pc[t] = "write"
      BY <1>6, <1>t DEF Write, Goto
    <2>2. Least(len[t], FreeSpace) = len[t] /\ len[t] \in 0 .. FreeSpace
      <3>1. len[t] <= FreeSpace
        BY <2>1 DEF RingInv, Knows
      <3> QED BY <1>t, <1>s, <3>1 DEF Least
    <2>3. /\ Contents'
          /\ \A i \in 0 .. len[t] - 1 : mainBuffer'[Wrap(head + i)] = (accepted + 1) + i
      BY <2>1, <2>2, ContentsCopied DEF RingInv, counters
    <2>4. written' \in [Tasks -> 0 .. Capacity - 1] /\ written'[t] = len[t]
      BY <1>t, <2>1, <2>2 DEF RingInv, TypeOK
    <2>5. mainBuffer' \in [Places -> Nat]
      <3>1. /\ mainBuffer \in [Places -> Nat] /\ len[t] \in Nat /\ accepted + 1 \in Nat
        BY <1>t DEF RingInv, TypeOK
      <3>2. Copied(head, len[t], accepted + 1) \in [Places -> Nat]
        BY <1>t, <3>1, CopyType
      <3> QED BY <2>1, <2>2, <3>2
    <2>6. TypeOK'
      BY <2>1, <2>4, <2>5 DEF TypeOK, RingInv, Mutual, txLocals, counters
    <2>7. FreeSpace' = FreeSpace
      BY <2>1 DEF FreeSpace
    <2>8. Knows(t)'
      BY <2>1, <2>2, <2>3, <2>4, <2>7 DEF Knows
    <2> QED BY <1>2, <1>3, <2>3, <2>6, <2>8 DEF RingInv
  <1>7. CASE Commit(t)
    <2>1. /\ head' = Wrap(head + written[t]) /\ accepted' = accepted + len[t]
          /\ ringMutex' = NoTask
          /\ len' = [len EXCEPT ![t] = 0] /\ written' = [written EXCEPT ![t] = 0]
          /\ UNCHANGED <<tail, mainBuffer, txLocals, txFill, counters>>
          /\ pc'[t] = "idle" /\ pc[t] = "commit"
      BY <1>7, <1>t DEF Commit, Goto
    <2>2. /\ written[t] = len[t] /\ len[t] \in 0 .. FreeSpace
          /\ \A i \in 0 .. len[t] - 1 : mainBuffer[Wrap(head + i)] = (accepted + 1) + i
      BY <1>t, <1>s, <2>1 DEF RingInv, Knows
    <2>3. Contents' /\ head' \in Places
      BY <2>1, <2>2, ContentsCommitted DEF RingInv, counters
    <2>4. /\ len' \in [Tasks -> PacketSizes \cup {0}]
          /\ written' \in [Tasks -> 0 .. Capacity - 1] /\ accepted' \in Nat
      BY <1>t, <2>1, CapacityAssumption DEF RingInv, TypeOK
    <2>5. TypeOK'
      BY <2>1, <2>3, <2>4 DEF TypeOK, RingInv, Mutual, txLocals, counters
    <2>6. Knows(t)'
      BY <2>1 DEF Knows
    <2> QED BY <1>2, <1>3, <2>3, <2>5, <2>6 DEF RingInv
  <1> QED BY <1>4, <1>5, <1>6, <1>7 DEF Enqueue

(* processTxQueue() *)
LEMMA SegmentsCover ==
    ASSUME head \in Places, tail \in Places, Available > 0
    PROVE  /\ FirstSegment \in Segment /\ SecondSegment \in Segment
           /\ FirstSegment.size + SecondSegment.size = Available
  BY CapacityAssumption
     DEF Places, Available, FirstSegment, SecondSegment, NoSegment, Segment

LEMMA ProcessKeeps ==
    ASSUME RingInv, Mutual', ProcessTxQueue PROVE RingInv'
  <1>b. Bridge \in Tasks /\ NoTask \notin Tasks /\ TypeOK /\ Contents /\ Mutual
    BY Uart1Assumption DEF RingInv
  <1>t. /\ pc \in [Tasks -> PCs] /\ pc' \in [Tasks -> PCs]
        /\ head \in Places /\ tail \in Places
    BY <1>b DEF TypeOK, Mutual
  <1>s. Available \in 0 .. Capacity - 1
    BY <1>t, SpaceSplit
  <1>n. /\ txFill \in 0 .. TxBufferSize /\ TxBufferSize \in Nat /\ canWrite \in 0 .. TxBufferSize
        /\ totalWritten \in 0 .. MaxWritePerCall /\ MaxWritePerCall \in Nat
        /\ totalBytes \in Nat /\ droppedBytes \in Nat /\ Room \in 0 .. TxBufferSize
        /\ first \in Segment /\ second \in Segment
        /\ first.size \in Nat /\ second.size \in Nat
    <2>1. first \in Segment /\ second \in Segment
      BY <1>b DEF TypeOK
    <2>2. first.size \in Nat /\ second.size \in Nat
      BY <2>1, CapacityAssumption DEF Segment
    <2> QED BY <1>b, <2>1, <2>2, Uart1Assumption DEF TypeOK, Room
  <1>o. ASSUME NEW t \in Tasks, t # Bridge, ringMutex = Bridge \/ ringMutex' = Bridge
        PROVE  Knows(t)'
    <2>1. ringMutex' \in {ringMutex, NoTask, Bridge}
      BY DEF ProcessTxQueue, TxCheck, TxLock, TxSegments, TxFirst, TxSecond, TxNoSecond, TxEnd,
             Send, Take, Give
    <2> QED BY <1>b, <1>o, <2>1, OthersKnowNothing
  <1>h. pc[Bridge] \in {"loop", "first", "second"} => ringMutex = Bridge
    BY <1>b DEF Mutual, Holding
  <1>1. CASE TxCheck
    <2>1. /\ UNCHANGED <<ringVars, ringMutex, len, written, txLocals, txFill, counters, accepted>>
          /\ pc' = [pc EXCEPT ![Bridge] = "txlock"]
      BY <1>1 DEF TxCheck, Goto
    <2>2. TypeOK' /\ Contents'
      BY <1>b, <1>t, <2>1, ContentsKept DEF TypeOK, ringVars, txLocals, counters
    <2>3. ASSUME NEW t \in Tasks PROVE Knows(t)'
      BY <1>t, <2>1 DEF RingInv, Knows, ringVars, FreeSpace
    <2>4. KnowsSegments'
      BY <1>b, <1>t, <2>1 DEF KnowsSegments
    <2> QED BY <2>2, <2>3, <2>4 DEF RingInv
  <1>2. CASE TxLock
    <2>1. /\ UNCHANGED <<ringVars, len, written, canWrite, first, second, txFill, counters, accepted>>
          /\ pc'[Bridge] = "loop" /\ ringMutex' = Bridge /\ totalWritten' = 0
      BY <1>2, <1>b, <1>t DEF TxLock, Goto, Take
    <2>2. Contents'
      BY <1>b, <2>1, ContentsKept DEF counters
    <2>3. TypeOK'
      BY <1>b, <1>t, <1>n, <2>1 DEF TypeOK, ringVars, counters
    <2>4. ASSUME NEW t \in Tasks PROVE Knows(t)'
      BY <1>o, <2>1 DEF Knows
    <2>5. KnowsSegments'
      BY <2>1 DEF KnowsSegments
    <2> QED BY <2>2, <2>3, <2>4, <2>5 DEF RingInv
  <1>3. CASE TxSegments
    <2>1. /\ UNCHANGED <<ringVars, ringMutex, len, written, totalWritten, txFill, counters, accepted>>
          /\ pc'[Bridge] = "first" /\ pc[Bridge] = "loop" /\ Available > 0
          /\ canWrite' = Room /\ first' = FirstSegment /\ second' = SecondSegment
      BY <1>3, <1>b, <1>t DEF TxSegments, TxMore, Goto
    <2>2. Contents'
      BY <1>b, <2>1, ContentsKept DEF counters
    <2>3. /\ first' \in Segment /\ second' \in Segment
          /\ first'.size + second'.size = Available
      BY <1>t, <2>1, SegmentsCover
    <2>4. TypeOK'
      BY <1>b, <1>t, <1>n, <2>1, <2>3 DEF TypeOK, ringVars, counters
    <2>5. ASSUME NEW t \in Tasks PROVE Knows(t)'
      BY <1>h, <1>o, <2>1 DEF Knows
    <2>6. KnowsSegments'
      <3>1. Available' = Available /\ Room' = Room
        BY <2>1 DEF ringVars, Available, Room
      <3> QED BY <1>n, <2>1, <2>3, <3>1 DEF KnowsSegments
    <2> QED BY <2>2, <2>4, <2>5, <2>6 DEF RingInv
  <1>4. ASSUME NEW n \in 0 .. Available, Send(n), n <= Budget, ringMutex = Bridge
        PROVE  /\ TypeOK' /\ Contents' /\ Available' = Available - n
               /\ UNCHANGED <<first, second>>
    <2>1. /\ tail' = TailAfter(n) /\ totalBytes' = totalBytes + n /\ txFill' = txFill + n
          /\ totalWritten' = totalWritten + n /\ n <= Room
          /\ UNCHANGED <<head, mainBuffer, ringMutex, len, written, canWrite, first, second,
                         droppedBytes, accepted>>
      BY <1>4 DEF Send
    <2>2. /\ totalBytes' \in Nat /\ droppedBytes' \in Nat
          /\ totalBytes' + droppedBytes' = (totalBytes + droppedBytes) + n
      BY <1>n, <1>s, <2>1
    <2>3. Contents' /\ Available' = Available - n /\ tail' \in Places
      BY <1>b, <2>1, <2>2, ContentsConsumed
    <2>4. txFill' \in 0 .. TxBufferSize /\ totalWritten' \in 0 .. MaxWritePerCall
      BY <1>n, <1>s, <1>4, <2>1 DEF Room, Budget
    <2> QED BY <1>b, <1>t, <2>1, <2>2, <2>3, <2>4 DEF TypeOK
  <1>5. CASE TxFirst
    <2> DEFINE n == Least(first.size, Least(canWrite, Budget))
    <2>1. /\ pc[Bridge] = "first" /\ pc'[Bridge] = "second" /\ Send(n)
      BY <1>5, <1>b, <1>t DEF TxFirst, Goto
    <2>2. first.size + second.size = Available
      BY <2>1 DEF RingInv, KnowsSegments
    <2>3. n \in 0 .. Available /\ n <= Budget /\ n <= first.size
      BY <1>n, <1>s, <2>2 DEF Least, Budget
    <2> HIDE DEF n
    <2>4. TypeOK' /\ Contents' /\ Available' = Available - n /\ UNCHANGED <<first, second>>
      BY <1>4, <1>h, <2>1, <2>3
    <2>5. second'.size <= Available'
      BY <1>n, <1>s, <2>2, <2>3, <2>4
    <2>6. ASSUME NEW t \in Tasks PROVE Knows(t)'
      BY <1>h, <1>o, <2>1 DEF Knows
    <2> QED BY <2>1, <2>4, <2>5, <2>6 DEF RingInv, KnowsSegments
  <1>6. CASE TxSecond
    <2> DEFINE n == Least(second.size, Least(RoomForSecond, Budget))
    <2>1. /\ pc[Bridge] = "second" /\ pc'[Bridge] = "loop" /\ Send(n)
      BY <1>6, <1>b, <1>t DEF TxSecond, Goto
    <2>2. second.size <= Available
      BY <2>1 DEF RingInv, KnowsSegments
    <2>3. n \in 0 .. Available /\ n <= Budget
      BY <1>n, <1>s, <2>2 DEF Least, Budget, RoomForSecond
    <2> HIDE DEF n
    <2>4. TypeOK' /\ Contents'
      BY <1>4, <1>h, <2>1, <2>3
    <2>5. ASSUME NEW t \in Tasks PROVE Knows(t)'
      BY <1>h, <1>o, <2>1 DEF Knows
    <2> QED BY <2>1, <2>4, <2>5 DEF RingInv, KnowsSegments
  <1>7. CASE TxNoSecond \/ TxEnd
    <2>1. /\ UNCHANGED <<ringVars, len, written, txFill, counters, accepted>>
          /\ \/ UNCHANGED <<canWrite, first, second, totalWritten>>
             \/ /\ canWrite' = 0 /\ first' = NoSegment /\ second' = NoSegment
                /\ totalWritten' = 0
          /\ ringMutex' \in {ringMutex, NoTask}
          /\ pc[Bridge] \in {"loop", "second"} /\ pc'[Bridge] \in {"loop", "idle"}
      BY <1>7, <1>b, <1>t DEF TxNoSecond, TxEnd, Give, Goto, txLocals
    <2>2. Contents'
      BY <1>b, <2>1, ContentsKept DEF counters
    <2>3. NoSegment \in Segment
      BY CapacityAssumption DEF NoSegment, Segment, Places
    <2>4. TypeOK'
      BY <1>b, <1>t, <1>n, <2>1, <2>3 DEF TypeOK, ringVars, counters, Mutual
    <2>5. ASSUME NEW t \in Tasks PROVE Knows(t)'
      BY <1>h, <1>o, <2>1 DEF Knows
    <2>6. KnowsSegments'
      BY <2>1 DEF KnowsSegments
    <2> QED BY <2>2, <2>4, <2>5, <2>6 DEF RingInv
  <1> QED BY <1>1, <1>2, <1>3, <1>5, <1>6, <1>7 DEF ProcessTxQueue

LEMMA RingInvStep == RingInv /\ [Next]_vars => RingInv'
  <1> SUFFICES ASSUME RingInv, [Next]_vars PROVE RingInv'
    OBVIOUS
  <1>1. Mutual'
    BY MutualStep DEF RingInv
  <1>2. CASE Drain
    <2>1. /\ UNCHANGED <<ringVars, pc, ringMutex, len, written, txLocals, counters, accepted>>
          /\ txFill' \in 0 .. TxBufferSize /\ txFill \in 0 .. TxBufferSize /\ txFill' <= txFill
      BY <1>2, Uart1Assumption DEF Drain, RingInv, TypeOK
    <2>2. TypeOK' /\ Contents'
      BY <2>1, ContentsKept DEF RingInv, TypeOK, ringVars, txLocals, counters
    <2>3. ASSUME NEW t \in Tasks PROVE Knows(t)'
      BY <2>1 DEF RingInv, Knows, ringVars, FreeSpace
    <2>4. KnowsSegments'
      <3>1. Available' = Available /\ Room <= Room' /\ Room \in Nat /\ Room' \in Nat
            /\ canWrite \in Nat
        <4>1. Available' = Available
          BY <2>1 DEF ringVars, Available
        <4>2. canWrite \in 0 .. TxBufferSize /\ TxBufferSize \in Nat
          BY Uart1Assumption DEF RingInv, TypeOK
        <4>3. ASSUME NEW x \in 0 .. TxBufferSize, NEW y \in 0 .. TxBufferSize, y <= x
              PROVE  /\ TxBufferSize - x \in Nat /\ TxBufferSize - y \in Nat
                     /\ TxBufferSize - x <= TxBufferSize - y
          BY <4>2, <4>3
        <4>4. Room \in Nat /\ Room' \in Nat /\ Room <= Room'
          BY <2>1, <4>3, Zenon DEF Room
        <4>5. canWrite \in Nat
          BY <4>2
        <4> QED BY <4>1, <4>4, <4>5
      <3> QED BY <2>1, <3>1 DEF RingInv, KnowsSegments, txLocals
    <2> QED BY <1>1, <2>2, <2>3, <2>4 DEF RingInv
  <1>3. CASE UNCHANGED vars
    <2>1. TypeOK' /\ Contents'
      BY <1>3, ContentsKept
         DEF RingInv, TypeOK, vars, serviceVars, ringVars
    <2>2. ASSUME NEW t \in Tasks PROVE Knows(t)'
      BY <1>3 DEF RingInv, Knows, vars, serviceVars, ringVars, FreeSpace
    <2>3. KnowsSegments'
      BY <1>3 DEF RingInv, KnowsSegments, vars, serviceVars, ringVars, Available, Room
    <2> QED BY <1>1, <2>1, <2>2, <2>3 DEF RingInv
  <1> QED BY <1>1, <1>2, <1>3, OfferKeeps, EnqueueKeeps, ProcessKeeps DEF Next

LEMMA RingIsExact == RingInv => RingExact
  <1> SUFFICES ASSUME RingInv PROVE RingExact
    OBVIOUS
  <1>1. /\ Room \in Nat /\ canWrite \in Nat /\ Budget \in Nat
        /\ first.size \in Nat /\ second.size \in Nat
    <2>1. first.size \in Nat /\ second.size \in Nat
      BY CapacityAssumption DEF RingInv, TypeOK, Segment
    <2> QED BY <2>1, Uart1Assumption DEF RingInv, TypeOK, Room, Budget
  <1>2. NeverBlocks
    BY <1>1 DEF RingInv, KnowsSegments, NeverBlocks, Least, RoomForSecond
  <1> QED BY <1>2 DEF RingInv, Contents, RingExact

(* The ring, the tasks' places and locals and the driver's buffer keep their  *)
(* types and bounds (Uart1TxService::enqueue(), processTxQueue()).            *)
THEOREM TypeCorrect == Spec => []TypeOK
  <1>1. RingInv => TypeOK
    BY DEF RingInv
  <1> QED BY <1>1, MutualInit, MutualStep, RingInvInit, RingInvStep, PTL DEF Spec

(* However many tasks enqueue while the bridge task sends, the ring holds     *)
(* the newest bytes in their order, the counts of sent, kept and dropped      *)
(* bytes add up to those accepted, and the driver is never asked for more     *)
(* than it has room for.  It is no statement on which bytes were sent         *)
(* (Uart1TxService::enqueue(), processTxQueue(), circular_buffer.h).          *)
THEOREM RingSafe == Spec => []RingExact
  BY MutualInit, MutualStep, RingInvInit, RingInvStep, RingIsExact, PTL DEF Spec
=============================================================================
