------------------------------- MODULE Uart1Tx -------------------------------
(***************************************************************************)
(* The transmit service of UART1 (uart/uart1_tx_service.cpp) with its      *)
(* sender (protocols/uart1_sender.cpp), the ring between them and the      *)
(* transmit buffer of the UART driver.                                     *)
(*                                                                         *)
(* Several tasks put packets in the ring: the bridge task through the      *)
(* UART1 sender and the web server through the terminal socket.  Only the  *)
(* bridge task, which does one or the other at a time, moves bytes from    *)
(* the ring to the driver.  A mutex guards the ring; the interrupt that    *)
(* empties the driver's buffer does not take it.                           *)
(*                                                                         *)
(* Between taking and giving the mutex, the calls an operation makes are   *)
(* steps of their own wherever another task or the interrupt could come    *)
(* between.  A local variable that is no longer used is reset.             *)
(* availableForWrite() is 0 while the driver is not installed and write()  *)
(* takes what it is given otherwise, so the branch that counts write       *)
(* errors is not reached and is left out.                                  *)
(***************************************************************************)
EXTENDS CircularBuffer

CONSTANTS
    Tasks,            \* the tasks that call enqueue()
    Bridge,           \* the one that also calls processTxQueue()
    NoTask,           \* nobody holds the mutex
    PacketSizes,      \* sizes passed to enqueue(), smaller than the ring
    MaxWritePerCall,  \* maxWritePerCall
    TxBufferSize,     \* transmit buffer of the UART driver
    MaxBytes          \* bound: bytes offered before offers stop

ASSUME Uart1Assumption ==
    /\ Bridge \in Tasks
    /\ NoTask \notin Tasks
    /\ PacketSizes \subseteq 1 .. Capacity - 1
    /\ MaxWritePerCall \in Nat \ {0}
    /\ TxBufferSize \in Nat \ {0}
    /\ MaxBytes \in Nat

VARIABLES
    pc,            \* where each task is
    ringMutex,     \* the task that holds the mutex, or NoTask
    len,           \* per task: size of the packet being enqueued
    written,       \* per task: bytes write() reserved place for
    canWrite,      \* processTxQueue(): room seen before the segments
    first, second, \* processTxQueue(): the segments
    totalWritten,  \* processTxQueue(): bytes moved by this call
    txFill,        \* bytes in the driver's transmit buffer
    totalBytes,
    droppedBytes,
    accepted       \* ghost: bytes ever put in the ring

serviceVars == <<pc, ringMutex, len, written, canWrite, first, second,
                 totalWritten, txFill, totalBytes, droppedBytes, accepted>>
vars == <<ringVars, serviceVars>>

Room == TxBufferSize - txFill  \* UartDMA::availableForWrite()

Init ==
    /\ RingInit
    /\ pc = [t \in Tasks |-> "idle"]
    /\ ringMutex = NoTask
    /\ len = [t \in Tasks |-> 0]
    /\ written = [t \in Tasks |-> 0]
    /\ canWrite = 0
    /\ first = NoSegment
    /\ second = NoSegment
    /\ totalWritten = 0
    /\ txFill = 0
    /\ totalBytes = 0
    /\ droppedBytes = 0
    /\ accepted = 0

Goto(t, from, to) ==
    /\ pc[t] = from
    /\ pc' = [pc EXCEPT ![t] = to]

txLocals == <<canWrite, first, second, totalWritten>>
counters == <<totalBytes, droppedBytes>>

-----------------------------------------------------------------------------
(* Uart1TxService::enqueue() *)

Offer(t) ==
    /\ Goto(t, "idle", "lock")
    /\ accepted < MaxBytes
    /\ \E n \in PacketSizes : len' = [len EXCEPT ![t] = n]
    /\ UNCHANGED <<ringVars, ringMutex, written, txLocals, txFill, counters,
                   accepted>>

Take(t) == ringMutex = NoTask /\ ringMutex' = t

EnqueueLock(t) ==
    /\ Goto(t, "lock", "evict")
    /\ Take(t)
    /\ UNCHANGED <<ringVars, len, written, txLocals, txFill, counters,
                   accepted>>

(* What enqueue() asks consume() to drop. *)
Excess(n) == IF FreeSpace < n THEN n - FreeSpace ELSE 0

Evict(t) ==
    /\ Goto(t, "evict", "write")
    /\ tail' = TailAfter(Excess(len[t]))
    /\ droppedBytes' = droppedBytes + Excess(len[t])
    /\ UNCHANGED <<head, mainBuffer, ringMutex, len, written, txLocals,
                   txFill, totalBytes, accepted>>

(* CircularBuffer::write(), the reservation (policy DROP_NEW) and the copy *)
Write(t) ==
    /\ Goto(t, "write", "commit")
    /\ written' = [written EXCEPT ![t] = Least(len[t], FreeSpace)]
    /\ mainBuffer' = Copied(head, Least(len[t], FreeSpace), accepted + 1)
    /\ UNCHANGED <<head, tail, ringMutex, len, txLocals, txFill, counters,
                   accepted>>

(* ... its commit, and the end of enqueue() *)
Commit(t) ==
    /\ Goto(t, "commit", "idle")
    /\ head' = Wrap(head + written[t])
    /\ accepted' = accepted + len[t]
    /\ ringMutex' = NoTask
    /\ len' = [len EXCEPT ![t] = 0]
    /\ written' = [written EXCEPT ![t] = 0]
    /\ UNCHANGED <<tail, mainBuffer, txLocals, txFill, counters>>

Enqueue(t) == EnqueueLock(t) \/ Evict(t) \/ Write(t) \/ Commit(t)

-----------------------------------------------------------------------------
(* Uart1TxService::processTxQueue() *)

(* The two tests made before the mutex is taken. *)
TxCheck ==
    /\ Available > 0
    /\ Room > 0
    /\ Goto(Bridge, "idle", "txlock")
    /\ UNCHANGED <<ringVars, ringMutex, len, written, txLocals, txFill,
                   counters, accepted>>

TxLock ==
    /\ Goto(Bridge, "txlock", "loop")
    /\ Take(Bridge)
    /\ totalWritten' = 0
    /\ UNCHANGED <<ringVars, len, written, canWrite, first, second, txFill,
                   counters, accepted>>

TxMore == Available > 0 /\ totalWritten < MaxWritePerCall /\ Room > 0

TxSegments ==
    /\ TxMore
    /\ Goto(Bridge, "loop", "first")
    /\ canWrite' = Room
    /\ first' = FirstSegment
    /\ second' = SecondSegment
    /\ UNCHANGED <<ringVars, ringMutex, len, written, totalWritten, txFill,
                   counters, accepted>>

(* The driver takes n bytes, and consume(n). *)
Send(n) ==
    /\ n <= Room
    /\ txFill' = txFill + n
    /\ tail' = TailAfter(n)
    /\ totalWritten' = totalWritten + n
    /\ totalBytes' = totalBytes + n
    /\ UNCHANGED <<head, mainBuffer, ringMutex, len, written, canWrite,
                   first, second, droppedBytes, accepted>>

WholeBudget == MaxWritePerCall  \* mutant: what this call moved is forgotten
Budget == MaxWritePerCall - totalWritten

TxFirst ==
    /\ Goto(Bridge, "first", "second")
    /\ Send(Least(first.size, Least(canWrite, Budget)))

(* The room a second segment is offered: asked for again. *)
RoomForSecond == Room

SendsSecond ==
    second.size > 0 /\ totalWritten < MaxWritePerCall /\ Room > 0

TxSecond ==
    /\ SendsSecond
    /\ Goto(Bridge, "second", "loop")
    /\ Send(Least(second.size, Least(RoomForSecond, Budget)))

TxNoSecond ==
    /\ ~SendsSecond
    /\ Goto(Bridge, "second", "loop")
    /\ UNCHANGED <<ringVars, ringMutex, len, written, txLocals, txFill,
                   counters, accepted>>

(* Mutant: leaving the loop for want of room keeps the mutex. *)
GiveIfDone == ringMutex' = IF Room = 0 THEN ringMutex ELSE NoTask
Give == ringMutex' = NoTask

TxEnd ==
    /\ ~TxMore
    /\ Goto(Bridge, "loop", "idle")
    /\ Give
    /\ canWrite' = 0
    /\ first' = NoSegment
    /\ second' = NoSegment
    /\ totalWritten' = 0
    /\ UNCHANGED <<ringVars, len, written, txFill, counters, accepted>>

ProcessTxQueue ==
    TxCheck \/ TxLock \/ TxSegments \/ TxFirst \/ TxSecond \/ TxNoSecond
        \/ TxEnd

(* The UART sends a byte of the driver's buffer. *)
Drain ==
    /\ txFill > 0
    /\ txFill' = txFill - 1
    /\ UNCHANGED <<ringVars, pc, ringMutex, len, written, txLocals, counters,
                   accepted>>

Next ==
    \/ \E t \in Tasks : Offer(t) \/ Enqueue(t)
    \/ ProcessTxQueue
    \/ Drain

Spec == Init /\ [][Next]_vars

(***************************************************************************)
(* Fairness.  Both tasks run for ever and wait for nothing but the mutex   *)
(* and room in the driver's buffer; FreeRTOS hands a mutex to its waiters. *)
(* The UART sends what its buffer holds (no flow control stops it).        *)
(***************************************************************************)
Fairness ==
    /\ \A t \in Tasks : /\ SF_vars(EnqueueLock(t))
                        /\ WF_vars(Evict(t) \/ Write(t) \/ Commit(t))
    /\ SF_vars(TxLock)
    /\ WF_vars(TxCheck)
    /\ WF_vars(TxSegments \/ TxFirst \/ TxSecond \/ TxNoSecond \/ TxEnd)
    /\ WF_vars(Drain)

FairSpec == Spec /\ Fairness

-----------------------------------------------------------------------------
(* The types of the ring, the tasks and the service. *)
PCs == {"idle", "lock", "evict", "write", "commit", "txlock", "loop",
        "first", "second"}
Segment == [pos: Places, size: 0 .. Capacity]

TypeOK ==
    /\ head \in Places
    /\ tail \in Places
    /\ mainBuffer \in [Places -> Nat]
    /\ pc \in [Tasks -> PCs]
    /\ ringMutex \in Tasks \cup {NoTask}
    /\ len \in [Tasks -> PacketSizes \cup {0}]
    /\ written \in [Tasks -> 0 .. Capacity - 1]
    /\ first \in Segment
    /\ second \in Segment
    /\ canWrite \in 0 .. TxBufferSize
    /\ totalWritten \in 0 .. MaxWritePerCall
    /\ txFill \in 0 .. TxBufferSize
    /\ totalBytes \in Nat
    /\ droppedBytes \in Nat
    /\ accepted \in Nat

(* However often the ring wrapped and packets were evicted to make room,   *)
(* the unread bytes of the ring are the newest accepted, without a gap and *)
(* in their order.  (Which of those before them went out, Fifo says.)      *)
KeepsNewest ==
    \A i \in 0 .. Available - 1 :
        mainBuffer[Wrap(tail + i)] = ((accepted - Available) + 1) + i

(* The counts balance: as many bytes were accepted as are in the ring, as  *)
(* totalBytes and as droppedBytes say together.                            *)
CountsBalance == accepted = (totalBytes + droppedBytes) + Available

(* write() is never asked for more than the driver has room for, so the    *)
(* bridge task does not wait for the UART with the mutex held.             *)
NeverBlocks ==
    /\ pc[Bridge] = "first" =>
        Least(first.size, Least(canWrite, Budget)) <= Room
    /\ pc[Bridge] = "second" =>
        Least(second.size, Least(RoomForSecond, Budget)) <= Room

(* The ring and its counters stay exact, and the driver is not asked for   *)
(* more than it has room for.  Which bytes a write sent is left open: after *)
(* a first segment sent in part they are not those that are consumed.      *)
RingExact == KeepsNewest /\ CountsBalance /\ NeverBlocks

(* A task that puts a packet in the ring gets the mutex and is done, though *)
(* another task moves bytes out of the ring meanwhile.                     *)
EnqueueEnds == \A t \in Tasks : pc[t] = "lock" ~> pc[t] = "idle"

(* Every byte accepted leaves the ring.                                    *)
Served ==
    \A n \in 1 .. MaxBytes : accepted >= n ~> accepted - Available >= n

(* Nobody waits for ever: neither who brings a packet, nor its bytes.       *)
Progress == EnqueueEnds /\ Served

(* The bytes given to the driver are the oldest ones of the ring, those    *)
(* consume() then removes: the service is a FIFO.                          *)
Fifo ==
    /\ pc[Bridge] = "first" => first.pos = tail
    /\ (pc[Bridge] = "second" /\ SendsSecond) => second.pos = tail
=============================================================================
