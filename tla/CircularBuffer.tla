--------------------------- MODULE CircularBuffer ---------------------------
(***************************************************************************)
(* The ring of circular_buffer.h: head, tail and the memory between them.  *)
(* A byte is represented by its number: the first byte ever stored is 1,   *)
(* the next 2, and so on, so that order, loss and repetition can be told   *)
(* from the memory alone.  One place stays empty to tell full from empty.  *)
(* The statistics and the time stamp of the ring are left out.             *)
(***************************************************************************)
EXTENDS Naturals

CONSTANT Capacity  \* size of the ring, a power of two in the code

ASSUME CapacityAssumption == Capacity \in Nat \ {0, 1}

VARIABLES
    head,        \* place of the next byte to write
    tail,        \* place of the next byte to read
    mainBuffer   \* what each place holds; 0: nothing yet

ringVars == <<head, tail, mainBuffer>>

Places == 0 .. Capacity - 1

RingInit ==
    /\ head = 0
    /\ tail = 0
    /\ mainBuffer = [p \in Places |-> 0]

Least(a, b) == IF a < b THEN a ELSE b

(* p & capacityMask, for the p < 2 * Capacity the code computes. *)
Wrap(p) == IF p < Capacity THEN p ELSE p - Capacity

Available == IF head >= tail THEN head - tail ELSE (Capacity - tail) + head

(* Mutant: no place is left empty. *)
FreeToTheBrim == Capacity - Available

FreeSpace ==
    IF head >= tail THEN (Capacity - (head - tail)) - 1
                    ELSE (tail - head) - 1

(* getReadSegments(): the unread bytes, in one piece or in two. *)
NoSegment == [pos |-> 0, size |-> 0]
FirstSegment ==
    IF Available = 0 THEN NoSegment
    ELSE [pos |-> tail,
          size |-> IF head > tail THEN Available ELSE Capacity - tail]
SecondSegment ==
    IF Available = 0 \/ head > tail THEN NoSegment
    ELSE [pos |-> 0, size |-> head]

(* The places of n bytes from place p on, and the memory after the bytes   *)
(* numbered from first on were copied there.                               *)
Offset(p, q) == IF q >= p THEN q - p ELSE (q + Capacity) - p
Copied(p, n, first) ==
    [q \in Places |-> IF Offset(p, q) < n THEN first + Offset(p, q)
                                          ELSE mainBuffer[q]]

(* The tail after consume(n), which never passes the head. *)
TailAfter(n) == Wrap(tail + Least(n, Available))
=============================================================================
