--------------------------- MODULE MavlinkRouter ---------------------------
(***************************************************************************)
(* MAVLink routing: the address book of src/src/protocols/                 *)
(* mavlink_router.cpp, which learns on which interface a system was heard, *)
(* and what ProtocolPipeline::processFlow() and distributePackets() do     *)
(* with its answer.  Only the bridge task runs this code: a batch of       *)
(* parsed packets is routed packet by packet at one reading of the clock,  *)
(* and time passes between the batches.                                    *)
(***************************************************************************)
EXTENDS Naturals, FiniteSets

CONSTANTS Ifaces,        \* the physical interfaces, which are the sender slots
          Systems,       \* the MAVLink system ids in use
          NoSys,         \* 0: no system, or nobody in particular
          None,          \* no interface, no packet
          Mask,          \* the senderMask of the flow of each interface
          MAX_ADDRESSES, \* places in the address book
          TTL,           \* units of time an address lasts (ADDR_TTL_MS)
          CLEANUP_EVERY  \* calls of process() between two cleanups

ASSUME RouterAssumption ==
    /\ NoSys \notin Systems /\ None \notin Ifaces
    /\ None \notin [to : Systems \union {NoSys}, unicast : BOOLEAN, dest : SUBSET Ifaces]
    /\ Mask \in [Ifaces -> SUBSET Ifaces]
    /\ MAX_ADDRESSES \in Nat /\ TTL \in Nat /\ CLEANUP_EVERY \in Nat \ {0}

VARIABLES book,   \* the active entries; a slot's place in the array shows nowhere
          calls,  \* cleanupCounter, modulo CLEANUP_EVERY
          flow,   \* the interface whose batch is being routed, or None
          last,   \* the packet routed last in this batch: to whom, and where it went
          heard   \* how long ago each system was last learned on each interface

vars == <<book, calls, flow, last, heard>>

Age == 0 .. TTL + 1   \* TTL + 1 stands for every longer time, and for never
Entry == [sys : Systems, mask : SUBSET Ifaces, age : Age]
Routed == [to : Systems \union {NoSys}, unicast : BOOLEAN, dest : SUBSET Ifaces]

Expired(e) == e.age > TTL
Older(a) == IF a > TTL THEN a ELSE a + 1

Unheard == [s \in Systems |-> [p \in Ifaces |-> TTL + 1]]
Init == book = {} /\ calls = 0 /\ flow = None /\ last = None /\ heard = Unheard

-----------------------------------------------------------------------------
(* The address book                                                         *)

(* Mutant: an entry that has expired is given up for the new interface.     *)
RefreshFromAnew(b, s, p) ==
    LET e == CHOOSE e \in b : e.sys = s
    IN (b \ {e}) \union {[sys |-> s, mask |-> {p}, age |-> 0]}

(* A system that is in the book, be it expired, keeps its interfaces.       *)
Refresh(b, s, p) ==
    LET e == CHOOSE e \in b : e.sys = s
    IN (b \ {e}) \union {[sys |-> s, mask |-> e.mask \union {p}, age |-> 0]}

Known(b, s) == \E e \in b : e.sys = s

(* Mutant: a place is looked for before the system is. *)
LearnTwice(b, s, p) ==
    IF s = NoSys \/ Cardinality(b) > MAX_ADDRESSES THEN b
    ELSE b \union {[sys |-> s, mask |-> {p}, age |-> 0]}

(* updateAddressBook() *)
Learn(b, s, p) ==
    CASE s = NoSys -> b
      [] s # NoSys /\ Known(b, s) -> Refresh(b, s, p)
      [] s # NoSys /\ ~Known(b, s) /\ Cardinality(b) < MAX_ADDRESSES ->
           b \union {[sys |-> s, mask |-> {p}, age |-> 0]}
      [] OTHER -> b

(* Mutant: an expired entry is used until the cleanup removes it. *)
DestinationsInBook(b, t) == UNION {e.mask : e \in {x \in b : x.sys = t}}

(* findDestinations() *)
Destinations(b, t) == UNION {e.mask : e \in {x \in b : ~Expired(x) /\ x.sys = t}}

Cleaned(b) == {e \in b : ~Expired(e)}

-----------------------------------------------------------------------------
(* Routing and distribution                                                 *)

Single(D) == \E p \in D : D = {p}

(* The packet has a target of its own if it is no broadcast message, names   *)
(* a system, and that system is known on one interface.                      *)
HasTarget(b, t, bcast) == ~bcast /\ t # NoSys /\ Single(Destinations(b, t))

(* distributePackets(): the target, or the flow's senders without the one    *)
(* the packet came from.                                                     *)
SendTo(b, q, t, bcast) == IF HasTarget(b, t, bcast) THEN Destinations(b, t)
                                                    ELSE Mask[q] \ {q}

(* processFlow() takes what the parser returned for one interface. *)
Begin(q) == /\ flow = None
            /\ flow' = q
            /\ UNCHANGED <<book, calls, last, heard>>

(* One packet of the batch, from system s and for system t. *)
Route(s, t, bcast) ==
    /\ flow # None
    /\ book' = Learn(book, s, flow)
    /\ heard' = IF s # NoSys /\ Known(book', s)
                THEN [heard EXCEPT ![s][flow] = 0] ELSE heard
    /\ last' = [to |-> IF bcast THEN NoSys ELSE t,
                unicast |-> HasTarget(book', t, bcast),
                dest |-> SendTo(book', flow, t, bcast)]
    /\ UNCHANGED <<calls, flow>>

(* Mutant: the cleanup is counted but only the first one is made. *)
EndWithoutCleanup ==
    /\ flow # None /\ last # None
    /\ calls' = (calls + 1) % CLEANUP_EVERY
    /\ flow' = None /\ last' = None
    /\ UNCHANGED <<heard, book>>

(* The end of process(): every CLEANUP_EVERY-th call removes what expired. *)
End == /\ flow # None /\ last # None
       /\ calls' = (calls + 1) % CLEANUP_EVERY
       /\ book' = IF calls' = 0 THEN Cleaned(book) ELSE book
       /\ flow' = None /\ last' = None
       /\ UNCHANGED heard

(* A unit of time passes. *)
Tick == /\ flow = None
        /\ book' = {[e EXCEPT !.age = Older(@)] : e \in book}
        /\ heard' = [s \in Systems |-> [p \in Ifaces |-> Older(heard[s][p])]]
        /\ UNCHANGED <<calls, flow, last>>

Next == \/ \E q \in Ifaces : Begin(q)
        \/ \E s, t \in Systems \union {NoSys}, bcast \in BOOLEAN : Route(s, t, bcast)
        \/ End
        \/ Tick

Spec == Init /\ [][Next]_vars

-----------------------------------------------------------------------------
(* Properties                                                               *)

(* Types; the book holds no more entries than the array has places. *)
TypeOK == /\ book \subseteq Entry
          /\ Cardinality(book) <= MAX_ADDRESSES
          /\ calls \in 0 .. CLEANUP_EVERY - 1
          /\ flow \in Ifaces \union {None}
          /\ last \in Routed \union {None}
          /\ flow = None => last = None
          /\ heard \in [Systems -> [Ifaces -> Age]]

(* What is sent to one interface only is for a system that was learned there *)
(* within the life of an address, and nowhere else: no other interface has a *)
(* claim to the packet.                                                      *)
UnicastGoesHome ==
    last # None /\ last.unicast =>
        \E p \in Ifaces : /\ last.dest = {p} /\ heard[last.to][p] <= TTL
                          /\ \A q \in Ifaces \ {p} : heard[last.to][q] > TTL

(* A packet for a system that was learned on p within the life of an address *)
(* is given to p, if the flow offers its packets to p at all: no routing     *)
(* decision keeps a command from the vehicle it is for.                      *)
KnownTargetServed ==
    last # None /\ last.to # NoSys =>
        \A p \in Mask[flow] \ {flow} : heard[last.to][p] <= TTL => p \in last.dest

(* An entry that expired does not hold its place for ever: the system is     *)
(* heard again, or the entry is removed.                                     *)
HoldsAPlace(s) == \E e \in book : e.sys = s /\ Expired(e)
PlacesComeBack == \A s \in Systems : []<>~HoldsAPlace(s)
=============================================================================
