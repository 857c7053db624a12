-------------------------- MODULE Pipeline_proofs --------------------------
(***************************************************************************)
(* The protocol pipeline: how it routes, how a boot sets it up, and that    *)
(* both hold of the device that boots, routes and restarts.                *)
(*                                                                         *)
(* The router first.  Its address book is what it has heard: every entry   *)
(* has the age of the last hearing on one of its interfaces, and whoever   *)
(* was heard within the life of an address has an entry with that          *)
(* interface.  The two routing properties follow for any number of         *)
(* interfaces, systems and places, any life of an address and any period   *)
(* of the cleanup.                                                         *)
(*                                                                         *)
(* Then BridgeSetup: SetupInv says that what exists and what each step     *)
(* made follow from the corrected roles.  That the tables of roles fit     *)
(* together is then a fact about the operators that model them, for every  *)
(* configuration, every firmware and every failure.                        *)
(*                                                                         *)
(* A device keeps both: a boot step leaves the router alone or, with a     *)
(* restart, puts it back to its first state, and routing leaves what the   *)
(* boot made alone.                                                        *)
(***************************************************************************)
EXTENDS MavlinkBridge, TLAPS, FiniteSetTheorems

OneEach(b) == \A e, f \in b : e.sys = f.sys => e = f

(* An entry is no older than any hearing on its interfaces, and as old as one. *)
Honest(b, h) == \A e \in b : /\ \A p \in e.mask : e.age <= h[e.sys][p]
                             /\ \E p \in e.mask : e.age = h[e.sys][p]

(* Who was heard on p lately is in the book, with p. *)
Complete(b, h) == \A s \in Systems, p \in Ifaces :
                    h[s][p] <= TTL => \E e \in b : e.sys = s /\ p \in e.mask

Good(b, h) == /\ b \subseteq Entry /\ IsFiniteSet(b)
              /\ Cardinality(b) <= MAX_ADDRESSES
              /\ OneEach(b) /\ Honest(b, h) /\ Complete(b, h)

Inv == /\ TypeOK
       /\ Good(book, heard)
       /\ UnicastGoesHome
       /\ KnownTargetServed

-----------------------------------------------------------------------------
(* Learning                                                                 *)

LEMMA AddOne ==
  ASSUME NEW S, IsFiniteSet(S), NEW x
  PROVE  /\ IsFiniteSet(S \union {x})
         /\ Cardinality(S \union {x}) \in Nat /\ Cardinality(S) \in Nat
         /\ Cardinality(S \union {x}) <= Cardinality(S) + 1
<1>1. /\ IsFiniteSet(S \union {x})
      /\ Cardinality(S \union {x}) = Cardinality(S) \/ Cardinality(S \union {x}) = Cardinality(S) + 1
  BY FS_AddElement
<1>2. Cardinality(S \union {x}) \in Nat /\ Cardinality(S) \in Nat
  BY <1>1, FS_CardinalityType
<1> QED  BY <1>1, <1>2

HeardFrom(h, b, s, p) == IF s # NoSys /\ Known(b, s) THEN [h EXCEPT ![s][p] = 0] ELSE h

(* The three ways updateAddressBook() ends: nothing is learned, an entry is  *)
(* refreshed, a new one is made.                                             *)
LEMMA LearnCases ==
  ASSUME NEW b, b \subseteq Entry, OneEach(b),
         NEW s \in Systems \union {NoSys}, NEW p \in Ifaces
  PROVE  \/ Learn(b, s, p) = b /\ (s = NoSys \/ ~Known(b, s))
         \/ /\ s \in Systems
            /\ \E e \in b : /\ e.sys = s
                            /\ Learn(b, s, p) = (b \ {e}) \union
                                 {[sys |-> s, mask |-> e.mask \union {p}, age |-> 0]}
         \/ /\ s \in Systems /\ ~Known(b, s) /\ Cardinality(b) < MAX_ADDRESSES
            /\ Learn(b, s, p) = b \union {[sys |-> s, mask |-> {p}, age |-> 0]}
<1>1. CASE s = NoSys
  BY <1>1 DEF Learn
<1>2. CASE s # NoSys /\ Known(b, s)
  <2> DEFINE e == CHOOSE e \in b : e.sys = s
  <2>1. e \in b /\ e.sys = s
    BY <1>2 DEF Known
  <2>2. Learn(b, s, p) = (b \ {e}) \union
                           {[sys |-> s, mask |-> e.mask \union {p}, age |-> 0]}
    BY <1>2 DEF Learn, Refresh
  <2> QED  BY <1>2, <2>1, <2>2
<1>3. CASE s # NoSys /\ ~Known(b, s)
  BY <1>3 DEF Learn
<1> QED  BY <1>1, <1>2, <1>3

(* Replacing the entry of a system by one that is heard now on p as well. *)
LEMMA RefreshGood ==
  ASSUME NEW b, NEW h \in [Systems -> [Ifaces -> Age]], Good(b, h),
         NEW s \in Systems, NEW p \in Ifaces, NEW e \in b, e.sys = s
  PROVE  Good((b \ {e}) \union {[sys |-> s, mask |-> e.mask \union {p}, age |-> 0]},
              [h EXCEPT ![s][p] = 0])
<1> DEFINE n == [sys |-> s, mask |-> e.mask \union {p}, age |-> 0]
           c == (b \ {e}) \union {n}
           g == [h EXCEPT ![s][p] = 0]
<1>1. b \subseteq Entry /\ e \in Entry /\ n \in Entry /\ c \subseteq Entry
  BY RouterAssumption DEF Good, Entry, Age
<1>2. IsFiniteSet(c) /\ Cardinality(c) <= MAX_ADDRESSES
  <2>1. IsFiniteSet(b) /\ Cardinality(b) <= MAX_ADDRESSES /\ Cardinality(b) \in Nat
    BY FS_CardinalityType DEF Good
  <2>2. IsFiniteSet(b \ {e}) /\ Cardinality(b \ {e}) = Cardinality(b) - 1
    BY <2>1, FS_RemoveElement
  <2> HIDE DEF n
  <2>3. /\ IsFiniteSet(c) /\ Cardinality(c) \in Nat /\ Cardinality(b \ {e}) \in Nat
        /\ Cardinality(c) <= Cardinality(b \ {e}) + 1
    BY <2>2, AddOne
  <2> HIDE DEF c
  <2> QED  BY <2>1, <2>2, <2>3, RouterAssumption
<1>3. \A x \in b \ {e} : x.sys # s
  BY DEF Good, OneEach
<1>4. OneEach(c)
  <2>1. n.sys = s
    OBVIOUS
  <2>2. \A x, y \in b : x.sys = y.sys => x = y
    BY DEF Good, OneEach
  <2> HIDE DEF n
  <2> QED  BY <1>3, <2>1, <2>2 DEF OneEach
<1>5. /\ \A t \in Systems, q \in Ifaces : t # s \/ q # p => g[t][q] = h[t][q]
      /\ g[s][p] = 0
      /\ \A t \in Systems, q \in Ifaces : g[t][q] \in Nat
  BY RouterAssumption DEF Age
<1>6. Honest(c, g)
  <2> SUFFICES ASSUME NEW x \in c
               PROVE  /\ \A q \in x.mask : x.age <= g[x.sys][q]
                      /\ \E q \in x.mask : x.age = g[x.sys][q]
    BY DEF Honest
  <2>1. CASE x = n
    <3>1. x.sys = s /\ x.age = 0 /\ p \in x.mask /\ x.mask \subseteq Ifaces
      BY <2>1, <1>1 DEF Entry
    <3> QED  BY <3>1, <1>5
  <2>2. CASE x \in b \ {e}
    <3>1. x.sys \in Systems /\ x.sys # s /\ x.mask \subseteq Ifaces
      BY <2>2, <1>1, <1>3 DEF Entry
    <3>2. \A q \in Ifaces : g[x.sys][q] = h[x.sys][q]
      BY <3>1, <1>5
    <3> QED  BY <2>2, <3>1, <3>2 DEF Good, Honest
  <2> QED  BY <2>1, <2>2
<1>7. Complete(c, g)
  <2> SUFFICES ASSUME NEW t \in Systems, NEW q \in Ifaces, g[t][q] <= TTL
               PROVE  \E x \in c : x.sys = t /\ q \in x.mask
    BY DEF Complete
  <2>1. n \in c /\ n.sys = s /\ p \in n.mask /\ e.mask \subseteq n.mask
    OBVIOUS
  <2>2. CASE t = s /\ q = p
    BY <2>1, <2>2
  <2>3. CASE t # s \/ q # p
    <3>1. PICK x \in b : x.sys = t /\ q \in x.mask
      BY <2>3, <1>5 DEF Good, Complete
    <3>2. CASE x = e
      BY <3>1, <3>2, <2>1
    <3>3. CASE x # e
      BY <3>1, <3>3
    <3> QED  BY <3>2, <3>3
  <2> QED  BY <2>2, <2>3
<1> QED  BY <1>1, <1>2, <1>4, <1>6, <1>7 DEF Good

(* Making an entry for a system that has none. *)
LEMMA NewEntryGood ==
  ASSUME NEW b, NEW h \in [Systems -> [Ifaces -> Age]], Good(b, h),
         NEW s \in Systems, NEW p \in Ifaces, ~Known(b, s),
         Cardinality(b) < MAX_ADDRESSES
  PROVE  Good(b \union {[sys |-> s, mask |-> {p}, age |-> 0]}, [h EXCEPT ![s][p] = 0])
<1> DEFINE n == [sys |-> s, mask |-> {p}, age |-> 0]
           c == b \union {n}
           g == [h EXCEPT ![s][p] = 0]
<1>1. b \subseteq Entry /\ n \in Entry /\ c \subseteq Entry
  BY RouterAssumption DEF Good, Entry, Age
<1>2. IsFiniteSet(c) /\ Cardinality(c) <= MAX_ADDRESSES
  <2>1. IsFiniteSet(b) /\ Cardinality(b) \in Nat
    BY FS_CardinalityType DEF Good
  <2> HIDE DEF n
  <2>2. /\ IsFiniteSet(c) /\ Cardinality(c) \in Nat
        /\ Cardinality(c) <= Cardinality(b) + 1
    BY <2>1, AddOne
  <2> HIDE DEF c
  <2> QED  BY <2>1, <2>2, RouterAssumption
<1>3. \A x \in b : x.sys # s
  BY DEF Known
<1>4. OneEach(c)
  <2>1. n.sys = s
    OBVIOUS
  <2>2. \A x, y \in b : x.sys = y.sys => x = y
    BY DEF Good, OneEach
  <2> HIDE DEF n
  <2> QED  BY <1>3, <2>1, <2>2 DEF OneEach
<1>5. /\ \A t \in Systems, q \in Ifaces : t # s \/ q # p => g[t][q] = h[t][q]
      /\ g[s][p] = 0
  BY RouterAssumption DEF Age
<1>6. Honest(c, g)
  <2> SUFFICES ASSUME NEW x \in c
               PROVE  /\ \A q \in x.mask : x.age <= g[x.sys][q]
                      /\ \E q \in x.mask : x.age = g[x.sys][q]
    BY DEF Honest
  <2>1. CASE x = n
    BY <2>1, <1>5
  <2>2. CASE x \in b
    <3>1. x.sys \in Systems /\ x.sys # s /\ x.mask \subseteq Ifaces
      BY <2>2, <1>1, <1>3 DEF Entry
    <3>2. \A q \in Ifaces : g[x.sys][q] = h[x.sys][q]
      BY <3>1, <1>5
    <3> QED  BY <2>2, <3>1, <3>2 DEF Good, Honest
  <2> QED  BY <2>1, <2>2
<1>7. Complete(c, g)
  <2> SUFFICES ASSUME NEW t \in Systems, NEW q \in Ifaces, g[t][q] <= TTL
               PROVE  \E x \in c : x.sys = t /\ q \in x.mask
    BY DEF Complete
  <2>1. n \in c /\ n.sys = s /\ p \in n.mask
    OBVIOUS
  <2>2. CASE t = s /\ q = p
    BY <2>1, <2>2
  <2>3. CASE t # s \/ q # p
    BY <2>3, <1>5 DEF Good, Complete
  <2> QED  BY <2>2, <2>3
<1> QED  BY <1>1, <1>2, <1>4, <1>6, <1>7 DEF Good

LEMMA LearnGood ==
  ASSUME NEW b, NEW h \in [Systems -> [Ifaces -> Age]], Good(b, h),
         NEW s \in Systems \union {NoSys}, NEW p \in Ifaces
  PROVE  Good(Learn(b, s, p), HeardFrom(h, Learn(b, s, p), s, p))
<1> DEFINE c == Learn(b, s, p)
<1>0. b \subseteq Entry /\ OneEach(b)
  BY DEF Good
<1>4. \A x, y : [sys |-> s, mask |-> x, age |-> y].sys = s
  OBVIOUS
<1>5. SUFFICES Good(c, HeardFrom(h, c, s, p))
  OBVIOUS
<1>6. \/ c = b /\ (s = NoSys \/ ~Known(b, s))
      \/ /\ s \in Systems
         /\ \E e \in b : /\ e.sys = s
                         /\ c = (b \ {e}) \union
                              {[sys |-> s, mask |-> e.mask \union {p}, age |-> 0]}
      \/ /\ s \in Systems /\ ~Known(b, s) /\ Cardinality(b) < MAX_ADDRESSES
         /\ c = b \union {[sys |-> s, mask |-> {p}, age |-> 0]}
  BY <1>0, LearnCases
<1> HIDE DEF c
<1>1. CASE c = b /\ (s = NoSys \/ ~Known(b, s))
  BY <1>1 DEF HeardFrom
<1>2. CASE /\ s \in Systems
           /\ \E e \in b : /\ e.sys = s
                           /\ c = (b \ {e}) \union
                                {[sys |-> s, mask |-> e.mask \union {p}, age |-> 0]}
  <2>1. PICK e \in b : /\ e.sys = s
                       /\ c = (b \ {e}) \union
                            {[sys |-> s, mask |-> e.mask \union {p}, age |-> 0]}
    BY <1>2
  <2>2. Known(c, s) /\ s # NoSys
    BY <1>2, <1>4, <2>1, RouterAssumption DEF Known
  <2>3. HeardFrom(h, c, s, p) = [h EXCEPT ![s][p] = 0]
    BY <2>2 DEF HeardFrom
  <2>4. Good(c, [h EXCEPT ![s][p] = 0])
    BY <1>2, <2>1, RefreshGood
  <2> QED  BY <2>3, <2>4
<1>3. CASE /\ s \in Systems /\ ~Known(b, s) /\ Cardinality(b) < MAX_ADDRESSES
           /\ c = b \union {[sys |-> s, mask |-> {p}, age |-> 0]}
  <2>2. Known(c, s) /\ s # NoSys
    BY <1>3, <1>4, RouterAssumption DEF Known
  <2>3. HeardFrom(h, c, s, p) = [h EXCEPT ![s][p] = 0]
    BY <2>2 DEF HeardFrom
  <2>4. Good(c, [h EXCEPT ![s][p] = 0])
    BY <1>3, NewEntryGood
  <2> QED  BY <2>3, <2>4
<1> QED  BY <1>1, <1>2, <1>3, <1>6

-----------------------------------------------------------------------------
(* Cleanup and time                                                         *)

LEMMA CleanedGood ==
  ASSUME NEW b, NEW h \in [Systems -> [Ifaces -> Age]], Good(b, h)
  PROVE  Good(Cleaned(b), h)
<1>1. Cleaned(b) \subseteq b /\ b \subseteq Entry
  BY DEF Cleaned, Good
<1>2. IsFiniteSet(Cleaned(b)) /\ Cardinality(Cleaned(b)) <= MAX_ADDRESSES
  <2>1. IsFiniteSet(b) /\ Cardinality(b) <= MAX_ADDRESSES
    BY DEF Good
  <2>2. /\ IsFiniteSet(Cleaned(b)) /\ Cardinality(Cleaned(b)) <= Cardinality(b)
        /\ Cardinality(b) \in Nat /\ Cardinality(Cleaned(b)) \in Nat
    BY <1>1, <2>1, FS_Subset, FS_CardinalityType
  <2> QED  BY <2>1, <2>2, RouterAssumption
<1>3. OneEach(Cleaned(b)) /\ Honest(Cleaned(b), h)
  BY <1>1 DEF Good, OneEach, Honest
<1>4. Complete(Cleaned(b), h)
  <2> SUFFICES ASSUME NEW s \in Systems, NEW p \in Ifaces, h[s][p] <= TTL
               PROVE  \E e \in Cleaned(b) : e.sys = s /\ p \in e.mask
    BY DEF Complete
  <2>1. PICK e \in b : e.sys = s /\ p \in e.mask
    BY DEF Good, Complete
  <2>2. e.age <= h[s][p]
    BY <2>1 DEF Good, Honest
  <2>3. e.age \in Nat /\ h[s][p] \in Nat
    BY <1>1 DEF Entry, Age
  <2>4. e \in Cleaned(b)
    BY <2>2, <2>3, RouterAssumption DEF Cleaned, Expired
  <2> QED  BY <2>1, <2>4
<1> QED  BY <1>1, <1>2, <1>3, <1>4 DEF Good

LEMMA OlderAge ==
  ASSUME NEW a \in Age
  PROVE  /\ Older(a) \in Age
         /\ \A c \in Age : a <= c => Older(a) <= Older(c)
         /\ Older(a) <= TTL => a <= TTL
BY RouterAssumption DEF Older, Age

Aged(e) == [e EXCEPT !.age = Older(@)]

LEMMA TickGood ==
  ASSUME NEW b, NEW h \in [Systems -> [Ifaces -> Age]], Good(b, h)
  PROVE  Good({Aged(e) : e \in b},
              [s \in Systems |-> [p \in Ifaces |-> Older(h[s][p])]])
<1> DEFINE c == {Aged(e) : e \in b}
           g == [s \in Systems |-> [p \in Ifaces |-> Older(h[s][p])]]
<1>1. ASSUME NEW e \in b
      PROVE  /\ Aged(e) \in Entry /\ Aged(e).sys = e.sys /\ Aged(e).mask = e.mask
             /\ Aged(e).age = Older(e.age)
             /\ e.sys \in Systems /\ e.mask \subseteq Ifaces /\ e.age \in Age
  <2>1. e \in Entry
    BY DEF Good
  <2>2. e.age \in Age
    BY <2>1 DEF Entry
  <2>3. Older(e.age) \in Age
    BY <2>2, OlderAge
  <2> QED  BY <2>1, <2>2, <2>3 DEF Entry, Aged
<1>2. c \subseteq Entry
  BY <1>1
<1>3. IsFiniteSet(c) /\ Cardinality(c) <= MAX_ADDRESSES
  <2>1. IsFiniteSet(b) /\ Cardinality(b) <= MAX_ADDRESSES
    BY DEF Good
  <2> DEFINE f == [e \in b |-> Aged(e)]
  <2>2. f \in Surjection(b, c)
    BY DEF Surjection
  <2> HIDE DEF f, c
  <2>5. \A S, T : \A k \in Surjection(S, T) : IsFiniteSet(S) =>
                   IsFiniteSet(T) /\ Cardinality(T) <= Cardinality(S)
    BY FS_Surjection
  <2>3. IsFiniteSet(c) /\ Cardinality(c) <= Cardinality(b)
    BY <2>1, <2>2, <2>5
  <2>4. Cardinality(c) \in Nat /\ Cardinality(b) \in Nat
    BY <2>1, <2>3, FS_CardinalityType
  <2> QED  BY <2>1, <2>3, <2>4, RouterAssumption
<1>4. OneEach(c)
  BY <1>1 DEF Good, OneEach
<1>5. \A s \in Systems, p \in Ifaces : g[s][p] = Older(h[s][p]) /\ h[s][p] \in Age
  OBVIOUS
<1>6. Honest(c, g)
  <2> HIDE DEF c, g
  <2> SUFFICES ASSUME NEW x \in c
               PROVE  /\ \A p \in x.mask : x.age <= g[x.sys][p]
                      /\ \E p \in x.mask : x.age = g[x.sys][p]
    BY DEF Honest
  <2>2. PICK e \in b : x = Aged(e)
    BY DEF c
  <2>3. x.sys = e.sys /\ x.mask = e.mask /\ x.age = Older(e.age)
    BY <1>1, <2>2
  <2>1. /\ \A p \in e.mask : e.age <= h[e.sys][p]
        /\ \E p \in e.mask : e.age = h[e.sys][p]
    BY DEF Good, Honest
  <2> QED  BY <1>1, <1>5, <2>1, <2>3, OlderAge
<1>7. Complete(c, g)
  <2> SUFFICES ASSUME NEW s \in Systems, NEW p \in Ifaces, g[s][p] <= TTL
               PROVE  \E e \in c : e.sys = s /\ p \in e.mask
    BY DEF Complete
  <2>1. h[s][p] <= TTL
    BY <1>5, OlderAge
  <2>2. PICK e \in b : e.sys = s /\ p \in e.mask
    BY <2>1 DEF Good, Complete
  <2>3. Aged(e) \in c /\ Aged(e).sys = s /\ p \in Aged(e).mask
    BY <1>1, <2>2
  <2> QED  BY <2>3
<1> QED  BY <1>2, <1>3, <1>4, <1>6, <1>7 DEF Good

-----------------------------------------------------------------------------
(* The answer of the book                                                   *)

LEMMA DestinationsOfEntry ==
  ASSUME NEW b, OneEach(b), NEW e \in b, ~Expired(e)
  PROVE  Destinations(b, e.sys) = e.mask
<1>1. {x \in b : ~Expired(x) /\ x.sys = e.sys} = {e}
  BY DEF OneEach
<1> QED  BY <1>1 DEF Destinations

LEMMA DestinationsAreIfaces ==
  ASSUME NEW b, b \subseteq Entry, NEW t
  PROVE  Destinations(b, t) \subseteq Ifaces
BY DEF Destinations, Entry

(* What is heard lately is among the destinations. *)
LEMMA HeardIsDestination ==
  ASSUME NEW b, NEW h \in [Systems -> [Ifaces -> Age]], Good(b, h),
         NEW t \in Systems, NEW p \in Ifaces, h[t][p] <= TTL
  PROVE  p \in Destinations(b, t)
<1>1. PICK e \in b : e.sys = t /\ p \in e.mask
  BY DEF Good, Complete
<1>2. e.age <= h[t][p] /\ e.age \in Nat /\ h[t][p] \in Nat
  BY <1>1 DEF Good, Honest, Entry, Age
<1>3. ~Expired(e)
  BY <1>2, RouterAssumption DEF Expired
<1> QED  BY <1>1, <1>3, DestinationsOfEntry DEF Good

(* A single destination is the only interface the system was heard on lately. *)
LEMMA SingleIsHeard ==
  ASSUME NEW b, NEW h \in [Systems -> [Ifaces -> Age]], Good(b, h),
         NEW t \in Systems, NEW p, Destinations(b, t) = {p}
  PROVE  /\ p \in Ifaces /\ h[t][p] <= TTL
         /\ \A q \in Ifaces \ {p} : h[t][q] > TTL
<1>1. PICK e \in b : ~Expired(e) /\ e.sys = t /\ p \in e.mask
  BY DEF Destinations
<1>2. e.mask = {p}
  BY <1>1, DestinationsOfEntry DEF Good
<1>3. p \in Ifaces /\ e.age = h[t][p] /\ e.age \in Nat
  BY <1>1, <1>2 DEF Good, Honest, Entry, Age
<1>4. h[t][p] <= TTL
  BY <1>1, <1>3, RouterAssumption DEF Expired
<1>5. ASSUME NEW q \in Ifaces \ {p}
      PROVE  h[t][q] > TTL
  <2>1. ~(h[t][q] <= TTL)
    BY HeardIsDestination
  <2>2. h[t][q] \in Nat
    BY DEF Age
  <2> QED  BY <2>1, <2>2, RouterAssumption
<1> QED  BY <1>3, <1>4, <1>5

-----------------------------------------------------------------------------
(* The steps                                                                *)

LEMMA InitInv == Init => Inv
<1> SUFFICES ASSUME Init PROVE Inv
  OBVIOUS
<1>1. book = {} /\ IsFiniteSet(book) /\ Cardinality(book) = 0
  BY FS_EmptySet DEF Init
<1>2. heard \in [Systems -> [Ifaces -> Age]]
  BY RouterAssumption DEF Init, Unheard, Age
<1>3. \A s \in Systems, p \in Ifaces : ~(heard[s][p] <= TTL)
  BY RouterAssumption DEF Init, Unheard
<1>4. Good(book, heard)
  BY <1>1, <1>3, RouterAssumption DEF Good, OneEach, Honest, Complete
<1>5. TypeOK
  BY <1>1, <1>2, RouterAssumption DEF Init, TypeOK
<1> QED  BY <1>4, <1>5 DEF Init, Inv, UnicastGoesHome, KnownTargetServed

LEMMA RouteInv ==
  ASSUME Inv, NEW s \in Systems \union {NoSys}, NEW t \in Systems \union {NoSys},
         NEW bcast \in BOOLEAN, Route(s, t, bcast)
  PROVE  Inv'
<1>1. /\ flow \in Ifaces /\ flow' = flow /\ calls' = calls
      /\ heard \in [Systems -> [Ifaces -> Age]] /\ calls \in 0 .. CLEANUP_EVERY - 1
  BY DEF Inv, TypeOK, Route
<1>2. book' = Learn(book, s, flow) /\ heard' = HeardFrom(heard, book', s, flow)
  BY DEF Route, HeardFrom
<1>3. Good(book', heard')
  BY <1>1, <1>2, LearnGood DEF Inv
<1>4. heard' \in [Systems -> [Ifaces -> Age]]
  BY <1>1, <1>2, RouterAssumption DEF HeardFrom, Age
<1>5. /\ last'.to = (IF bcast THEN NoSys ELSE t)
      /\ last'.unicast = HasTarget(book', t, bcast)
      /\ last'.dest = SendTo(book', flow, t, bcast)
  BY DEF Route
<1>6. book' \subseteq Entry /\ Cardinality(book') <= MAX_ADDRESSES
  BY <1>3 DEF Good
<1>7. TypeOK'
  <2>1. HasTarget(book', t, bcast) \in BOOLEAN
    BY DEF HasTarget, Single
  <2>2. SendTo(book', flow, t, bcast) \subseteq Ifaces
    BY <1>1, <1>6, DestinationsAreIfaces, RouterAssumption DEF SendTo
  <2>3. last' \in Routed
    BY <2>1, <2>2 DEF Route, Routed
  <2> QED  BY <1>1, <1>4, <1>6, <2>3, RouterAssumption DEF TypeOK
<1>8. UnicastGoesHome'
  <2> SUFFICES ASSUME HasTarget(book', t, bcast)
               PROVE  \E p \in Ifaces : /\ last'.dest = {p} /\ heard'[last'.to][p] <= TTL
                                       /\ \A q \in Ifaces \ {p} : heard'[last'.to][q] > TTL
    BY <1>5 DEF UnicastGoesHome
  <2>1. last'.to = t /\ t \in Systems /\ last'.dest = Destinations(book', t)
    BY <1>5 DEF HasTarget, SendTo
  <2>2. PICK p : Destinations(book', t) = {p}
    BY DEF HasTarget, Single
  <2>3. /\ p \in Ifaces /\ heard'[t][p] <= TTL
        /\ \A q \in Ifaces \ {p} : heard'[t][q] > TTL
    BY <1>3, <1>4, <2>1, <2>2, SingleIsHeard
  <2> QED  BY <2>1, <2>2, <2>3
<1>9. KnownTargetServed'
  <2> SUFFICES ASSUME last'.to # NoSys, NEW p \in Mask[flow] \ {flow},
                      heard'[last'.to][p] <= TTL
               PROVE  p \in last'.dest
    BY <1>1 DEF KnownTargetServed
  <2>1. last'.to = t /\ t \in Systems /\ p \in Ifaces
    BY <1>1, <1>5, RouterAssumption
  <2>2. p \in Destinations(book', t)
    BY <1>3, <1>4, <2>1, HeardIsDestination
  <2> QED  BY <1>5, <2>2 DEF SendTo
<1> QED  BY <1>3, <1>7, <1>8, <1>9 DEF Inv

LEMMA NextInv == Inv /\ [Next]_vars => Inv'
<1> SUFFICES ASSUME Inv, [Next]_vars PROVE Inv'
  OBVIOUS
<1>0. TypeOK /\ Good(book, heard)
  BY DEF Inv
<1>1. ASSUME NEW q \in Ifaces, Begin(q) PROVE Inv'
  <2>1. last = None /\ last' = None
    BY <1>0, <1>1 DEF Begin, TypeOK
  <2> QED  BY <1>0, <1>1, <2>1, RouterAssumption
             DEF Begin, Inv, TypeOK, UnicastGoesHome, KnownTargetServed
<1>2. ASSUME NEW s \in Systems \union {NoSys}, NEW t \in Systems \union {NoSys},
             NEW bcast \in BOOLEAN, Route(s, t, bcast)
      PROVE  Inv'
  BY <1>2, RouteInv
<1>3. CASE End
  <2>1. /\ flow' = None /\ last' = None /\ heard' = heard
        /\ (book' = book \/ book' = Cleaned(book))
    BY <1>3 DEF End
  <2>2. calls' \in 0 .. CLEANUP_EVERY - 1
    <3>1. calls \in Nat /\ calls' = (calls + 1) % CLEANUP_EVERY
      BY <1>0, <1>3 DEF End, TypeOK
    <3> QED  BY <3>1, RouterAssumption
  <2>3. Good(book', heard')
    BY <1>0, <2>1, CleanedGood DEF TypeOK
  <2> QED  BY <1>0, <2>1, <2>2, <2>3
             DEF Inv, TypeOK, Good, UnicastGoesHome, KnownTargetServed
<1>4. CASE Tick
  <2>1. /\ book' = {Aged(e) : e \in book} /\ flow' = None /\ last' = last
        /\ heard' = [s \in Systems |-> [p \in Ifaces |-> Older(heard[s][p])]]
        /\ calls' = calls /\ last = None
    BY <1>0, <1>4 DEF Tick, Aged, TypeOK
  <2>2. Good(book', heard')
    BY <1>0, <2>1, TickGood DEF TypeOK
  <2>3. heard' \in [Systems -> [Ifaces -> Age]]
    BY <1>0, <2>1, OlderAge DEF TypeOK
  <2> QED  BY <1>0, <2>1, <2>2, <2>3
             DEF Inv, TypeOK, Good, UnicastGoesHome, KnownTargetServed
<1>5. CASE UNCHANGED vars
  BY <1>0, <1>5 DEF vars, Inv, TypeOK, UnicastGoesHome, KnownTargetServed
<1> QED  BY <1>1, <1>2, <1>3, <1>4, <1>5 DEF Next

-----------------------------------------------------------------------------
(* The boot: what BridgeSetup makes of the saved roles                      *)

(* How far the boot has come. *)
Early == {"load", "mode", "bluetooth", "devices"}
Built == {"register", "running"}

(* What exists is what the roles ask for; UART1 is there only with all the   *)
(* interfaces of the mode.                                                   *)
PresentHolds ==
    /\ "bt" \in present => build # "plain" /\ config.d5 # "NONE"
    /\ present \subseteq CommonDevices(config) \union Transport(config) \union {"bt"}
    /\ pc \in Early => present \subseteq {"bt"}
    /\ "uart1" \in present =>
          /\ CommonDevices(config) \subseteq present
          /\ mode = "NET" => Transport(config) \subseteq present

(* What each step made is still what it made of the same roles. *)
MadeHolds ==
    /\ tasks = IF pc \in Built \cup {"bridge"}
               THEN {"bridge"} \union If(NeedSenderTask(build, config), {"sender"})
               ELSE {}
    /\ flows = IF pc \in Built THEN Flows(build, config, present) ELSE {}
    /\ senders = IF pc \in Built THEN SendersOf(build, config, present) ELSE {}
    /\ outputs = IF pc = "running" THEN SbusOutputs(build, config) \cap senders ELSE {}

SetupInv ==
    /\ build \in Builds /\ build \in AllBuilds /\ config \in AllConfigs /\ quick \in BOOLEAN
    /\ mode \in {"STANDALONE", "NET"}
    /\ pc \in Early \cup {"tasks", "bridge"} \cup Built
    /\ pc = "load" => present = {}
    /\ PresentHolds /\ MadeHolds

-----------------------------------------------------------------------------
(* Which flows give packets, and to whom                                    *)

(* A flow whose parser returns packets: from UART1, from the log, or from one *)
(* device to UART1.                                                           *)
FromDevice(b, c, phys, parser) ==
    \/ phys = "USB" /\ (c.d2 = "USB" \/ parser = "RAW")
    \/ phys = "UDP" /\ c.d4 = "NETWORK_BRIDGE"
    \/ phys = "UART2" /\ c.d2 = "UART2"
    \/ phys = "UART3" /\ (c.d3 = "UART3_BRIDGE" \/ parser = "RAW")
    \/ phys = "BT" /\ b # "plain" /\ c.d5 = "BT_BRIDGE"
PacketFlow(f, b, c) ==
    \/ f.phys = "UART1" /\ f.to = TelemetryMask(b, c)
    \/ f.phys = "NONE" /\ f.to = {"UDP"} /\ c.d4 = "LOG_NETWORK"
    \/ f.to = {"UART1"} /\ FromDevice(b, c, f.phys, f.parser)

LEMMA PacketFlows ==
    ASSUME NEW b, NEW c, NEW up, NEW f \in Flows(b, c, up), Packets(f)
    PROVE  PacketFlow(f, b, c)
  <1>1. CASE f \in ReceiverFlows(b, c)
    <2>1. f.parser \in {"SBUS_DEVICE1", "SBUS_DEVICE2", "SBUS_DEVICE3", "CRSF"}
      BY <1>1 DEF ReceiverFlows, If, Flow
    <2> QED BY <2>1 DEF Packets, SbusParsers
  <1>2. CASE f \in Telemetry(b, c)
    BY <1>2 DEF Telemetry, If, Flow, PacketFlow
  <1>3. CASE f \in LoggerFlow(c)
    BY <1>3 DEF LoggerFlow, If, Flow, PacketFlow
  <1>4. CASE f \in UsbInput(c)
    BY <1>4 DEF UsbInput, If, Flow, PacketFlow, FromDevice
  <1>5. CASE f \in UdpInput(c)
    BY <1>5 DEF UdpInput, If, Flow, PacketFlow, FromDevice
  <1>6. CASE f \in Uart2Input(c)
    BY <1>6 DEF Uart2Input, If, Flow, PacketFlow, FromDevice
  <1>7. CASE f \in Uart3Input(c)
    BY <1>7 DEF Uart3Input, If, Flow, PacketFlow, FromDevice
  <1>8. CASE f \in BtInput(b, c, up)
    BY <1>8 DEF BtInput, If, Flow, PacketFlow, FromDevice
  <1>9. CASE f \in CrsfReverse(c)
    BY <1>9 DEF CrsfReverse, If, Flow, PacketFlow, FromDevice
  <1>10. CASE f \in SbusOutput(c)
    <2>1. f.parser = "SBUS_DEVICE1"
      BY <1>10 DEF SbusOutput, If, Flow
    <2> QED BY <2>1 DEF Packets, SbusParsers
  <1>11. CASE f \in UdpSbusInput(c)
    <2>1. f.parser = "SBUS_UDP"
      BY <1>11 DEF UdpSbusInput, If, Flow
    <2> QED BY <2>1 DEF Packets, SbusParsers
  <1>12. CASE f \in SbusUdpOutput(c)
    <2>1. f.parser = "SBUS_DEVICE1"
      BY <1>12 DEF SbusUdpOutput, If, Flow
    <2> QED BY <2>1 DEF Packets, SbusParsers
  <1> QED BY <1>1, <1>2, <1>3, <1>4, <1>5, <1>6, <1>7, <1>8, <1>9, <1>10, <1>11, <1>12
       DEF Flows

-----------------------------------------------------------------------------
(* The three static properties                                              *)

LEMMA ServedIfQueued ==
    ASSUME NEW b, NEW c, NEW up, NEW s, s # "UART1", s \in SendersOf(b, c, up),
           \/ s \in TelemetryMask(b, c)
           \/ s = "UDP" /\ c.d4 = "LOG_NETWORK"
           \/ FromDevice(b, c, s, "MAVLINK")
    PROVE  NeedSenderTask(b, c) /\ s \notin Skipped(c)
  <1>1. \/ s = "USB" /\ c.d2 = "USB"
        \/ s = "UART2" /\ c.d2 = "UART2"
        \/ s = "UART3" /\ c.d3 \in {"UART3_MIRROR", "UART3_BRIDGE"}
        \/ s = "UDP" /\ c.d4 \in {"NETWORK_BRIDGE", "LOG_NETWORK"}
        \/ s = "BT" /\ b # "plain" /\ c.d5 = "BT_BRIDGE"
    BY DEF TelemetryMask, If, FromDevice
  <1>2. NeedSenderTask(b, c)
    BY <1>1 DEF NeedSenderTask
  <1>3. s \notin Skipped(c)
    BY <1>1 DEF Skipped, If
  <1> QED BY <1>2, <1>3

LEMMA SetupServes == SetupInv => QueuesAreServed
  <1> SUFFICES ASSUME SetupInv, pc = "running", NEW s \in Queued \ {"UART1"}
               PROVE  "sender" \in tasks /\ s \notin Skipped(config)
    BY DEF QueuesAreServed
  <1>1. /\ flows = Flows(build, config, present)
        /\ senders = SendersOf(build, config, present)
        /\ tasks = {"bridge"} \union If(NeedSenderTask(build, config), {"sender"})
    BY DEF SetupInv, MadeHolds, Built
  <1>2. CASE \E f \in flows : Packets(f) /\ s \in f.to
    <2>1. PICK f \in flows : Packets(f) /\ s \in f.to
      BY <1>2
    <2>2. PacketFlow(f, build, config)
      BY <1>1, <2>1, PacketFlows
    <2>3. s \in TelemetryMask(build, config) \/ (s = "UDP" /\ config.d4 = "LOG_NETWORK")
      BY <2>1, <2>2 DEF PacketFlow
    <2>4. NeedSenderTask(build, config) /\ s \notin Skipped(config)
      BY <1>1, <2>3, ServedIfQueued DEF Queued
    <2> QED BY <1>1, <2>4 DEF If
  <1>3. CASE s \in Heard
    <2>1. PICK f \in flows : f.parser = "MAVLINK" /\ s = f.phys
      BY <1>3 DEF Heard
    <2>2. Packets(f)
      BY <2>1 DEF Packets, SbusParsers
    <2>3. PacketFlow(f, build, config)
      BY <1>1, <2>2, PacketFlows
    <2>4. s \in senders /\ s # "UART1" /\ s # "NONE"
      BY <1>1 DEF Queued, SendersOf, If
    <2>5. FromDevice(build, config, s, "MAVLINK")
      BY <2>1, <2>3, <2>4 DEF PacketFlow
    <2>6. NeedSenderTask(build, config) /\ s \notin Skipped(config)
      BY <1>1, <2>4, <2>5, ServedIfQueued
    <2> QED BY <1>1, <2>6 DEF If
  <1>4. s \in Heard \/ \E f \in flows : Packets(f) /\ s \in f.to
    BY DEF Queued
  <1> QED BY <1>2, <1>3, <1>4

(* The two flows of a bridge. *)
LEMMA BridgeFlows ==
    ASSUME NEW b, NEW c, NEW up, c.d1 = "UART1", ~HasSbusDevice(c),
           NEW s \in {"USB", "UART2", "UART3", "UDP", "BT"},
           \/ s = "USB" /\ c.d2 = "USB"
           \/ s = "UART2" /\ c.d2 = "UART2"
           \/ s = "UART3" /\ c.d3 = "UART3_BRIDGE"
           \/ s = "UDP" /\ c.d4 = "NETWORK_BRIDGE"
           \/ s = "BT" /\ b = "spp" /\ c.d5 = "BT_BRIDGE" /\ "bt" \in up
    PROVE  /\ \E f \in Flows(b, c, up) : f.phys = "UART1" /\ s \in f.to /\ Packets(f)
           /\ \E f \in Flows(b, c, up) :
                 /\ f.phys = s /\ "UART1" \in f.to /\ Packets(f) /\ f.input
                 /\ f.buf = CASE s = "USB" -> "usb" [] s = "UART2" -> "uart2"
                              [] s = "UART3" -> "uart3" [] s = "UDP" -> "udp"
                              [] OTHER -> "bt"
                 /\ f.buf \in Buffers(b, c)
  <1>1. BridgeParser(c) \notin SbusParsers \union {"CRSF"}
    BY DEF BridgeParser, SbusParsers
  <1>2. s \in TelemetryMask(b, c)
    BY DEF TelemetryMask, If
  <1>3. \E f \in Flows(b, c, up) : f.phys = "UART1" /\ s \in f.to /\ Packets(f)
    <2> DEFINE f == Flow("Telemetry", "uart1", "UART1", TelemetryMask(b, c), FALSE,
                               BridgeParser(c))
    <2>1. /\ f.phys = "UART1" /\ f.to = TelemetryMask(b, c) /\ f.buf = "uart1"
          /\ f.parser = BridgeParser(c)
      BY DEF Flow
    <2>2. f \in Telemetry(b, c)
      BY <1>2 DEF Telemetry, If
    <2> HIDE DEF f
    <2>3. "uart1" \in Buffers(b, c)
      BY DEF Buffers
    <2>4. f \in Flows(b, c, up)
      BY <2>1, <2>2, <2>3 DEF Flows
    <2>5. Packets(f)
      BY <1>1, <2>1 DEF Packets
    <2> QED BY <1>2, <2>1, <2>4, <2>5
  <1>4. \E f \in Flows(b, c, up) :
           /\ f.phys = s /\ "UART1" \in f.to /\ Packets(f) /\ f.input
           /\ f.buf = CASE s = "USB" -> "usb" [] s = "UART2" -> "uart2"
                        [] s = "UART3" -> "uart3" [] s = "UDP" -> "udp" [] OTHER -> "bt"
           /\ f.buf \in Buffers(b, c)
    <2> DEFINE back(n, x) == Flow(n, x, s, {"UART1"}, TRUE, BridgeParser(c))
    <2>1. ASSUME NEW n, NEW x, x \in Buffers(b, c),
                 back(n, x) \in UsbInput(c) \union UdpInput(c) \union Uart2Input(c)
                                  \union Uart3Input(c) \union BtInput(b, c, up)
          PROVE  \E f \in Flows(b, c, up) :
                    /\ f.phys = s /\ "UART1" \in f.to /\ Packets(f) /\ f.input
                    /\ f.buf = x
      <3> DEFINE f == back(n, x)
      <3>1. /\ f.phys = s /\ f.to = {"UART1"} /\ f.buf = x /\ f.input
            /\ f.parser = BridgeParser(c)
        BY DEF Flow
      <3>2. f \in UsbInput(c) \union UdpInput(c) \union Uart2Input(c)
                    \union Uart3Input(c) \union BtInput(b, c, up)
        BY <2>1
      <3> HIDE DEF f
      <3>3. f \in Flows(b, c, up)
        BY <2>1, <3>1, <3>2 DEF Flows
      <3>4. Packets(f)
        BY <1>1, <3>1 DEF Packets
      <3> QED BY <3>1, <3>3, <3>4
    <2>2. CASE s = "USB"
      <3>1. back("USB_Input", "usb") \in UsbInput(c) /\ "usb" \in Buffers(b, c)
        BY <2>2 DEF UsbInput, If, Buffers, UsbBuffer
      <3> HIDE DEF back
      <3> QED BY <2>1, <2>2, <3>1
    <2>3. CASE s = "UART2"
      <3>1. back("UART2_Input", "uart2") \in Uart2Input(c) /\ "uart2" \in Buffers(b, c)
        BY <2>3 DEF Uart2Input, If, Buffers, Uart2Buffer
      <3> HIDE DEF back
      <3> QED BY <2>1, <2>3, <3>1
    <2>4. CASE s = "UART3"
      <3>1. back("UART3_Input", "uart3") \in Uart3Input(c) /\ "uart3" \in Buffers(b, c)
        BY <2>4 DEF Uart3Input, If, Buffers, Uart3Buffer
      <3> HIDE DEF back
      <3> QED BY <2>1, <2>4, <3>1
    <2>5. CASE s = "UDP"
      <3>1. back("UDP_Input", "udp") \in UdpInput(c) /\ "udp" \in Buffers(b, c)
        BY <2>5 DEF UdpInput, If, Buffers, UdpBuffer
      <3> HIDE DEF back
      <3> QED BY <2>1, <2>5, <3>1
    <2>6. CASE s = "BT"
      <3>1. back("BT_Input", "bt") \in BtInput(b, c, up) /\ "bt" \in Buffers(b, c)
        BY <2>6 DEF BtInput, If, Buffers, BtBuffer
      <3> HIDE DEF back
      <3> QED BY <2>1, <2>6, <3>1
    <2> QED BY <2>2, <2>3, <2>4, <2>5, <2>6
  <1> QED BY <1>3, <1>4

LEMMA SetupBridges == SetupInv => BridgesBothWays
  <1> SUFFICES ASSUME SetupInv, PlainBridge,
                      NEW s \in Bridging \ If(build = "ble", {"BT"})
               PROVE  TwoWay(s)
    BY DEF BridgesBothWays
  <1>1. /\ pc = "running" /\ "uart1" \in present /\ config.d1 = "UART1"
        /\ ~HasSbusDevice(config)
    BY DEF PlainBridge
  <1>2. /\ flows = Flows(build, config, present)
        /\ senders = SendersOf(build, config, present)
    BY <1>1 DEF SetupInv, MadeHolds, Built
  <1>3. /\ CommonDevices(config) \subseteq present
        /\ mode = "NET" => Transport(config) \subseteq present
        /\ "bt" \in present => build # "plain" /\ config.d5 # "NONE"
    BY <1>1 DEF SetupInv, PresentHolds
  <1>4. build \in {"plain", "spp", "ble"}
    BY DEF SetupInv, AllBuilds
  <1>5. /\ s \in {"USB", "UART2", "UART3", "UDP", "BT"}
        /\ \/ s = "USB" /\ config.d2 = "USB"
           \/ s = "UART2" /\ config.d2 = "UART2"
           \/ s = "UART3" /\ config.d3 = "UART3_BRIDGE"
           \/ s = "UDP" /\ config.d4 = "NETWORK_BRIDGE" /\ mode = "NET"
           \/ s = "BT" /\ build = "spp" /\ config.d5 = "BT_BRIDGE" /\ "bt" \in present
    BY <1>3, <1>4 DEF Bridging, If
  <1>6. s \in senders
    <2>1. \/ s = "USB" /\ "usb" \in present
          \/ s = "UART2" /\ "dev2" \in present
          \/ s = "UART3" /\ "dev3" \in present
          \/ s = "UDP" /\ "udp" \in present
          \/ s = "BT" /\ "bt" \in present
      BY <1>3, <1>5 DEF CommonDevices, Transport, If
    <2> QED BY <1>2, <1>5, <2>1 DEF SendersOf, If
  <1>7. /\ s = "USB" => "usb" \in Fed
        /\ s = "UART2" => "uart2" \in Fed
        /\ s = "UART3" => "uart3" \in Fed
        /\ s = "UDP" => "udp" \in Fed
        /\ s = "BT" => "bt" \in Fed
    BY <1>3, <1>5 DEF Fed, CommonDevices, Transport, If
  <1>8. /\ \E f \in flows : f.phys = "UART1" /\ s \in f.to /\ Packets(f)
        /\ \E f \in flows : 
                 /\ f.phys = s /\ "UART1" \in f.to /\ Packets(f) /\ f.input
                 /\ f.buf = CASE s = "USB" -> "usb" [] s = "UART2" -> "uart2"
                              [] s = "UART3" -> "uart3" [] s = "UDP" -> "udp"
                              [] OTHER -> "bt"
    BY <1>1, <1>2, <1>5, BridgeFlows
  <1>9. PICK f \in flows : /\ f.phys = s /\ "UART1" \in f.to /\ Packets(f) /\ f.input
                           /\ f.buf = CASE s = "USB" -> "usb" [] s = "UART2" -> "uart2"
                                        [] s = "UART3" -> "uart3" [] s = "UDP" -> "udp"
                                        [] OTHER -> "bt"
    BY <1>8
  <1>10. f.buf \in Fed
    BY <1>5, <1>7, <1>9
  <1> QED BY <1>6, <1>8, <1>9, <1>10 DEF TwoWay

(* Every wired receiver has a flow that names it and is fed. *)
LEMMA ReceiverHasFlow ==
    ASSUME NEW b, NEW c, NEW up, NEW src,
           \/ src = "SBUS_DEVICE1" /\ c.d1 = "SBUS_IN"
           \/ src = "SBUS_DEVICE2" /\ c.d2 = "SBUS_IN"
           \/ src = "SBUS_DEVICE3" /\ c.d3 = "SBUS_IN"
    PROVE  \E f \in Flows(b, c, up) :
              /\ f.parser = src /\ f.input
              /\ f.buf = CASE src = "SBUS_DEVICE1" -> "uart1" [] src = "SBUS_DEVICE2" -> "uart2"
                           [] OTHER -> "uart3"
  <1> DEFINE in(n, x, p) == Flow(n, x, p, SbusMask(b, c), TRUE, src)
  <1>1. ASSUME NEW n, NEW x, NEW p, x \in Buffers(b, c), in(n, x, p) \in ReceiverFlows(b, c)
        PROVE  \E f \in Flows(b, c, up) : f.parser = src /\ f.input /\ f.buf = x
    <2> DEFINE f == in(n, x, p)
    <2>1. f.parser = src /\ f.input /\ f.buf = x
      BY DEF Flow
    <2>2. f \in ReceiverFlows(b, c)
      BY <1>1
    <2> HIDE DEF f
    <2>3. f \in Flows(b, c, up)
      BY <1>1, <2>1, <2>2 DEF Flows
    <2> QED BY <2>1, <2>3
  <1>2. CASE src = "SBUS_DEVICE1"
    <2>1. in("Device1_SBUS_IN", "uart1", "UART1") \in ReceiverFlows(b, c)
          /\ "uart1" \in Buffers(b, c)
      BY <1>2 DEF ReceiverFlows, If, Buffers
    <2> HIDE DEF in
    <2> QED BY <1>1, <1>2, <2>1
  <1>3. CASE src = "SBUS_DEVICE2"
    <2>1. in("Device2_SBUS_IN", "uart2", "UART2") \in ReceiverFlows(b, c)
          /\ "uart2" \in Buffers(b, c)
      BY <1>3 DEF ReceiverFlows, If, Buffers, Uart2Buffer
    <2> HIDE DEF in
    <2> QED BY <1>1, <1>3, <2>1
  <1>4. CASE src = "SBUS_DEVICE3"
    <2>1. in("Device3_SBUS_IN", "uart3", "UART3") \in ReceiverFlows(b, c)
          /\ "uart3" \in Buffers(b, c)
      BY <1>4 DEF ReceiverFlows, If, Buffers, Uart3Buffer
    <2> HIDE DEF in
    <2> QED BY <1>1, <1>4, <2>1
  <1> QED BY <1>2, <1>3, <1>4

LEMMA NetworkHasFlow ==
    ASSUME NEW b, NEW c, NEW up, c.d4 = "SBUS_UDP_RX", c.d2 = "SBUS_OUT" \/ c.d3 = "SBUS_OUT"
    PROVE  \E f \in Flows(b, c, up) : f.parser = "SBUS_UDP" /\ f.buf = "udp"
  <1> DEFINE f == Flow("UDP_SBUS_Input", "udp", "UDP", {}, TRUE, "SBUS_UDP")
  <1>1. f.parser = "SBUS_UDP" /\ f.buf = "udp"
    BY DEF Flow
  <1>2. f \in UdpSbusInput(c)
    BY DEF UdpSbusInput, If
  <1> HIDE DEF f
  <1>3. "udp" \in Buffers(b, c)
    BY DEF Buffers, UdpBuffer, If
  <1>4. f \in Flows(b, c, up)
    BY <1>1, <1>2, <1>3 DEF Flows
  <1> QED BY <1>1, <1>4

(* An output that the roles ask for has a sender, if its interface is there. *)
LEMMA OutputHasSender ==
    ASSUME NEW b, NEW c, NEW up,
           \/ c.d2 = "SBUS_OUT" /\ "dev2" \in up
           \/ c.d2 = "USB_SBUS_TEXT" /\ "usb" \in up
           \/ c.d3 = "SBUS_OUT" /\ "dev3" \in up
           \/ c.d4 = "SBUS_UDP_TX" /\ "udp" \in up
           \/ b # "plain" /\ c.d5 = "BT_SBUS_TEXT" /\ "bt" \in up,
           HasSbusDevice(c) \/ c.d4 \in {"SBUS_UDP_RX", "SBUS_UDP_TX"}
    PROVE  SbusOutputs(b, c) \cap SendersOf(b, c, up) # {}
  <1>1. CASE c.d2 = "SBUS_OUT" /\ "dev2" \in up
    <2>1. "UART2" \in SbusOutputs(b, c) /\ "UART2" \in SendersOf(b, c, up)
      BY <1>1 DEF SbusOutputs, SendersOf, If
    <2> QED BY <2>1
  <1>2. CASE c.d2 = "USB_SBUS_TEXT" /\ "usb" \in up
    <2>1. "USB" \in SbusOutputs(b, c) /\ "USB" \in SendersOf(b, c, up)
      BY <1>2 DEF SbusOutputs, SendersOf, If
    <2> QED BY <2>1
  <1>3. CASE c.d3 = "SBUS_OUT" /\ "dev3" \in up
    <2>1. "UART3" \in SbusOutputs(b, c) /\ "UART3" \in SendersOf(b, c, up)
      BY <1>3 DEF SbusOutputs, SendersOf, If
    <2> QED BY <2>1
  <1>4. CASE c.d4 = "SBUS_UDP_TX" /\ "udp" \in up
    <2>1. "UDP" \in SbusOutputs(b, c) /\ "UDP" \in SendersOf(b, c, up)
      BY <1>4 DEF SbusOutputs, SendersOf, If
    <2> QED BY <2>1
  <1>5. CASE b # "plain" /\ c.d5 = "BT_SBUS_TEXT" /\ "bt" \in up
    <2>1. "BT" \in SbusOutputs(b, c) /\ "BT" \in SendersOf(b, c, up)
      BY <1>5 DEF SbusOutputs, SendersOf, If
    <2> QED BY <2>1
  <1> QED BY <1>1, <1>2, <1>3, <1>4, <1>5

LEMMA SetupReaches == SetupInv => SbusReachesOutputs
  <1> SUFFICES ASSUME SetupInv, pc = "running", "uart1" \in present,
                      Accepted(build, config)
               PROVE  /\ \A src \in Sources \ {"SBUS_UDP"} :
                            \E f \in flows : f.parser = src /\ f.buf \in Fed /\ f.input
                      /\ Sources # {} =>
                            \/ outputs # {}
                            \/ config.d4 = "SBUS_UDP_TX" /\ "udp" \notin present
                            \/ config.d5 = "BT_SBUS_TEXT" /\ "bt" \notin present
                      /\ "SBUS_UDP" \in Sources /\ mode = "NET"
                           /\ outputs \cap {"UART2", "UART3"} # {} =>
                            \E f \in flows : f.parser = "SBUS_UDP" /\ f.buf \in Fed
    BY DEF SbusReachesOutputs
  <1>1. /\ flows = Flows(build, config, present)
        /\ senders = SendersOf(build, config, present)
        /\ outputs = SbusOutputs(build, config) \cap senders
    BY DEF SetupInv, MadeHolds, Built
  <1>2. /\ CommonDevices(config) \subseteq present
        /\ mode = "NET" => Transport(config) \subseteq present
    BY DEF SetupInv, PresentHolds
  <1>3. ASSUME NEW src \in Sources \ {"SBUS_UDP"}
        PROVE  \E f \in flows : f.parser = src /\ f.buf \in Fed /\ f.input
    <2>1. \/ src = "SBUS_DEVICE1" /\ config.d1 = "SBUS_IN"
          \/ src = "SBUS_DEVICE2" /\ config.d2 = "SBUS_IN"
          \/ src = "SBUS_DEVICE3" /\ config.d3 = "SBUS_IN"
      BY <1>3 DEF Sources, If
    <2>2. /\ src = "SBUS_DEVICE1" => "uart1" \in Fed
          /\ src = "SBUS_DEVICE2" => "uart2" \in Fed
          /\ src = "SBUS_DEVICE3" => "uart3" \in Fed
      BY <1>2, <2>1 DEF Fed, CommonDevices, If
    <2>3. PICK f \in flows : /\ f.parser = src /\ f.input
                             /\ f.buf = CASE src = "SBUS_DEVICE1" -> "uart1"
                                          [] src = "SBUS_DEVICE2" -> "uart2" [] OTHER -> "uart3"
      BY <1>1, <2>1, ReceiverHasFlow
    <2> QED BY <2>1, <2>2, <2>3
  <1>4. ASSUME Sources # {}, ~(config.d4 = "SBUS_UDP_TX" /\ "udp" \notin present),
               ~(config.d5 = "BT_SBUS_TEXT" /\ "bt" \notin present)
        PROVE  outputs # {}
    <2>1. \/ config.d1 = "SBUS_IN" \/ config.d2 = "SBUS_IN"
          \/ config.d3 = "SBUS_IN" \/ config.d4 = "SBUS_UDP_RX"
      BY <1>4 DEF Sources, If
    <2>2. \/ config.d2 \in {"SBUS_OUT", "USB_SBUS_TEXT"} \/ config.d3 = "SBUS_OUT"
          \/ config.d4 = "SBUS_UDP_TX"
          \/ build # "plain" /\ config.d5 = "BT_SBUS_TEXT"
      BY <2>1 DEF Accepted
    <2>3. \/ config.d2 = "SBUS_OUT" /\ "dev2" \in present
          \/ config.d2 = "USB_SBUS_TEXT" /\ "usb" \in present
          \/ config.d3 = "SBUS_OUT" /\ "dev3" \in present
          \/ config.d4 = "SBUS_UDP_TX" /\ "udp" \in present
          \/ build # "plain" /\ config.d5 = "BT_SBUS_TEXT" /\ "bt" \in present
      BY <1>2, <1>4, <2>2 DEF CommonDevices, If
    <2>4. HasSbusDevice(config) \/ config.d4 \in {"SBUS_UDP_RX", "SBUS_UDP_TX"}
      BY <2>1 DEF HasSbusDevice
    <2> QED BY <1>1, <2>3, <2>4, OutputHasSender
  <1>5. ASSUME "SBUS_UDP" \in Sources, mode = "NET", outputs \cap {"UART2", "UART3"} # {}
        PROVE  \E f \in flows : f.parser = "SBUS_UDP" /\ f.buf \in Fed
    <2>1. config.d4 = "SBUS_UDP_RX"
      BY <1>5 DEF Sources, If
    <2>2. config.d2 = "SBUS_OUT" \/ config.d3 = "SBUS_OUT"
      BY <1>1, <1>5 DEF SbusOutputs, If
    <2>3. "udp" \in Fed
      BY <1>2, <1>5, <2>1 DEF Fed, Transport, If
    <2>4. PICK f \in flows : f.parser = "SBUS_UDP" /\ f.buf = "udp"
      BY <1>1, <2>1, <2>2, NetworkHasFlow
    <2> QED BY <2>3, <2>4
  <1> QED BY <1>3, <1>4, <1>5

-----------------------------------------------------------------------------
(* Every step of the boot keeps the invariant.                              *)

LEMMA CorrectedIsConfig ==
    ASSUME NEW c \in AllConfigs PROVE Corrected(c) \in AllConfigs
  <1>1. /\ c.d1 \in D1Roles /\ c.d2 \in D2Roles /\ c.d3 \in D3Roles
        /\ c.d4 \in D4Roles /\ c.d5 \in D5Roles
        /\ c.proto \in Protocols /\ c.routing \in BOOLEAN
        /\ c = [d1 |-> c.d1, d2 |-> c.d2, d3 |-> c.d3, d4 |-> c.d4, d5 |-> c.d5,
                proto |-> c.proto, routing |-> c.routing]
    BY DEF AllConfigs
  <1>2. "NONE" \in D2Roles /\ "NONE" \in D3Roles
    BY DEF D2Roles, D3Roles
  <1>3. WithoutConversion(c) \in AllConfigs
    BY <1>1, <1>2 DEF AllConfigs, WithoutConversion
  <1>4. \A d : d.proto \in Protocols => ProtocolOf(d) \in Protocols
    BY DEF ProtocolOf, Protocols
  <1>5. ASSUME NEW d \in AllConfigs, NEW p \in Protocols
        PROVE  [d EXCEPT !.proto = p] \in AllConfigs
    BY DEF AllConfigs
  <1>6. WithoutConversion(c).proto \in Protocols
    BY <1>3 DEF AllConfigs
  <1> QED BY <1>3, <1>4, <1>5, <1>6 DEF Corrected

LEMMA SetupInit == BootInit => SetupInv
  <1> SUFFICES ASSUME BootInit PROVE SetupInv
    OBVIOUS
  <1>1. build \in Builds /\ build \in AllBuilds /\ config \in AllConfigs
    BY SetupAssumption DEF BootInit
  <1>2. pc = "load" /\ mode = "STANDALONE" /\ quick = FALSE /\ present = {}
    BY DEF BootInit
  <1>3. PresentHolds
    BY <1>2 DEF PresentHolds
  <1>4. MadeHolds
    BY DEF BootInit, MadeHolds, Built
  <1> QED BY <1>1, <1>2, <1>3, <1>4 DEF SetupInv, Early

LEMMA SetupLoad == SetupInv /\ Load => SetupInv'
  <1> SUFFICES ASSUME SetupInv, Load PROVE SetupInv'
    OBVIOUS
  <1>1. /\ pc' = "mode" /\ config' = Corrected(config)
        /\ build' = build /\ mode' = mode /\ quick' = quick /\ present' = {}
        /\ tasks' = {} /\ flows' = {} /\ senders' = {} /\ outputs' = {}
    BY DEF Load, SetupInv, MadeHolds, Built
  <1>2. config' \in AllConfigs
    BY <1>1, CorrectedIsConfig DEF SetupInv
  <1>3. PresentHolds'
    BY <1>1 DEF PresentHolds
  <1>4. MadeHolds'
    BY <1>1 DEF MadeHolds, Built
  <1> QED BY <1>1, <1>2, <1>3, <1>4 DEF SetupInv, Early

LEMMA SetupDetectMode == SetupInv /\ DetectMode => SetupInv'
  <1> SUFFICES ASSUME SetupInv, DetectMode PROVE SetupInv'
    OBVIOUS
  <1>1. /\ pc = "mode" /\ pc' = "bluetooth"
        /\ mode' \in {"STANDALONE", "NET"} /\ quick' \in BOOLEAN
        /\ build' = build /\ config' = config /\ present' = present
        /\ tasks' = tasks /\ flows' = flows /\ senders' = senders /\ outputs' = outputs
    BY DEF DetectMode
  <1>2. present \subseteq {"bt"} /\ "uart1" \notin present
    BY <1>1 DEF SetupInv, PresentHolds, Early
  <1>3. PresentHolds'
    BY <1>1, <1>2 DEF SetupInv, PresentHolds
  <1>4. MadeHolds'
    BY <1>1 DEF SetupInv, MadeHolds, Built
  <1> QED BY <1>1, <1>3, <1>4 DEF SetupInv, Early

LEMMA SetupBluetooth == SetupInv /\ InitBluetooth => SetupInv'
  <1> SUFFICES ASSUME SetupInv, InitBluetooth PROVE SetupInv'
    OBVIOUS
  <1>1. /\ pc = "bluetooth" /\ pc' = "devices"
        /\ \/ present' = present
           \/ present' = present \union {"bt"} /\ build # "plain" /\ config.d5 # "NONE"
        /\ build' = build /\ config' = config /\ mode' = mode /\ quick' = quick
        /\ tasks' = tasks /\ flows' = flows /\ senders' = senders /\ outputs' = outputs
    BY DEF InitBluetooth
  <1>2. present \subseteq {"bt"} /\ "uart1" \notin present
    BY <1>1 DEF SetupInv, PresentHolds, Early
  <1>3. present' \subseteq {"bt"} /\ "uart1" \notin present'
    BY <1>1, <1>2
  <1>4. PresentHolds'
    BY <1>1, <1>3 DEF SetupInv, PresentHolds
  <1>5. MadeHolds'
    BY <1>1 DEF SetupInv, MadeHolds, Built
  <1> QED BY <1>1, <1>4, <1>5 DEF SetupInv, Early

LEMMA SetupStandalone == SetupInv /\ InitStandalone => SetupInv'
  <1> SUFFICES ASSUME SetupInv, InitStandalone PROVE SetupInv'
    OBVIOUS
  <1>1. /\ pc = "devices" /\ pc' = "tasks" /\ mode = "STANDALONE"
        /\ present' = present \union CommonDevices(config)
        /\ build' = build /\ config' = config /\ mode' = mode /\ quick' = quick
        /\ tasks' = tasks /\ flows' = flows /\ senders' = senders /\ outputs' = outputs
    BY DEF InitStandalone
  <1>2. "bt" \notin CommonDevices(config)
    BY DEF CommonDevices, If
  <1>3. PresentHolds'
    BY <1>1, <1>2 DEF SetupInv, PresentHolds, Early
  <1>4. MadeHolds'
    BY <1>1 DEF SetupInv, MadeHolds, Built
  <1> QED BY <1>1, <1>3, <1>4 DEF SetupInv, Early

LEMMA SetupNetwork == SetupInv /\ InitNetwork => SetupInv'
  <1> SUFFICES ASSUME SetupInv, InitNetwork PROVE SetupInv'
    OBVIOUS
  <1>1. /\ pc = "devices" /\ pc' = "tasks"
        /\ \/ present' = present
           \/ present' = present \union CommonDevices(config)
                                  \union Transport(config)
        /\ build' = build /\ config' = config /\ mode' = mode /\ quick' = quick
        /\ tasks' = tasks /\ flows' = flows /\ senders' = senders /\ outputs' = outputs
    BY DEF InitNetwork, If
  <1>2. "bt" \notin CommonDevices(config) \union Transport(config)
    BY DEF CommonDevices, Transport, If
  <1>3. PresentHolds'
    BY <1>1, <1>2 DEF SetupInv, PresentHolds, Early
  <1>4. MadeHolds'
    BY <1>1 DEF SetupInv, MadeHolds, Built
  <1> QED BY <1>1, <1>3, <1>4 DEF SetupInv, Early

(* The steps that leave what exists alone. *)
LEMMA PresentKept ==
    ASSUME SetupInv, pc' \in {"tasks", "bridge"} \cup Built, build' = build,
           config' = config, mode' = mode, present' = present
    PROVE  PresentHolds'
  <1>1. pc' \notin Early
    BY DEF Early, Built
  <1> QED BY <1>1 DEF SetupInv, PresentHolds

LEMMA SetupCreateTasks == SetupInv /\ CreateTasks => SetupInv'
  <1> SUFFICES ASSUME SetupInv, CreateTasks PROVE SetupInv'
    OBVIOUS
  <1>1. /\ pc = "tasks" /\ pc' = "bridge"
        /\ tasks' = {"bridge"} \union If(NeedSenderTask(build, config), {"sender"})
        /\ build' = build /\ config' = config /\ mode' = mode /\ quick' = quick
        /\ present' = present /\ flows' = flows /\ senders' = senders /\ outputs' = outputs
    BY DEF CreateTasks
  <1>2. MadeHolds'
    BY <1>1 DEF SetupInv, MadeHolds, Built
  <1>3. PresentHolds'
    BY <1>1, PresentKept
  <1> QED BY <1>1, <1>2, <1>3 DEF SetupInv, Early

LEMMA SetupPipeline == SetupInv /\ InitPipeline => SetupInv'
  <1> SUFFICES ASSUME SetupInv, InitPipeline PROVE SetupInv'
    OBVIOUS
  <1>1. /\ pc = "bridge" /\ pc' = "register"
        /\ flows' = Flows(build, config, present)
        /\ senders' = SendersOf(build, config, present)
        /\ build' = build /\ config' = config /\ mode' = mode /\ quick' = quick
        /\ present' = present /\ tasks' = tasks /\ outputs' = outputs
    BY DEF InitPipeline
  <1>2. MadeHolds'
    BY <1>1 DEF SetupInv, MadeHolds, Built
  <1>3. PresentHolds'
    BY <1>1, PresentKept DEF Built
  <1> QED BY <1>1, <1>2, <1>3 DEF SetupInv, Early, Built

LEMMA SetupRegister == SetupInv /\ RegisterSbusOutputs => SetupInv'
  <1> SUFFICES ASSUME SetupInv, RegisterSbusOutputs PROVE SetupInv'
    OBVIOUS
  <1>1. /\ pc = "register" /\ pc' = "running"
        /\ outputs' = SbusOutputs(build, config) \cap senders
        /\ build' = build /\ config' = config /\ mode' = mode /\ quick' = quick
        /\ present' = present /\ tasks' = tasks /\ flows' = flows /\ senders' = senders
    BY DEF RegisterSbusOutputs
  <1>2. MadeHolds'
    BY <1>1 DEF SetupInv, MadeHolds, Built
  <1>3. PresentHolds'
    BY <1>1, PresentKept DEF Built
  <1> QED BY <1>1, <1>2, <1>3 DEF SetupInv, Early, Built

LEMMA SetupRestart == SetupInv /\ Restart => SetupInv'
  <1> SUFFICES ASSUME SetupInv, Restart PROVE SetupInv'
    OBVIOUS
  <1>1. /\ pc' = "load" /\ mode' = "STANDALONE" /\ quick' = FALSE /\ present' = {}
        /\ build' = build /\ config' = config
        /\ tasks' = {} /\ flows' = {} /\ senders' = {} /\ outputs' = {}
    BY DEF Restart
  <1>2. PresentHolds'
    BY <1>1 DEF PresentHolds
  <1>3. MadeHolds'
    BY <1>1 DEF MadeHolds, Built
  <1> QED BY <1>1, <1>2, <1>3 DEF SetupInv, Early

LEMMA SetupStep == SetupInv /\ [BootNext]_bootVars => SetupInv'
  <1> SUFFICES ASSUME SetupInv, [BootNext]_bootVars PROVE SetupInv'
    OBVIOUS
  <1>1. CASE BootNext
    BY <1>1, SetupLoad, SetupDetectMode, SetupBluetooth, SetupStandalone, SetupNetwork,
       SetupCreateTasks, SetupPipeline, SetupRegister, SetupRestart DEF BootNext
  <1>2. CASE UNCHANGED bootVars
    <2>1. /\ build' = build /\ config' = config /\ pc' = pc /\ mode' = mode /\ quick' = quick
          /\ present' = present /\ tasks' = tasks /\ flows' = flows /\ senders' = senders
          /\ outputs' = outputs
      BY <1>2 DEF bootVars
    <2>2. PresentHolds'
      BY <2>1 DEF SetupInv, PresentHolds
    <2>3. MadeHolds'
      BY <2>1 DEF SetupInv, MadeHolds
    <2> QED BY <2>1, <2>2, <2>3 DEF SetupInv
  <1> QED BY <1>1, <1>2

-----------------------------------------------------------------------------
(* The flows fit the table of the pipeline: each device has one flow, but   *)
(* an SBUS input of Device 2 has two, and there is one SBUS output.         *)

D1Slot(b, c) ==
    IF c.d1 = "SBUS_IN"
    THEN Flow("Device1_SBUS_IN", "uart1", "UART1", SbusMask(b, c), TRUE, "SBUS_DEVICE1")
    ELSE IF c.d1 = "CRSF_IN" THEN Flow("Device1_CRSF_IN", "uart1", "UART1", {}, TRUE, "CRSF")
    ELSE Flow("Telemetry", "uart1", "UART1", TelemetryMask(b, c), FALSE,
                    BridgeParser(c))
D2Slot(b, c) ==
    IF c.d2 = "SBUS_IN"
    THEN Flow("Device2_SBUS_IN", "uart2", "UART2", SbusMask(b, c), TRUE, "SBUS_DEVICE2")
    ELSE IF c.d2 = "USB"
    THEN Flow("USB_Input", "usb", "USB", {"UART1"}, TRUE, BridgeParser(c))
    ELSE IF c.d2 = "UART2"
    THEN Flow("UART2_Input", "uart2", "UART2", {"UART1"}, TRUE, BridgeParser(c))
    ELSE Flow("USB_CRSF_Reverse", "usb", "USB", {"UART1"}, TRUE, "RAW")
D2SecondSlot(b, c) ==
    Flow("SBUS_Input_D2", "uart2", "UART2", SbusMask(b, c), TRUE, "SBUS_DEVICE2")
D3Slot(b, c) ==
    IF c.d3 = "SBUS_IN"
    THEN Flow("Device3_SBUS_IN", "uart3", "UART3", SbusMask(b, c), TRUE, "SBUS_DEVICE3")
    ELSE IF c.d3 = "UART3_BRIDGE"
    THEN Flow("UART3_Input", "uart3", "UART3", {"UART1"}, TRUE, BridgeParser(c))
    ELSE Flow("UART3_CRSF_Reverse", "uart3", "UART3", {"UART1"}, TRUE, "RAW")
D4Slot(c) ==
    IF c.d4 = "LOG_NETWORK" THEN Flow("Logger", "log", "NONE", {"UDP"}, FALSE, "LINES")
    ELSE IF c.d4 = "NETWORK_BRIDGE"
    THEN Flow("UDP_Input", "udp", "UDP", {"UART1"}, TRUE, BridgeParser(c))
    ELSE IF c.d4 = "SBUS_UDP_RX"
    THEN Flow("UDP_SBUS_Input", "udp", "UDP", {}, TRUE, "SBUS_UDP")
    ELSE Flow("SBUS_UDP_Output",
                    IF c.d1 = "SBUS_IN" THEN "uart1" ELSE IF c.d2 = "SBUS_IN" THEN "uart2" ELSE "uart3",
                    "UART1", {"UDP"}, FALSE, "SBUS_DEVICE1")
D5Slot(c) == Flow("BT_Input", "bt", "BT", {"UART1"}, TRUE, BridgeParser(c))
OutputSlot(c) ==
    Flow("SBUS_Output", "uart1", "UART1",
               IF c.d2 = "SBUS_OUT" THEN {"UART2"} ELSE {"UART3"}, FALSE, "SBUS_DEVICE1")

Slots(b, c) == {D1Slot(b, c), D2Slot(b, c), D2SecondSlot(b, c), D3Slot(b, c), D4Slot(c),
                D5Slot(c), OutputSlot(c)}

LEMMA FlowsAreSlots ==
    ASSUME NEW b, NEW c, NEW up PROVE Flows(b, c, up) \subseteq Slots(b, c)
  <1> SUFFICES ASSUME NEW f \in Flows(b, c, up) PROVE f \in Slots(b, c)
    OBVIOUS
  <1>1. CASE f \in ReceiverFlows(b, c)
    <2>1. \/ f = D1Slot(b, c) \/ f = D2Slot(b, c) \/ f = D2SecondSlot(b, c) \/ f = D3Slot(b, c)
      BY <1>1, Zenon DEF ReceiverFlows, If, D1Slot, D2Slot, D2SecondSlot, D3Slot
    <2> QED BY <2>1 DEF Slots
  <1>2. CASE f \in Telemetry(b, c)
    <2>1. f = D1Slot(b, c)
      BY <1>2 DEF Telemetry, If, D1Slot
    <2> QED BY <2>1 DEF Slots
  <1>3. CASE f \in LoggerFlow(c)
    <2>1. f = D4Slot(c)
      BY <1>3 DEF LoggerFlow, If, D4Slot
    <2> QED BY <2>1 DEF Slots
  <1>4. CASE f \in UsbInput(c)
    <2>1. f = D2Slot(b, c)
      BY <1>4 DEF UsbInput, If, D2Slot
    <2> QED BY <2>1 DEF Slots
  <1>5. CASE f \in UdpInput(c)
    <2>1. f = D4Slot(c)
      BY <1>5 DEF UdpInput, If, D4Slot
    <2> QED BY <2>1 DEF Slots
  <1>6. CASE f \in Uart2Input(c)
    <2>1. f = D2Slot(b, c)
      BY <1>6 DEF Uart2Input, If, D2Slot
    <2> QED BY <2>1 DEF Slots
  <1>7. CASE f \in Uart3Input(c)
    <2>1. f = D3Slot(b, c)
      BY <1>7 DEF Uart3Input, If, D3Slot
    <2> QED BY <2>1 DEF Slots
  <1>8. CASE f \in BtInput(b, c, up)
    <2>1. f = D5Slot(c)
      BY <1>8 DEF BtInput, If, D5Slot
    <2> QED BY <2>1 DEF Slots
  <1>9. CASE f \in CrsfReverse(c)
    <2>1. f = D2Slot(b, c) \/ f = D3Slot(b, c)
      BY <1>9 DEF CrsfReverse, If, D2Slot, D3Slot
    <2> QED BY <2>1 DEF Slots
  <1>10. CASE f \in SbusOutput(c)
    <2>1. f = OutputSlot(c)
      BY <1>10 DEF SbusOutput, If, OutputSlot
    <2> QED BY <2>1 DEF Slots
  <1>11. CASE f \in UdpSbusInput(c)
    <2>1. f = D4Slot(c)
      BY <1>11 DEF UdpSbusInput, If, D4Slot
    <2> QED BY <2>1 DEF Slots
  <1>12. CASE f \in SbusUdpOutput(c)
    <2>1. f = D4Slot(c)
      BY <1>12 DEF SbusUdpOutput, If, D4Slot
    <2> QED BY <2>1 DEF Slots
  <1> QED BY <1>1, <1>2, <1>3, <1>4, <1>5, <1>6, <1>7, <1>8, <1>9, <1>10, <1>11, <1>12
       DEF Flows

LEMMA SlotsFit ==
    ASSUME NEW b, NEW c PROVE IsFiniteSet(Slots(b, c)) /\ Cardinality(Slots(b, c)) <= 7
  <1>1. ASSUME NEW S, NEW x, NEW n \in Nat, IsFiniteSet(S), Cardinality(S) <= n
        PROVE  IsFiniteSet(S \union {x}) /\ Cardinality(S \union {x}) <= n + 1
    <2>1. /\ IsFiniteSet(S \union {x})
          /\ Cardinality(S \union {x}) \in Nat /\ Cardinality(S) \in Nat
          /\ Cardinality(S \union {x}) <= Cardinality(S) + 1
      BY <1>1, AddOne
    <2> QED BY <1>1, <2>1
  <1>2. ASSUME NEW p, NEW q, NEW r, NEW s, NEW t, NEW u, NEW v
        PROVE  IsFiniteSet({p, q, r, s, t, u, v}) /\ Cardinality({p, q, r, s, t, u, v}) <= 7
    <2>0. IsFiniteSet({}) /\ Cardinality({}) <= 0
      BY FS_EmptySet
    <2>1. IsFiniteSet({p}) /\ Cardinality({p}) <= 1
      <3>1. IsFiniteSet({} \union {p}) /\ Cardinality({} \union {p}) <= 0 + 1
        BY <1>1, <2>0
      <3>2. {} \union {p} = {p} /\ 0 + 1 = 1
        OBVIOUS
      <3> QED BY <3>1, <3>2
    <2>2. IsFiniteSet({p} \union {q}) /\ Cardinality({p} \union {q}) <= 1 + 1
      BY <1>1, <2>1
    <2>3. {p} \union {q} = {p, q} /\ 1 + 1 = 2
      OBVIOUS
    <2>4. IsFiniteSet({p, q} \union {r}) /\ Cardinality({p, q} \union {r}) <= 2 + 1
      BY <1>1, <2>2, <2>3
    <2>5. {p, q} \union {r} = {p, q, r} /\ 2 + 1 = 3
      OBVIOUS
    <2>6. IsFiniteSet({p, q, r} \union {s}) /\ Cardinality({p, q, r} \union {s}) <= 3 + 1
      BY <1>1, <2>4, <2>5
    <2>7. {p, q, r} \union {s} = {p, q, r, s} /\ 3 + 1 = 4
      OBVIOUS
    <2>8. IsFiniteSet({p, q, r, s} \union {t}) /\ Cardinality({p, q, r, s} \union {t}) <= 4 + 1
      BY <1>1, <2>6, <2>7
    <2>9. {p, q, r, s} \union {t} = {p, q, r, s, t} /\ 4 + 1 = 5
      OBVIOUS
    <2>10. /\ IsFiniteSet({p, q, r, s, t} \union {u})
           /\ Cardinality({p, q, r, s, t} \union {u}) <= 5 + 1
      BY <1>1, <2>8, <2>9
    <2>11. {p, q, r, s, t} \union {u} = {p, q, r, s, t, u} /\ 5 + 1 = 6
      OBVIOUS
    <2>12. /\ IsFiniteSet({p, q, r, s, t, u} \union {v})
           /\ Cardinality({p, q, r, s, t, u} \union {v}) <= 6 + 1
      BY <1>1, <2>10, <2>11
    <2>13. {p, q, r, s, t, u} \union {v} = {p, q, r, s, t, u, v} /\ 6 + 1 = 7
      OBVIOUS
    <2> QED BY <2>12, <2>13
  <1> QED BY <1>2 DEF Slots

LEMMA FlowsFit ==
    ASSUME NEW b, NEW c, NEW up PROVE Cardinality(Flows(b, c, up)) <= MAX_FLOWS
  <1>1. Cardinality(Flows(b, c, up)) <= Cardinality(Slots(b, c))
    BY FlowsAreSlots, SlotsFit, FS_Subset
  <1>2. Cardinality(Flows(b, c, up)) \in Nat /\ Cardinality(Slots(b, c)) \in Nat
    BY FlowsAreSlots, SlotsFit, FS_Subset, FS_CardinalityType
  <1> QED BY <1>1, <1>2, SlotsFit DEF MAX_FLOWS

LEMMA SetupTypes == SetupInv => BootTypeOK
  <1> SUFFICES ASSUME SetupInv PROVE BootTypeOK
    OBVIOUS
  <1>1. Cardinality(flows) <= MAX_FLOWS
    <2>1. CASE flows = {}
      BY <2>1, FS_EmptySet DEF MAX_FLOWS
    <2>2. CASE flows = Flows(build, config, present)
      BY <2>2, FlowsFit
    <2> QED BY <2>1, <2>2 DEF SetupInv, MadeHolds
  <1>2. present \subseteq {"uart1", "usb", "dev2", "dev3", "udp", "udpRx", "bt"}
    BY DEF SetupInv, PresentHolds, CommonDevices, Transport, If
  <1>3. tasks \subseteq {"bridge", "sender"}
    BY DEF SetupInv, MadeHolds, If
  <1>4. senders \subseteq {"USB", "UART2", "UART3", "UDP", "UART1", "BT"}
    BY DEF SetupInv, MadeHolds, SendersOf, If
  <1>5. outputs \subseteq senders
    BY DEF SetupInv, MadeHolds
  <1>6. /\ build \in Builds /\ config \in AllConfigs /\ quick \in BOOLEAN
        /\ pc \in {"load", "mode", "bluetooth", "devices", "tasks", "bridge", "register", "running"}
        /\ mode \in {"STANDALONE", "NET"}
    BY DEF SetupInv, Early, Built
  <1> QED BY <1>1, <1>2, <1>3, <1>4, <1>5, <1>6, Zenon DEF BootTypeOK

-----------------------------------------------------------------------------
(* The device                                                               *)

(* A restart is a first state of the router: it has heard nobody. *)
LEMMA ForgetsInv == Forgets => Inv'
<1>1. Forgets => Init'
  BY DEF Forgets, Init, Unheard
<1> QED  BY <1>1, InitInv, PTL

LEMMA BridgeInvariant == BridgeSpec => [](Inv /\ SetupInv)
<1>1. BridgeInit => Inv /\ SetupInv
  BY InitInv, SetupInit DEF BridgeInit
<1>2. Inv /\ SetupInv /\ [BridgeNext]_bridgeVars => Inv' /\ SetupInv'
  <2> SUFFICES ASSUME Inv, SetupInv, [BridgeNext]_bridgeVars PROVE Inv' /\ SetupInv'
    OBVIOUS
  <2>1. CASE Boots
    BY <2>1, NextInv, ForgetsInv, SetupStep DEF Boots
  <2>2. CASE Routes(Next)
    BY <2>2, NextInv, SetupStep DEF Routes
  <2>3. CASE UNCHANGED bridgeVars
    BY <2>3, NextInv, SetupStep DEF bridgeVars
  <2> QED  BY <2>1, <2>2, <2>3 DEF BridgeNext
<1> QED  BY <1>1, <1>2, PTL DEF BridgeSpec

(* Type correctness: the address book never outgrows its array. *)
THEOREM TypeCorrect == BridgeSpec => []TypeOK
<1>1. Inv => TypeOK
  BY DEF Inv
<1> QED  BY <1>1, BridgeInvariant, PTL

(* A packet that is sent to one interface is for a system that was heard     *)
(* there lately and on no other interface.                                   *)
THEOREM UnicastSafe == BridgeSpec => []UnicastGoesHome
<1>1. Inv => UnicastGoesHome
  BY DEF Inv
<1> QED  BY <1>1, BridgeInvariant, PTL

(* The interface on which the target was heard lately gets the packet. *)
THEOREM TargetServed == BridgeSpec => []KnownTargetServed
<1>1. Inv => KnownTargetServed
  BY DEF Inv
<1> QED  BY <1>1, BridgeInvariant, PTL

(* A boot makes at most the devices, senders and tasks there are, its flows  *)
(* fit the table of eight (protocol_pipeline.h) and only senders that exist  *)
(* become outputs of the SBUS router (registerSbusOutputs()).                *)
THEOREM SetupTypeOK == BridgeSpec => []BootTypeOK
  BY BridgeInvariant, SetupTypes, PTL

(* Whatever the roles, a sender that some flow or some routed packet queues  *)
(* for is emptied by a sender task that createTasks() started                *)
(* (src/src/main.cpp, setupFlows() and processSenders()).                    *)
THEOREM SetupQueuesAreServed == BridgeSpec => []QueuesAreServed
  BY BridgeInvariant, SetupServes, PTL

(* A bridge role beside a plain UART1 gets both its flows, and the one       *)
(* towards the flight controller reads a buffer that the bridge loop fills   *)
(* (setupFlows(), initProtocolBuffers(), uartBridgeTask()); except with an   *)
(* SBUS role, and the Bluetooth bridge of the BLE build.                     *)
THEOREM SetupBridgesBothWays == BridgeSpec => []BridgesBothWays
  BY BridgeInvariant, SetupBridges, PTL

(* Every wired SBUS source of an accepted configuration has a flow that is   *)
(* fed, and its frames have an output unless that one's interface is down    *)
(* (validateSbusConfig(), setupFlows(), registerSbusOutputs()).              *)
THEOREM SetupSbusReachesOutputs == BridgeSpec => []SbusReachesOutputs
  BY BridgeInvariant, SetupReaches, PTL
=============================================================================
