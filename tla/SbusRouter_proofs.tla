-------------------------- MODULE SbusRouter_proofs --------------------------
(***************************************************************************)
(* What holds of the SBUS router for every set of sources, every threshold *)
(* and delay, and whatever the web user does: its types, from whom and for *)
(* what the signal is withheld, that the Timing Keeper repeats at most one *)
(* frame of a source that lost control; and, for two sources, that control *)
(* does not bounce.                                                        *)
(***************************************************************************)
EXTENDS SbusRouter, FiniteSetTheorems, TLAPS

(* The local bestSource and the handler's argument are sources when used. *)
Chosen ==
    /\ pc \in {"switch", "reswitch"} => best \in Sources
    /\ webPc = "source" => forced \in Sources

TypeInv == TypeOK /\ Chosen

LEMMA Thresholds ==
    /\ ExcellentAge \in Nat /\ GoodAge \in Nat /\ HoldAge \in Nat /\ MediumAge \in Nat
    /\ DeadAge \in Nat /\ SwitchDelay \in Nat /\ UdpTimeout \in Nat /\ RepeatGap \in Nat
    /\ 0 < ExcellentAge /\ 0 < HoldAge /\ Oldest \in Nat /\ 0 < Oldest
  <1>1. /\ ExcellentAge \in Nat /\ GoodAge \in Nat /\ HoldAge \in Nat /\ MediumAge \in Nat
        /\ DeadAge \in Nat /\ SwitchDelay \in Nat /\ UdpTimeout \in Nat /\ RepeatGap \in Nat
    BY SbusAssumption
  <1> QED BY <1>1, SbusAssumption DEF Oldest

LEMMA OlderType ==
    ASSUME NEW last \in Nat, NEW a \in 0..last
    PROVE  Older(a, last) \in 0..last /\ Older(a, last) >= a
  BY DEF Older

(* A usable source is registered, and the best is one of them. *)
LEMMA UsableConfigured ==
    ASSUME NEW s, Usable(s) PROVE s \in Configured
  BY DEF Usable, Trust, Quality

LEMMA LeastUsable ==
    ASSUME \E s \in Sources : Usable(s)
    PROVE  \E m \in Sources : Usable(m) /\ \A t \in Sources : Usable(t) => m <= t
  <1>1. PICK s \in Sources : Usable(s)
    OBVIOUS
  <1>2. \E m \in Sources : Usable(m) /\ \A t \in Sources : Usable(t) => m <= t
    <2>1. CASE Usable(0)
      BY <2>1 DEF Sources
    <2>2. CASE ~Usable(0) /\ Usable(1)
      <3>1. \A t \in Sources : Usable(t) => 1 <= t
        BY <2>2 DEF Sources
      <3> QED BY <2>2, <3>1 DEF Sources
    <2>3. CASE ~Usable(0) /\ ~Usable(1) /\ Usable(2)
      <3>1. \A t \in Sources : Usable(t) => 2 <= t
        BY <2>3 DEF Sources
      <3> QED BY <2>3, <3>1 DEF Sources
    <2>4. CASE ~Usable(0) /\ ~Usable(1) /\ ~Usable(2)
      <3>1. \A t \in Sources : Usable(t) => 3 <= t
        BY <2>4 DEF Sources
      <3>2. Usable(3)
        BY <1>1, <2>4 DEF Sources
      <3> QED BY <3>1, <3>2 DEF Sources
    <2> QED BY <2>1, <2>2, <2>3, <2>4
  <1> QED BY <1>2

LEMMA BestIsUsable ==
    ASSUME BestSource # NONE PROVE BestSource \in Sources /\ Usable(BestSource)
  <1>1. \E s \in Sources : Usable(s)
    BY DEF BestSource
  <1> QED BY <1>1, LeastUsable DEF BestSource

-----------------------------------------------------------------------------
(* Types                                                                    *)

LEMMA TypeInit == Init => TypeInv
  <1> SUFFICES ASSUME Init PROVE TypeInv
    OBVIOUS
  <1>1. age \in [Sources -> 0..Oldest] /\ left \in [Sources -> 0..SwitchDelay]
    BY Thresholds DEF Init
  <1>2. frame \in [source : Sources, failsafe : 0..1]
    BY DEF Init, NoFrame, Sources
  <1>3. switchAge \in 0..SwitchDelay /\ repeatAge \in 0..RepeatGap
    BY Thresholds DEF Init
  <1>4. 0 \in Sources
    BY DEF Sources
  <1>5. previousSource \in Sources \cup {NONE} /\ best \in Sources \cup {NONE}
        /\ forced \in Sources \cup {NONE} /\ activeSource \in Sources
    BY <1>4 DEF Init
  <1>6. /\ failsafes \subseteq Configured /\ hasData \subseteq Configured
        /\ recovery \in 0..1 /\ lastValidFrame \in 0..1 /\ strays \in 0..2
        /\ currentState = "OK" /\ currentMode = "AUTO" /\ pc = "idle" /\ tickPc = "idle"
        /\ webPc = "idle" /\ meddled = FALSE
    BY DEF Init
  <1> QED BY <1>1, <1>2, <1>3, <1>5, <1>6 DEF TypeInv, TypeOK, Chosen

LEMMA ReceiveType ==
    ASSUME TypeInv, NEW s \in Sources, NEW f \in 0..1, Receive(s, f) PROVE TypeInv'
  <1>1. /\ age' = [age EXCEPT ![s] = 0] /\ frame' = [source |-> s, failsafe |-> f]
        /\ s \in Configured /\ failsafes' \subseteq failsafes \cup {s}
        /\ hasData' = hasData \cup {s} /\ meddled' = FALSE
        /\ activeSource' \in {activeSource, s} /\ pc' \in {"save", "select"}
        /\ UNCHANGED <<previousSource, switchAge, left, currentState, recovery, lastValidFrame,
                       best, repeatAge, tickPc, strays, currentMode, webPc, forced>>
    BY DEF Receive, stateVars, tickVars
  <1>2. age' \in [Sources -> 0..Oldest] /\ frame' \in [source : Sources, failsafe : 0..1]
    BY <1>1, Thresholds DEF TypeInv, TypeOK
  <1>3. failsafes' \subseteq Configured /\ hasData' \subseteq Configured
    BY <1>1 DEF TypeInv, TypeOK
  <1>4. Chosen'
    BY <1>1 DEF TypeInv, Chosen
  <1>5. activeSource' \in Sources /\ pc' \in {"select", "save"} /\ meddled' \in BOOLEAN
    BY <1>1 DEF TypeInv, TypeOK
  <1>6. TypeOK'
    <2> USE <1>1, <1>5 DEF TypeInv, TypeOK
    <2>1. /\ left' \in [Sources -> 0..SwitchDelay] /\ switchAge' \in 0..SwitchDelay
          /\ previousSource' \in Sources \union {NONE}
          /\ currentMode' \in {"AUTO", "MANUAL"} /\ currentState' \in {"OK", "HOLD", "FAILSAFE"}
          /\ recovery' \in 0..1 /\ lastValidFrame' \in 0..1 /\ repeatAge' \in 0..RepeatGap
          /\ best' \in Sources \union {NONE}
      OBVIOUS
    <2> QED BY <1>2, <1>3, <2>1
  <1> QED BY <1>4, <1>6 DEF TypeInv

LEMMA DecideType ==
    ASSUME TypeInv, NEW p \in {"switch", "reswitch"}, NEW q \in {"reselect", "failsafe"},
           Decide(p, q)
    PROVE  TypeInv'
  <1>1. /\ UNCHANGED <<age, failsafes, hasData, activeSource, previousSource, switchAge, left,
                       currentState, recovery, lastValidFrame, frame, repeatAge, tickPc, strays,
                       currentMode, webPc, forced, meddled>>
        /\ pc' \in {p, q}
    BY DEF Decide, sourceVars, choiceVars, stateVars, tickVars, webVars
  <1>2. CASE WantsSwitch
    BY <1>1, <1>2, BestIsUsable DEF Decide, WantsSwitch, TypeInv, TypeOK, Chosen
  <1>3. CASE ~WantsSwitch
    BY <1>1, <1>3 DEF Decide, TypeInv, TypeOK, Chosen
  <1> QED BY <1>2, <1>3

LEMMA SelectType ==
    ASSUME TypeInv, SelectBestSource \/ ReselectBestSource PROVE TypeInv'
  <1>1. CASE SelectBestSource
    BY <1>1, DecideType DEF SelectBestSource
  <1>2. CASE ReselectBestSource /\ frame.source = activeSource /\ frame.failsafe = 1
    BY <1>2, DecideType DEF ReselectBestSource
  <1>3. CASE ReselectBestSource /\ ~(frame.source = activeSource /\ frame.failsafe = 1)
    BY <1>3 DEF ReselectBestSource, TypeInv, TypeOK, Chosen, sourceVars, choiceVars, stateVars,
                tickVars, webVars
  <1> QED BY <1>1, <1>2, <1>3

LEMMA SwitchType ==
    ASSUME TypeInv, SwitchSource PROVE TypeInv'
  <1>1. /\ previousSource' = activeSource /\ activeSource' = best /\ switchAge' = 0
        /\ left' = [left EXCEPT ![activeSource] = 0] /\ recovery' = 0
        /\ pc' \in {"reselect", "failsafe"} /\ best \in Sources
        /\ UNCHANGED <<age, failsafes, hasData, currentState, lastValidFrame, frame, best,
                       repeatAge, tickPc, strays, currentMode, webPc, forced, meddled>>
    BY DEF SwitchSource, TypeInv, Chosen, sourceVars, tickVars, webVars
  <1>2. left' \in [Sources -> 0..SwitchDelay] /\ 0 \in 0..SwitchDelay
    BY <1>1, Thresholds DEF TypeInv, TypeOK
  <1> QED BY <1>1, <1>2 DEF TypeInv, TypeOK, Chosen

LEMMA FailsafeType ==
    ASSUME TypeInv, UpdateFailsafeState PROVE TypeInv'
  <1>1. /\ pc' = "save"
        /\ UNCHANGED <<age, failsafes, hasData, activeSource, previousSource, switchAge, left,
                       frame, best, repeatAge, tickPc, strays, currentMode, webPc, forced,
                       meddled>>
    BY DEF UpdateFailsafeState, sourceVars, choiceVars, tickVars, webVars
  <1>2. \/ Stay \/ EnterHold \/ LeaveHold \/ EnterFailsafe \/ LeaveFailsafe
        \/ CountRecovery(0) \/ CountRecovery(1)
    BY DEF UpdateFailsafeState
  <1>3. /\ currentState' \in {"OK", "HOLD", "FAILSAFE"} /\ recovery' \in 0..1
        /\ lastValidFrame' \in 0..1
    BY <1>2 DEF Stay, EnterHold, LeaveHold, EnterFailsafe, LeaveFailsafe, CountRecovery,
                stateVars, TypeInv, TypeOK
  <1> QED BY <1>1, <1>3 DEF TypeInv, TypeOK, Chosen

LEMMA EndType ==
    ASSUME TypeInv, SaveFrame \/ EndRoute PROVE TypeInv'
  <1>1. CASE SaveFrame
    <2>1. lastValidFrame' \in {frame.failsafe, lastValidFrame}
      BY <1>1 DEF SaveFrame
    <2>2. lastValidFrame' \in 0..1
      BY <2>1 DEF TypeInv, TypeOK
    <2> QED BY <1>1, <2>2 DEF SaveFrame, TypeInv, TypeOK, Chosen, sourceVars, choiceVars,
                              stateVars, tickVars, webVars
  <1>2. CASE EndRoute
    <2>1. NoFrame \in [source : Sources, failsafe : 0..1]
      BY DEF NoFrame, Sources
    <2> QED BY <1>2, <2>1 DEF EndRoute, TypeInv, TypeOK, Chosen, sourceVars, choiceVars,
                              stateVars, tickVars, webVars
  <1> QED BY <1>1, <1>2

LEMMA TickType ==
    ASSUME TypeInv, TickStep PROVE TypeInv'
  <1>1. /\ tickPc' \in {"idle", "write"} /\ repeatAge' \in {repeatAge, 0}
        /\ strays' \in {0, strays} \/ (strays < 2 /\ strays' = strays + 1)
        /\ UNCHANGED <<routeVars, webVars>>
    BY DEF TickStep, TickBegin, TickWrite
  <1>2. strays' \in 0..2 /\ repeatAge' \in 0..RepeatGap
    BY <1>1, Thresholds DEF TypeInv, TypeOK
  <1> QED BY <1>1, <1>2 DEF TypeInv, TypeOK, Chosen, routeVars, webVars, sourceVars, choiceVars,
                            stateVars

LEMMA WebType ==
    ASSUME TypeInv, WebStep PROVE TypeInv'
  <1>1. CASE \E m \in {"AUTO", "MANUAL"} : SetMode(m)
    BY <1>1 DEF SetMode, TypeInv, TypeOK, Chosen, otherThanWeb, sourceVars, stateVars, tickVars,
                NONE
  <1>2. CASE \E s \in WebSources : SetSourceBegin(s)
    BY <1>2, SbusAssumption
       DEF SetSourceBegin, TypeInv, TypeOK, Chosen, otherThanWeb, sourceVars, stateVars, tickVars
  <1>3. CASE SetManualSource
    BY <1>3 DEF SetManualSource, TypeInv, TypeOK, Chosen, otherThanWeb, sourceVars, stateVars,
                tickVars
  <1> QED BY <1>1, <1>2, <1>3 DEF WebStep

LEMMA AdvanceType ==
    ASSUME TypeInv, Advance PROVE TypeInv'
  <1>1. /\ age' = [s \in Sources |-> Older(age[s], Oldest)]
        /\ left' = [s \in Sources |-> Older(left[s], SwitchDelay)]
        /\ switchAge' = Older(switchAge, SwitchDelay)
        /\ repeatAge' = Older(repeatAge, RepeatGap)
        /\ UNCHANGED <<failsafes, hasData, activeSource, previousSource, currentState, recovery,
                       lastValidFrame, pc, frame, best, tickPc, strays, currentMode, webPc,
                       forced, meddled>>
    BY DEF Advance, stateVars, webVars
  <1>2. age' \in [Sources -> 0..Oldest]
    BY <1>1, OlderType, Thresholds DEF TypeInv, TypeOK
  <1>3. left' \in [Sources -> 0..SwitchDelay]
    BY <1>1, OlderType, Thresholds DEF TypeInv, TypeOK
  <1>4. switchAge' \in 0..SwitchDelay /\ repeatAge' \in 0..RepeatGap
    BY <1>1, OlderType, Thresholds DEF TypeInv, TypeOK
  <1> QED BY <1>1, <1>2, <1>3, <1>4 DEF TypeInv, TypeOK, Chosen

LEMMA TypeStep == TypeInv /\ [Next]_vars => TypeInv'
  <1> SUFFICES ASSUME TypeInv, [Next]_vars PROVE TypeInv'
    OBVIOUS
  <1>1. CASE UNCHANGED vars
    BY <1>1 DEF vars, sourceVars, choiceVars, stateVars, tickVars, webVars, TypeInv, TypeOK,
                Chosen
  <1> QED BY <1>1, ReceiveType, SelectType, SwitchType, FailsafeType, EndType, TickType, WebType,
             AdvanceType DEF Next, RouteStep

(* The router's fields and the locals of its three tasks keep their types,   *)
(* for every set of sources and all thresholds (sbus_router.h).              *)
THEOREM TypeCorrect == Spec => []TypeOK
  <1>1. TypeInv => TypeOK
    BY DEF TypeInv
  <1> QED BY <1>1, TypeInit, TypeStep, PTL DEF Spec

-----------------------------------------------------------------------------
(* The signal                                                               *)

(* The sources that could be chosen now, and the one that is.               *)
UsableNow == {s \in Sources : Usable(s)}
Foremost(s) == s \in UsableNow /\ \A t \in UsableNow : s <= t

(* The frame that is routed was just received. *)
FrameIsNew ==
    pc # "idle" => /\ frame.source \in Configured /\ age[frame.source] = 0
                   /\ frame.failsafe = 0 => frame.source \notin failsafes

(* A single source is in control once it has sent, and is never missed. *)
Alone ==
    Cardinality(Configured) = 1 =>
        /\ pc \in {"idle", "save", "write"} /\ currentState = "OK"
        /\ pc # "idle" /\ ~meddled => frame.source = activeSource

(* From the choice to the end, as OutageBounded says of the end. *)
Served ==
    /\ pc \in {"switch", "reswitch"} => Foremost(best)
    /\ /\ pc \in {"reselect", "reswitch", "failsafe", "save", "write"}
       /\ currentMode = "AUTO" /\ ~meddled
       /\ frame.failsafe = 0 /\ frame.source # activeSource
       => \/ activeSource \in UsableNow /\ activeSource < frame.source
          \/ switchAge < SwitchDelay

Reported ==
    pc \in {"save", "write"} /\ frame.source = activeSource /\ ~meddled =>
        currentState = "OK" \/ (currentState = "FAILSAFE" /\ recovery = 1)

SignalInv == FrameIsNew /\ Alone /\ Served /\ Reported

LEMMA BestIsForemost ==
    ASSUME BestSource # NONE PROVE Foremost(BestSource)
  <1>1. \E s \in Sources : Usable(s)
    BY DEF BestSource
  <1> QED BY <1>1, LeastUsable DEF BestSource, Foremost, UsableNow

(* A usable source delivers well enough to hold on. *)
LEMMA UsableHoldsOn ==
    ASSUME TypeOK, NEW s \in UsableNow PROVE HoldsOn(s)
  <1>1. s \in Configured /\ age[s] \in Int /\ Trust(s) > 25
    <2>1. s \in Sources /\ Usable(s)
      BY DEF UsableNow
    <2>2. age[s] \in 0..Oldest
      BY <2>1 DEF TypeOK
    <2> QED BY <2>1, <2>2, UsableConfigured, Thresholds DEF Usable
  <1>2. ~(age[s] <= GoodAge) => Quality(s) \in {0, 25, 50}
    BY <1>1, Thresholds, SbusAssumption DEF Quality
  <1>3. ~(age[s] <= MediumAge) => Quality(s) \in {0, 25}
    BY <1>1, Thresholds, SbusAssumption DEF Quality
  <1> QED BY <1>1, <1>2, <1>3 DEF Trust, HoldsOn

LEMMA SameUsable ==
    ASSUME UNCHANGED <<age, failsafes>> PROVE UsableNow' = UsableNow
  BY DEF UsableNow, Usable, Trust, Quality

LEMMA NewIsUsable ==
    ASSUME TypeOK, NEW s \in Configured, age[s] = 0, s \notin failsafes
    PROVE  s \in UsableNow
  <1>1. Quality(s) = 100
    BY SbusAssumption, Thresholds DEF Quality
  <1>2. s \in Sources
    BY SbusAssumption
  <1> QED BY <1>1, <1>2 DEF UsableNow, Usable, Trust

(* What selectBestSource() decides: a switch to a usable source, or none,    *)
(* because the best is in control or was left too recently.                  *)
LEMMA DecideServes ==
    ASSUME NEW p, NEW q, Decide(p, q)
    PROVE  \/ pc' = p /\ Foremost(best')
           \/ /\ pc' = q /\ best' = best
              /\ UsableNow # {} /\ currentMode = "AUTO" =>
                    Foremost(activeSource) \/ switchAge < SwitchDelay
  <1>1. BestSource # NONE => Foremost(BestSource)
    BY BestIsForemost
  <1>2. CASE WantsSwitch
    <2>1. BestSource # NONE
      BY <1>2 DEF WantsSwitch
    <2> QED BY <1>1, <1>2, <2>1 DEF Decide
  <1>3. CASE ~WantsSwitch
    <2>1. pc' = q /\ best' = best
      BY <1>3 DEF Decide
    <2>2. ASSUME UsableNow # {}, currentMode = "AUTO"
          PROVE  Foremost(activeSource) \/ switchAge < SwitchDelay
      <3>1. BestSource \in Sources
        <4>1. \E s \in Sources : Usable(s)
          BY <2>2 DEF UsableNow
        <4>2. BestSource # NONE \/ NONE \in Sources
          <5>1. \E m \in Sources : Usable(m) /\ \A t \in Sources : Usable(t) => m <= t
            BY <4>1, LeastUsable
          <5> QED BY <4>1, <5>1 DEF BestSource, NONE, Sources
        <4> QED BY <4>2, BestIsUsable DEF NONE, Sources
      <3>2. BestSource # NONE
        BY <3>1 DEF NONE, Sources
      <3>3. BestSource = activeSource \/ Blocked(BestSource)
        BY <1>3, <2>2, <3>2 DEF WantsSwitch
      <3> QED BY <1>1, <3>2, <3>3 DEF Blocked
    <2> QED BY <2>1, <2>2
  <1> QED BY <1>2, <1>3

LEMMA SignalInit == Init => SignalInv
  BY DEF Init, SignalInv, FrameIsNew, Alone, Served, Reported

LEMMA ReceiveSignal ==
    ASSUME TypeInv, SignalInv, NEW s \in Sources, NEW f \in 0..1, Receive(s, f)
    PROVE  SignalInv'
  <1>1. /\ frame' = [source |-> s, failsafe |-> f] /\ age' = [age EXCEPT ![s] = 0]
        /\ s \in Configured /\ failsafes' = IF f = 1 THEN failsafes \cup {s}
                                                     ELSE failsafes \ {s}
        /\ pc = "idle" /\ currentState' = currentState
        /\ IF Cardinality(Configured) = 1 THEN activeSource' = s /\ pc' = "save"
                                          ELSE pc' = "select"
    BY DEF Receive, stateVars
  <1>2. frame'.source = s /\ frame'.failsafe = f /\ age'[s] = 0
    BY <1>1 DEF TypeInv, TypeOK
  <1>3. FrameIsNew'
    BY <1>1, <1>2 DEF FrameIsNew
  <1>4. Alone' /\ Served' /\ Reported'
    BY <1>1, <1>2 DEF SignalInv, Alone, Served, Reported
  <1> QED BY <1>3, <1>4 DEF SignalInv

LEMMA SelectSignal ==
    ASSUME TypeInv, SignalInv, SelectBestSource \/ ReselectBestSource PROVE SignalInv'
  <1>1. /\ UNCHANGED <<age, failsafes, activeSource, switchAge, currentState, recovery, frame,
                       currentMode, meddled>>
        /\ pc \in {"select", "reselect"}
        /\ pc' \in {"switch", "reselect", "reswitch", "failsafe"}
        /\ pc = "select" => pc' \in {"switch", "reselect"}
        /\ pc' = "reselect" => pc = "select"
    BY DEF SelectBestSource, ReselectBestSource, Decide, sourceVars, choiceVars, stateVars,
           tickVars, webVars
  <1>2. UsableNow' = UsableNow
    BY <1>1, SameUsable
  <1>3. FrameIsNew' /\ Alone' /\ Reported'
    BY <1>1 DEF SignalInv, FrameIsNew, Alone, Reported
  <1>4. frame.failsafe = 0 => frame.source \in UsableNow
    BY <1>1, NewIsUsable DEF SignalInv, FrameIsNew, TypeInv
  <1>5. CASE SelectBestSource
    <2>1. \/ pc' = "switch" /\ Foremost(best')
          \/ /\ pc' = "reselect"
             /\ UsableNow # {} /\ currentMode = "AUTO" =>
                   Foremost(activeSource) \/ switchAge < SwitchDelay
      BY <1>5, DecideServes DEF SelectBestSource
    <2>2. ASSUME Foremost(activeSource), frame.failsafe = 0, frame.source # activeSource
          PROVE  activeSource \in UsableNow /\ activeSource < frame.source
      <3>1. activeSource <= frame.source /\ activeSource \in UsableNow
        BY <1>4, <2>2 DEF Foremost
      <3>2. activeSource \in Int /\ frame.source \in Int
        BY <1>4, <2>2, <3>1 DEF UsableNow, Sources
      <3> QED BY <2>2, <3>1, <3>2
    <2>3. Served'
      BY <1>1, <1>2, <1>4, <2>1, <2>2 DEF Served, Foremost
    <2> QED BY <1>3, <2>3 DEF SignalInv
  <1>6. CASE ReselectBestSource /\ frame.source = activeSource /\ frame.failsafe = 1
    <2>1. (pc' = "reswitch" /\ Foremost(best')) \/ pc' = "failsafe"
      BY <1>6, DecideServes DEF ReselectBestSource
    <2>2. Served'
      BY <1>1, <1>2, <1>6, <2>1 DEF Served, Foremost
    <2> QED BY <1>3, <2>2 DEF SignalInv
  <1>7. CASE ReselectBestSource /\ ~(frame.source = activeSource /\ frame.failsafe = 1)
    <2>1. pc = "reselect" /\ pc' = "failsafe"
      BY <1>7 DEF ReselectBestSource
    <2>2. Served'
      BY <1>1, <1>2, <2>1 DEF SignalInv, Served
    <2> QED BY <1>3, <2>2 DEF SignalInv
  <1> QED BY <1>5, <1>6, <1>7

LEMMA SwitchSignal ==
    ASSUME TypeInv, SignalInv, SwitchSource PROVE SignalInv'
  <1>1. /\ UNCHANGED <<age, failsafes, currentState, frame, best, meddled, currentMode>>
        /\ activeSource' = best /\ pc \in {"switch", "reswitch"}
        /\ pc' \in {"reselect", "failsafe"}
    BY DEF SwitchSource, sourceVars, webVars
  <1>2. UsableNow' = UsableNow /\ Foremost(best)
    BY <1>1, SameUsable DEF SignalInv, Served
  <1>3. FrameIsNew' /\ Alone' /\ Reported'
    BY <1>1 DEF SignalInv, FrameIsNew, Alone, Reported
  <1>4. ASSUME frame.failsafe = 0, frame.source # best
        PROVE  best \in UsableNow /\ best < frame.source
    <2>1. frame.source \in UsableNow
      BY <1>1, <1>4, NewIsUsable DEF SignalInv, FrameIsNew, TypeInv
    <2>2. best <= frame.source
      BY <1>2, <2>1 DEF Foremost
    <2>3. best \in Int /\ frame.source \in Int
      BY <1>2, <2>1 DEF Foremost, UsableNow, Sources
    <2> QED BY <1>2, <1>4, <2>2, <2>3 DEF Foremost
  <1>5. Served'
    BY <1>1, <1>2, <1>4 DEF Served
  <1> QED BY <1>3, <1>5 DEF SignalInv

(* A frame of the source in control has age 0, below every threshold. *)
LEMMA FailsafeSignal ==
    ASSUME TypeInv, SignalInv, UpdateFailsafeState PROVE SignalInv'
  <1>1. /\ UNCHANGED <<age, failsafes, activeSource, switchAge, frame, best, currentMode, meddled>>
        /\ pc = "failsafe" /\ pc' = "save"
    BY DEF UpdateFailsafeState, sourceVars, choiceVars, webVars
  <1>2. UsableNow' = UsableNow
    BY <1>1, SameUsable
  <1>3. FrameIsNew' /\ Alone' /\ Served'
    BY <1>1, <1>2 DEF SignalInv, FrameIsNew, Alone, Served
  <1>4. Reported'
    <2> SUFFICES ASSUME frame.source = activeSource
                 PROVE  currentState' = "OK" \/ (currentState' = "FAILSAFE" /\ recovery' = 1)
      BY <1>1 DEF Reported
    <2>1. age[activeSource] = 0
      BY <1>1 DEF SignalInv, FrameIsNew
    <2>2. /\ ~(0 > HoldAge) /\ ~(0 > DeadAge) /\ ~(0 \in HoldAge..DeadAge) /\ ~(0 >= HoldAge)
      BY Thresholds
    <2>3. \/ currentState = "OK" /\ Stay
          \/ LeaveHold
          \/ LeaveFailsafe
          \/ currentState = "FAILSAFE" /\ CountRecovery(1)
      BY <2>1, <2>2 DEF UpdateFailsafeState
    <2> QED BY <2>3 DEF Stay, LeaveHold, LeaveFailsafe, CountRecovery, stateVars
  <1> QED BY <1>3, <1>4 DEF SignalInv

LEMMA EndSignal ==
    ASSUME TypeInv, SignalInv, SaveFrame \/ EndRoute PROVE SignalInv'
  <1>1. CASE SaveFrame
    <2>1. /\ UNCHANGED <<age, failsafes, activeSource, switchAge, currentState, recovery, frame,
                         best, currentMode, meddled>>
          /\ pc = "save" /\ pc' = "write"
      BY <1>1 DEF SaveFrame, sourceVars, choiceVars, stateVars, webVars
    <2>2. UsableNow' = UsableNow
      BY <2>1, SameUsable
    <2> QED BY <2>1, <2>2 DEF SignalInv, FrameIsNew, Alone, Served, Reported
  <1>2. CASE EndRoute
    BY <1>2 DEF EndRoute, stateVars, SignalInv, FrameIsNew, Alone, Served, Reported
  <1> QED BY <1>1, <1>2

LEMMA TickSignal ==
    ASSUME SignalInv, TickStep PROVE SignalInv'
  <1>1. UNCHANGED <<routeVars, webVars>>
    BY DEF TickStep, TickBegin, TickWrite
  <1>2. UNCHANGED <<age, failsafes, activeSource, switchAge, currentState, recovery, pc, frame,
                    best, currentMode, meddled>>
    BY <1>1 DEF routeVars, sourceVars, choiceVars, stateVars, webVars
  <1>3. UsableNow' = UsableNow
    BY <1>2, SameUsable
  <1> QED BY <1>2, <1>3 DEF SignalInv, FrameIsNew, Alone, Served, Foremost, Reported

(* What the user does during a frame releases the router from its promise. *)
LEMMA WebSignal ==
    ASSUME SignalInv, WebStep PROVE SignalInv'
  <1>1. /\ UNCHANGED <<age, failsafes, switchAge, currentState, recovery, pc, frame, best>>
        /\ meddled' = (pc # "idle")
    BY DEF WebStep, SetMode, SetSourceBegin, SetManualSource, otherThanWeb, sourceVars,
           stateVars
  <1>2. UsableNow' = UsableNow
    BY <1>1, SameUsable
  <1> QED BY <1>1, <1>2 DEF SignalInv, FrameIsNew, Alone, Served, Foremost, Reported

LEMMA AdvanceSignal ==
    ASSUME SignalInv, Advance PROVE SignalInv'
  BY DEF Advance, stateVars, SignalInv, FrameIsNew, Alone, Served, Reported

LEMMA SignalStep == TypeInv /\ SignalInv /\ [Next]_vars => SignalInv'
  <1> SUFFICES ASSUME TypeInv, SignalInv, [Next]_vars PROVE SignalInv'
    OBVIOUS
  <1>1. CASE UNCHANGED vars
    <2>1. UNCHANGED <<age, failsafes, activeSource, switchAge, currentState, recovery, pc, frame,
                      best, currentMode, meddled>>
      BY <1>1 DEF vars, sourceVars, choiceVars, stateVars, webVars
    <2>2. UsableNow' = UsableNow
      BY <2>1, SameUsable
    <2> QED BY <2>1, <2>2 DEF SignalInv, FrameIsNew, Alone, Served, Foremost, Reported
  <1> QED BY <1>1, ReceiveSignal, SelectSignal, SwitchSignal, FailsafeSignal, EndSignal,
             TickSignal, WebSignal, AdvanceSignal DEF Next, RouteStep

(* For any sources and thresholds: a healthy source's frame that             *)
(* selectBestSource() leaves unserved is for a source of a higher priority   *)
(* that holds on, in failsafe too, or for the anti-flapping delay, and       *)
(* updateFailsafeState() reports a source that delivers as it is.            *)
THEOREM SignalSafe == Spec => []SignalKept
  <1>1. TypeInv /\ SignalInv => SignalKept
    <2> SUFFICES ASSUME TypeInv, SignalInv PROVE SignalKept
      OBVIOUS
    <2>1. activeSource \in UsableNow => HoldsOn(activeSource)
      BY UsableHoldsOn DEF TypeInv
    <2> QED BY <2>1 DEF SignalInv, Served, Reported, SignalKept, OutageBounded,
                        HealthyReported
  <1> QED BY <1>1, TypeInit, TypeStep, SignalInit, SignalStep, PTL DEF Spec

-----------------------------------------------------------------------------
(* The Timing Keeper                                                        *)

YieldInv == strays <= 1 /\ (tickPc = "write" => strays = 0)

LEMMA YieldInit == Init => YieldInv
  BY DEF Init, YieldInv

LEMMA YieldStep == TypeInv /\ YieldInv /\ [Next]_vars => YieldInv'
  <1> SUFFICES ASSUME TypeInv, YieldInv, [Next]_vars PROVE YieldInv'
    OBVIOUS
  <1>1. CASE TickBegin
    BY <1>1 DEF TickBegin, KeeperDue, YieldInv
  <1>2. CASE TickWrite
    BY <1>2 DEF TickWrite, YieldInv
  <1>3. ASSUME UNCHANGED tickVars PROVE YieldInv'
    BY <1>3 DEF tickVars, YieldInv
  <1>4. CASE Advance
    BY <1>4 DEF Advance, YieldInv
  <1>5. CASE WebStep
    BY <1>3, <1>5 DEF WebStep, SetMode, SetSourceBegin, SetManualSource, otherThanWeb
  <1>6. CASE RouteStep
    BY <1>3, <1>6 DEF RouteStep, SelectBestSource, ReselectBestSource, Decide, SwitchSource,
                      UpdateFailsafeState, SaveFrame, EndRoute, tickVars
  <1>7. CASE \E s \in Sources, f \in 0..1 : Receive(s, f)
    BY <1>3, <1>7 DEF Receive
  <1>8. CASE UNCHANGED vars
    BY <1>3, <1>8 DEF vars
  <1> QED BY <1>1, <1>2, <1>4, <1>5, <1>6, <1>7, <1>8 DEF Next, TickStep

(* tick() repeats at most one frame of UDP after another source took over,   *)
(* wherever in it the switch falls (sbus_router.cpp:152-170).                *)
THEOREM YieldSafe == Spec => []KeeperYields
  <1>1. YieldInv => KeeperYields
    BY DEF YieldInv, KeeperYields
  <1> QED BY <1>1, TypeInit, TypeStep, YieldInit, YieldStep, PTL DEF Spec

-----------------------------------------------------------------------------
(* Anti-flapping                                                            *)

(* Device 1 and one more source, and a user who forces Device 1 at most.    *)
(* previousSourceId remembers one source, so a third one, or a user who     *)
(* forces both, makes control bounce.                                       *)
TwoSources ==
    /\ WebSources \subseteq {0}
    /\ \E b \in Sources \ {0} : Configured = {0, b}

(* Only the source left last was left less than SwitchDelay ago. *)
FlapInv ==
    /\ activeSource \in Configured
    /\ webPc = "source" => forced = 0
    /\ \A x \in Configured : x # previousSource => left[x] >= SwitchDelay
    /\ previousSource # NONE => left[previousSource] >= switchAge
    /\ activeSource # 0 => previousSource = 0
    /\ pc \in {"switch", "reswitch"} =>
          /\ best \in Configured
          /\ best = previousSource => switchAge >= SwitchDelay
          /\ IF best = 0 THEN previousSource = 0 ELSE activeSource = 0

LEMMA NotAlone == TwoSources => Cardinality(Configured) # 1
  <1> SUFFICES ASSUME NEW b \in Sources \ {0}, Configured = {0, b}
               PROVE  Cardinality(Configured) # 1
    BY DEF TwoSources
  <1>1. IsFiniteSet({0}) /\ Cardinality({0}) = 1
    BY FS_Singleton
  <1>2. Cardinality({0} \cup {b}) = Cardinality({0}) + 1
    BY <1>1, FS_AddElement
  <1>3. {0} \cup {b} = Configured
    OBVIOUS
  <1> QED BY <1>1, <1>2, <1>3

LEMMA FlapInit == TwoSources /\ Init => FlapInv
  <1> SUFFICES ASSUME TwoSources, Init PROVE FlapInv
    OBVIOUS
  <1>1. \A x \in Configured : left[x] >= SwitchDelay
    <2>1. SwitchDelay >= SwitchDelay
      BY Thresholds
    <2> QED BY <2>1, SbusAssumption DEF Init
  <1>2. 0 \in Configured
    BY DEF TwoSources
  <1> QED BY <1>1, <1>2 DEF Init, FlapInv

(* A step that chooses nothing and does not touch the times. *)
LEMMA FlapSame ==
    ASSUME FlapInv, UNCHANGED <<activeSource, previousSource, switchAge, left, forced, webPc>>,
           pc' \in {"switch", "reswitch"} => UNCHANGED <<pc, best>>
    PROVE  FlapInv'
  BY DEF FlapInv

LEMMA DecideFlap ==
    ASSUME TwoSources, TypeInv, FlapInv, NEW p \in {"switch", "reswitch"},
           NEW q \in {"reselect", "failsafe"}, Decide(p, q)
    PROVE  FlapInv'
  <1>1. UNCHANGED <<activeSource, previousSource, switchAge, left, forced, webPc>>
    BY DEF Decide, choiceVars, webVars
  <1>2. CASE WantsSwitch
    <2>1. /\ pc' = p /\ best' = BestSource /\ BestSource \notin {NONE, activeSource}
          /\ ~Blocked(BestSource)
      BY <1>2 DEF Decide, WantsSwitch
    <2>2. BestSource \in Configured
      BY <2>1, BestIsUsable, UsableConfigured
    <2>3. BestSource = previousSource => switchAge >= SwitchDelay
      BY <2>1, Thresholds DEF Blocked, TypeInv, TypeOK
    <2>4. IF BestSource = 0 THEN previousSource = 0 ELSE activeSource = 0
      BY <2>1, <2>2 DEF FlapInv, TwoSources
    <2> QED BY <1>1, <2>1, <2>2, <2>3, <2>4 DEF FlapInv
  <1>3. CASE ~WantsSwitch
    <2>1. pc' = q
      BY <1>3 DEF Decide
    <2> QED BY <1>1, <2>1, FlapSame
  <1> QED BY <1>2, <1>3

(* The switch: its target was left long enough ago. *)
LEMMA BestIsRested ==
    ASSUME TypeInv, FlapInv, pc \in {"switch", "reswitch"}
    PROVE  left[best] >= SwitchDelay
  <1>1. CASE best # previousSource
    BY <1>1 DEF FlapInv
  <1>2. CASE best = previousSource
    <2>1. best \in Sources /\ left[best] \in Nat /\ switchAge \in Nat
      BY Thresholds DEF TypeInv, TypeOK, Chosen
    <2>2. best # NONE
      BY <2>1 DEF Sources, NONE
    <2>3. left[best] >= switchAge /\ switchAge >= SwitchDelay
      BY <1>2, <2>2 DEF FlapInv
    <2> QED BY <2>1, <2>3, Thresholds
  <1> QED BY <1>1, <1>2

LEMMA SwitchFlap ==
    ASSUME TwoSources, TypeInv, FlapInv, SwitchSource PROVE FlapInv'
  <1>1. /\ previousSource' = activeSource /\ activeSource' = best /\ switchAge' = 0
        /\ left' = [left EXCEPT ![activeSource] = 0]
        /\ pc \in {"switch", "reswitch"} /\ pc' \in {"reselect", "failsafe"}
        /\ UNCHANGED <<webPc, forced>>
    BY DEF SwitchSource, webVars
  <1>2. best \in Configured /\ activeSource \in Configured /\ activeSource \in Sources
    BY <1>1 DEF FlapInv, TypeInv, TypeOK
  <1>3. ASSUME NEW x \in Configured, x # activeSource PROVE left'[x] >= SwitchDelay
    <2>1. x \in Sources /\ left'[x] = left[x]
      BY <1>1, <1>3, SbusAssumption DEF TypeInv, TypeOK
    <2>2. CASE x = best
      BY <1>1, <2>1, <2>2, BestIsRested
    <2>3. CASE x # best
      <3>1. x # previousSource
        BY <1>1, <1>2, <1>3, <2>3 DEF FlapInv, TwoSources
      <3> QED BY <2>1, <3>1 DEF FlapInv
    <2> QED BY <2>2, <2>3
  <1>4. left'[activeSource] = 0 /\ 0 >= 0
    BY <1>1, <1>2 DEF TypeInv, TypeOK
  <1>5. best # 0 => activeSource = 0
    BY <1>1 DEF FlapInv
  <1> QED BY <1>1, <1>2, <1>3, <1>4, <1>5 DEF FlapInv

LEMMA WebFlap ==
    ASSUME TwoSources, TypeInv, FlapInv, WebStep PROVE FlapInv'
  <1>1. UNCHANGED <<previousSource, switchAge, left, pc, best>>
    BY DEF WebStep, SetMode, SetSourceBegin, SetManualSource, otherThanWeb
  <1>2. /\ webPc' = "source" => forced' = 0
        /\ activeSource' \in {activeSource, 0}
    BY DEF WebStep, SetMode, SetSourceBegin, SetManualSource, otherThanWeb, FlapInv, TwoSources
  <1>3. 0 \in Configured
    BY DEF TwoSources
  <1> QED BY <1>1, <1>2, <1>3 DEF FlapInv

LEMMA AdvanceFlap ==
    ASSUME TypeInv, FlapInv, Advance PROVE FlapInv'
  <1>1. /\ left' = [s \in Sources |-> Older(left[s], SwitchDelay)]
        /\ switchAge' = Older(switchAge, SwitchDelay) /\ pc = "idle"
        /\ UNCHANGED <<activeSource, previousSource, pc, best, webPc, forced>>
    BY DEF Advance, webVars
  <1>2. ASSUME NEW x \in Sources
        PROVE  /\ left[x] \in 0..SwitchDelay /\ left'[x] = Older(left[x], SwitchDelay)
               /\ left'[x] \in 0..SwitchDelay /\ left'[x] >= left[x]
    BY <1>1, OlderType, Thresholds DEF TypeInv, TypeOK
  <1>3. ASSUME NEW x \in Configured, x # previousSource PROVE left'[x] >= SwitchDelay
    <2>1. x \in Sources /\ left[x] >= SwitchDelay
      BY <1>3, SbusAssumption DEF FlapInv
    <2> QED BY <1>2, <2>1, Thresholds
  <1>4. ASSUME previousSource # NONE PROVE left'[previousSource] >= switchAge'
    <2>1. previousSource \in Sources /\ left[previousSource] >= switchAge
      BY <1>4 DEF TypeInv, TypeOK, FlapInv
    <2>2. switchAge \in 0..SwitchDelay
      BY DEF TypeInv, TypeOK
    <2> QED BY <1>1, <1>2, <2>1, <2>2, Thresholds DEF Older
  <1> QED BY <1>1, <1>3, <1>4 DEF FlapInv

LEMMA FlapStep == TwoSources /\ TypeInv /\ FlapInv /\ [Next]_vars => FlapInv'
  <1> SUFFICES ASSUME TwoSources, TypeInv, FlapInv, [Next]_vars PROVE FlapInv'
    OBVIOUS
  <1>1. CASE \E s \in Sources, f \in 0..1 : Receive(s, f)
    BY <1>1, NotAlone, FlapSame DEF Receive
  <1>2. CASE SelectBestSource
    BY <1>2, DecideFlap DEF SelectBestSource
  <1>3. CASE ReselectBestSource /\ frame.source = activeSource /\ frame.failsafe = 1
    BY <1>3, DecideFlap DEF ReselectBestSource
  <1>4. CASE ReselectBestSource /\ ~(frame.source = activeSource /\ frame.failsafe = 1)
    BY <1>4, FlapSame DEF ReselectBestSource, choiceVars, webVars
  <1>5. CASE UpdateFailsafeState \/ SaveFrame \/ EndRoute
    BY <1>5, FlapSame DEF UpdateFailsafeState, SaveFrame, EndRoute, choiceVars, webVars
  <1>6. CASE TickStep
    BY <1>6, FlapSame DEF TickStep, TickBegin, TickWrite, routeVars, choiceVars, webVars
  <1>7. CASE UNCHANGED vars
    BY <1>7, FlapSame DEF vars, choiceVars, webVars
  <1> QED BY <1>1, <1>2, <1>3, <1>4, <1>5, <1>6, <1>7, SwitchFlap, WebFlap, AdvanceFlap
          DEF Next, RouteStep

(* With two sources no source gets control back within switchDelayMs of an   *)
(* automatic switch away from it, for every delay and all thresholds, also   *)
(* when the user forces Device 1 between the decision and the switch         *)
(* (sbus_router.cpp:246-273).                                                *)
THEOREM FlapSafe == TwoSources => (Spec => NoFlap)
  <1> SUFFICES ASSUME TwoSources PROVE Spec => NoFlap
    OBVIOUS
  <1>1. TypeInv /\ FlapInv /\ [Next]_vars => [SwitchSource => left[best] >= SwitchDelay]_vars
    BY BestIsRested DEF SwitchSource
  <1>2. Init => FlapInv
    BY FlapInit
  <1>3. TypeInv /\ FlapInv /\ [Next]_vars => FlapInv'
    BY FlapStep
  <1> QED BY <1>1, <1>2, <1>3, TypeInit, TypeStep, PTL DEF Spec, NoFlap
=============================================================================
