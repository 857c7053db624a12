----------------------------- MODULE SbusRouter -----------------------------
(***************************************************************************)
(* SbusRouter: chooses which of up to four SBUS inputs drives the outputs. *)
(*                                                                         *)
(* Three tasks share its fields and nothing is locked:                     *)
(*   - uartBridgeTask (core 0) calls routeFrame() for every frame parsed;  *)
(*   - the scheduler in loop() (core 1) calls tick(), the Timing Keeper    *)
(*     that repeats the last UDP frame;                                    *)
(*   - the web server's task sets the mode and the manual source.          *)
(* A step of a task reads shared fields, or writes them, at one point of   *)
(* the code; the tasks' steps interleave.                                  *)
(*                                                                         *)
(* A time stamp is kept as its age, millis() minus the stamp, which is     *)
(* what the code computes from it.  Ages are in time units chosen so that  *)
(* no frame is routed across two of them (a unit is some milliseconds,     *)
(* routeFrame() some microseconds).                                        *)
(*                                                                         *)
(* Of a frame the model keeps its source and its failsafe bit, and of the  *)
(* saved UDP frame also the bit its sender set.  A copy of a frame is one  *)
(* step, the wrap-around of millis() after 49.7 days and the statistics    *)
(* are left out.                                                           *)
(***************************************************************************)
EXTENDS Integers, FiniteSets

CONSTANTS
    Configured,    \* sources registered at boot
    TimingKeeper,  \* config.sbusTimingKeeper
    WebSources,    \* sources a user forces; {} if the web page is not used
    \* Ages at which a source is less than excellent, good, medium, ...
    ExcellentAge,  \* 20 ms
    GoodAge,       \* 30 ms
    HoldAge,       \* 40 ms
    MediumAge,     \* 50 ms
    DeadAge,       \* 100 ms
    SwitchDelay,   \* switchDelayMs
    UdpTimeout,    \* udpSourceTimeoutMs
    RepeatGap      \* 20 ms between two repeated frames

Sources == 0..3
UDP == 3
NONE == 4

ASSUME SbusAssumption ==
    /\ Configured \subseteq Sources
    /\ WebSources \subseteq Sources \ {UDP}
    /\ TimingKeeper \in BOOLEAN
    /\ {ExcellentAge, GoodAge, HoldAge, MediumAge, DeadAge, SwitchDelay,
        UdpTimeout, RepeatGap} \subseteq Nat
    /\ 0 < ExcellentAge
    /\ ExcellentAge < GoodAge /\ GoodAge < HoldAge /\ HoldAge < MediumAge
    /\ MediumAge < DeadAge

VARIABLES
    age,            \* millis() - sources[s].lastFrameTime
    failsafes,      \* sources whose hasFailsafe is set
    hasData,        \* sources whose hasData is set
    activeSource,
    previousSource, \* previousSourceId
    switchAge,      \* millis() - lastSwitchMs
    currentMode,
    currentState,
    recovery,       \* recoveryFrameCount
    lastValidFrame, \* the saved UDP frame: its failsafe bit
    repeatAge,      \* millis() - lastRepeatMs
    pc,             \* where routeFrame() is
    frame,          \* its argument
    best,           \* local bestSource of selectBestSource()
    tickPc,         \* where tick() is
    webPc,          \* where the web handler is
    forced,         \* source the handler sets, NONE again in auto mode
    strays,         \* ghost: frames repeated after UDP lost control
    left,           \* ghost: time since a switch away from the source
    meddled         \* ghost: the user acted while this frame is routed

sourceVars == <<age, failsafes, hasData>>
choiceVars == <<activeSource, previousSource, switchAge, left>>
stateVars  == <<currentState, recovery>>
tickVars   == <<repeatAge, tickPc, strays>>
webVars    == <<currentMode, webPc, forced, meddled>>

vars == <<sourceVars, choiceVars, stateVars, lastValidFrame, pc, frame, best,
          tickVars, webVars>>

(* An age past the last threshold it is compared with stays as it is.      *)
Oldest == IF DeadAge > UdpTimeout THEN DeadAge + 1 ELSE UdpTimeout + 1
Older(a, last) == IF a >= last THEN a ELSE a + 1

NoFrame == [source |-> 0, failsafe |-> 0]

(* The device has run for longer than any threshold when inputs start.     *)
Init ==
    /\ age = [s \in Sources |-> Oldest]
    /\ left = [s \in Sources |-> SwitchDelay]
    /\ failsafes = {}
    /\ hasData = {}
    /\ activeSource = 0
    /\ previousSource = NONE
    /\ switchAge = SwitchDelay
    /\ currentMode = "AUTO"
    /\ currentState = "OK"
    /\ recovery = 0
    /\ lastValidFrame = 0
    /\ repeatAge = RepeatGap
    /\ pc = "idle"
    /\ frame = NoFrame
    /\ best = NONE
    /\ tickPc = "idle"
    /\ webPc = "idle"
    /\ forced = NONE
    /\ meddled = FALSE
    /\ strays = 0

-----------------------------------------------------------------------------
(* uartBridgeTask: routeFrame().                                           *)

(* A frame arrives; its source's state is updated.  A source sends at most *)
(* one frame in a time unit.  With one source configured there is nothing  *)
(* to choose.                                                              *)
Receive(s, failsafe) ==
    /\ pc = "idle"
    /\ s \in Configured
    /\ age[s] > 0
    /\ frame' = [source |-> s, failsafe |-> failsafe]
    /\ age' = [age EXCEPT ![s] = 0]
    /\ hasData' = hasData \union {s}
    /\ failsafes' = IF failsafe = 1 THEN failsafes \union {s}
                                    ELSE failsafes \ {s}
    /\ IF Cardinality(Configured) = 1
       THEN activeSource' = s /\ pc' = "save"
       ELSE pc' = "select" /\ UNCHANGED activeSource
    /\ meddled' = FALSE
    /\ UNCHANGED <<previousSource, switchAge, left, stateVars, lastValidFrame,
                   best, tickVars, currentMode, webPc, forced>>

(* getSourceQuality()                                                      *)
Quality(s) ==
    IF s \notin Configured \/ age[s] > DeadAge THEN 0
    ELSE IF age[s] > MediumAge THEN 25
    ELSE IF age[s] > GoodAge THEN 50
    ELSE IF age[s] > ExcellentAge THEN 75
    ELSE 100

Trust(s) == IF s \in failsafes THEN Quality(s) \div 2 ELSE Quality(s)

Usable(s) == Trust(s) > 25

(* Device1 > Device2 > Device3 > UDP: a lower number is a higher priority. *)
BestSource ==
    IF \E s \in Sources : Usable(s)
    THEN CHOOSE s \in Sources :
            Usable(s) /\ \A t \in Sources : Usable(t) => s <= t
    ELSE NONE

(* Mutant: the delay never ends.                                           *)
BlockedForEver(s) == s = previousSource

(* Anti-flapping: no return to the source just left.                       *)
Blocked(s) == s = previousSource /\ switchAge < SwitchDelay

(* What selectBestSource() decides from what it reads.                     *)
WantsSwitch ==
    /\ currentMode = "AUTO"
    /\ BestSource \notin {NONE, activeSource}
    /\ ~Blocked(BestSource)

Decide(switchPc, nextPc) ==
    /\ IF WantsSwitch
       THEN pc' = switchPc /\ best' = BestSource
       ELSE pc' = nextPc /\ UNCHANGED best
    /\ UNCHANGED <<sourceVars, choiceVars, stateVars, lastValidFrame, frame,
                   tickVars, webVars>>

(* The call for every frame, in auto mode.                                 *)
SelectBestSource == pc = "select" /\ Decide("switch", "reselect")

(* The call for a frame with the failsafe bit from the active source.      *)
ReselectBestSource ==
    /\ pc = "reselect"
    /\ IF frame.source = activeSource /\ frame.failsafe = 1
       THEN Decide("reswitch", "failsafe")
       ELSE /\ pc' = "failsafe"
            /\ UNCHANGED <<sourceVars, choiceVars, stateVars, lastValidFrame,
                           frame, best, tickVars, webVars>>

(* Mutant: lastSwitchMs is not set.                                        *)
SwitchUntimed ==
    /\ pc \in {"switch", "reswitch"}
    /\ previousSource' = activeSource
    /\ activeSource' = best
    /\ left' = [left EXCEPT ![activeSource] = 0]
    /\ recovery' = 0
    /\ pc' = IF pc = "switch" THEN "reselect" ELSE "failsafe"
    /\ UNCHANGED <<sourceVars, switchAge, currentState, lastValidFrame, frame,
                   best, tickVars, webVars>>

(* The end of selectBestSource(): the switch it decided on.                *)
SwitchSource ==
    /\ pc \in {"switch", "reswitch"}
    /\ previousSource' = activeSource
    /\ activeSource' = best
    /\ switchAge' = 0
    /\ left' = [left EXCEPT ![activeSource] = 0]
    /\ recovery' = 0
    /\ pc' = IF pc = "switch" THEN "reselect" ELSE "failsafe"
    /\ UNCHANGED <<sourceVars, currentState, lastValidFrame, frame, best,
                   tickVars, webVars>>

(* updateFailsafeState(), a function of the active source's age.           *)
Stay == UNCHANGED <<stateVars, lastValidFrame>>

EnterHold ==
    /\ currentState' = "HOLD"
    /\ recovery' = 0
    /\ UNCHANGED lastValidFrame

LeaveHold ==
    /\ currentState' = "OK"
    /\ recovery' = 0
    /\ UNCHANGED lastValidFrame

EnterFailsafe ==
    /\ currentState' = "FAILSAFE"
    /\ recovery' = 0
    /\ lastValidFrame' = 1

(* Mutant: out of failsafe by way of HOLD.                                 *)
LeaveToHold ==
    /\ currentState' = "HOLD"
    /\ recovery' = 0
    /\ lastValidFrame' = 0

LeaveFailsafe ==
    /\ currentState' = "OK"
    /\ recovery' = 0
    /\ lastValidFrame' = 0

(* Mutant: frames that are too old count as well.                          *)
CountAnyFrame(n) ==
    /\ recovery' = recovery + 1
    /\ UNCHANGED <<currentState, lastValidFrame>>

CountRecovery(n) ==
    /\ recovery' = n
    /\ UNCHANGED <<currentState, lastValidFrame>>

UpdateFailsafeState ==
    /\ pc = "failsafe"
    /\ pc' = "save"
    /\ LET a == age[activeSource] IN
       \/ currentState = "OK" /\ a > HoldAge /\ EnterHold
       \/ currentState = "OK" /\ a <= HoldAge /\ Stay
       \/ currentState = "HOLD" /\ a < HoldAge /\ LeaveHold
       \/ currentState = "HOLD" /\ a > DeadAge /\ EnterFailsafe
       \/ currentState = "HOLD" /\ a \in HoldAge..DeadAge /\ Stay
       \/ currentState = "FAILSAFE" /\ a < HoldAge /\ recovery = 1
             /\ LeaveFailsafe
       \/ currentState = "FAILSAFE" /\ a < HoldAge /\ recovery = 0
             /\ CountRecovery(1)
       \/ currentState = "FAILSAFE" /\ a >= HoldAge /\ CountRecovery(0)
    /\ UNCHANGED <<sourceVars, choiceVars, frame, best, tickVars, webVars>>

(* A UDP frame is saved for the Timing Keeper.                             *)
SaveFrame ==
    /\ pc = "save"
    /\ pc' = "write"
    /\ lastValidFrame' =
           IF frame.source = UDP
           THEN frame.failsafe
           ELSE lastValidFrame
    /\ UNCHANGED <<sourceVars, choiceVars, stateVars, frame, best, tickVars,
                   webVars>>

(* The frame goes out if its source is active.  Nothing of the router      *)
(* depends on it.                                                          *)
EndRoute ==
    /\ pc = "write"
    /\ pc' = "idle"
    /\ meddled' = FALSE
    /\ frame' = NoFrame
    /\ best' = NONE
    /\ UNCHANGED <<sourceVars, choiceVars, stateVars, lastValidFrame, tickVars,
                   currentMode, webPc, forced>>

RouteStep ==
    \/ SelectBestSource \/ ReselectBestSource \/ SwitchSource
    \/ UpdateFailsafeState \/ SaveFrame \/ EndRoute

-----------------------------------------------------------------------------
(* loop(): tick(), every 10 ms or later.                                   *)
routeVars == <<sourceVars, choiceVars, stateVars, lastValidFrame, pc, frame,
               best>>

(* Mutant: no test of the age of the last frame.                           *)
DueForEver == activeSource = UDP /\ TimingKeeper /\ repeatAge >= RepeatGap

KeeperDue ==
    /\ activeSource = UDP
    /\ TimingKeeper
    /\ age[UDP] <= UdpTimeout
    /\ repeatAge >= RepeatGap

TickBegin ==
    /\ tickPc = "idle"
    /\ KeeperDue
    /\ tickPc' = "write"
    /\ strays' = IF activeSource = UDP THEN 0 ELSE strays
    /\ UNCHANGED <<routeVars, repeatAge, webVars>>

(* writeToOutputs(lastValidFrame)                                          *)
TickWrite ==
    /\ tickPc = "write"
    /\ tickPc' = "idle"
    /\ repeatAge' = 0
    /\ strays' = IF activeSource # UDP /\ strays < 2 THEN strays + 1 ELSE strays
    /\ UNCHANGED <<routeVars, webVars>>

TickStep == TickBegin \/ TickWrite

-----------------------------------------------------------------------------
(* The web server's task.                                                  *)

otherThanWeb == <<sourceVars, previousSource, switchAge, left, stateVars,
                  lastValidFrame, pc, frame, best, tickVars>>

(* handleSbusSetMode()                                                     *)
SetMode(m) ==
    /\ webPc = "idle"
    /\ WebSources # {}
    /\ currentMode' = m
    /\ forced' = IF m = "AUTO" THEN NONE ELSE forced
    /\ meddled' = (pc # "idle")
    /\ UNCHANGED <<otherThanWeb, activeSource, webPc>>

(* handleSbusSetSource(): first the mode, then the source.                 *)
SetSourceBegin(s) ==
    /\ webPc = "idle"
    /\ currentMode' = "MANUAL"
    /\ forced' = s
    /\ webPc' = "source"
    /\ meddled' = (pc # "idle")
    /\ UNCHANGED <<otherThanWeb, activeSource>>

SetManualSource ==
    /\ webPc = "source"
    /\ activeSource' = forced
    /\ webPc' = "idle"
    /\ meddled' = (pc # "idle")
    /\ UNCHANGED <<otherThanWeb, currentMode, forced>>

WebStep ==
    \/ \E m \in {"AUTO", "MANUAL"} : SetMode(m)
    \/ \E s \in WebSources : SetSourceBegin(s)
    \/ SetManualSource

-----------------------------------------------------------------------------
(* Time passes, but not while a frame is being routed.                     *)
Advance ==
    /\ pc = "idle"
    /\ age' = [s \in Sources |-> Older(age[s], Oldest)]
    /\ left' = [s \in Sources |-> Older(left[s], SwitchDelay)]
    /\ switchAge' = Older(switchAge, SwitchDelay)
    /\ repeatAge' = Older(repeatAge, RepeatGap)
    /\ UNCHANGED <<failsafes, hasData, activeSource, previousSource, stateVars,
                   lastValidFrame, pc, frame, best, tickPc, strays, webVars>>

Next ==
    \/ \E s \in Sources, f \in 0..1 : Receive(s, f)
    \/ RouteStep
    \/ TickStep
    \/ WebStep
    \/ Advance

(* The tasks are scheduled for ever and time passes.                       *)
Fairness ==
    /\ WF_vars(RouteStep)
    /\ WF_vars(TickStep)
    /\ WF_vars(SetManualSource)
    /\ WF_vars(Advance)

Spec == Init /\ [][Next]_vars
FairSpec == Spec /\ Fairness

-----------------------------------------------------------------------------
(* Type correctness of the router's fields and of the three tasks.         *)

TypeOK ==
    /\ age \in [Sources -> 0..Oldest]
    /\ left \in [Sources -> 0..SwitchDelay]
    /\ failsafes \subseteq Configured
    /\ hasData \subseteq Configured
    /\ activeSource \in Sources
    /\ previousSource \in Sources \union {NONE}
    /\ switchAge \in 0..SwitchDelay
    /\ currentMode \in {"AUTO", "MANUAL"}
    /\ currentState \in {"OK", "HOLD", "FAILSAFE"}
    /\ recovery \in 0..1
    /\ lastValidFrame \in 0..1
    /\ repeatAge \in 0..RepeatGap
    /\ pc \in {"idle", "select", "switch", "reselect", "reswitch", "failsafe",
               "save", "write"}
    /\ frame \in [source : Sources, failsafe : 0..1]
    /\ best \in Sources \union {NONE}
    /\ tickPc \in {"idle", "write"}
    /\ webPc \in {"idle", "source"}
    /\ forced \in Sources \union {NONE}
    /\ meddled \in BOOLEAN
    /\ strays \in 0..2

(* A source in control holds on while its frames are fresh, or, when they  *)
(* report failsafe, very fresh: half of the quality 100 or 75 is still     *)
(* over the limit of selectBestSource().                                   *)
HoldsOn(s) == age[s] <= IF s \in failsafes THEN GoodAge ELSE MediumAge

(* When a healthy source's frame is not passed on in automatic mode, a     *)
(* source of a higher priority holds on, or a switch happened less than    *)
(* SwitchDelay ago.  The source that holds on may be one that reports      *)
(* failsafe, and then the healthy one is withheld for as long as that one  *)
(* sends, although routeFrame() means to switch away from it.  Where no    *)
(* frame comes at all, nothing is said.                                    *)
OutageBounded ==
    /\ pc = "write"
    /\ currentMode = "AUTO" /\ ~meddled
    /\ frame.failsafe = 0
    /\ frame.source # activeSource
    => \/ activeSource < frame.source /\ HoldsOn(activeSource)
       \/ switchAge < SwitchDelay

(* A source in control that delivers is reported as OK, but for the first  *)
(* of the two frames that lead out of failsafe: updateFailsafeState(),     *)
(* which runs for the frames of all sources, and the reset of its counter  *)
(* by a switch.                                                            *)
HealthyReported ==
    /\ pc = "write"
    /\ frame.source = activeSource /\ ~meddled
    => \/ currentState = "OK"
       \/ currentState = "FAILSAFE" /\ recovery = 1

(* The frames of a healthy source are passed on, unless a higher priority   *)
(* holds on (in failsafe too) or a switch is recent, and what the router    *)
(* reports of the source in control is right.                               *)
SignalKept == OutageBounded /\ HealthyReported

(* At most one frame is repeated after UDP has lost control: tick() tests  *)
(* the source before it copies the frame, and again 20 ms later.           *)
KeeperYields == strays <= 1

(* No source gets control back within SwitchDelay of an automatic switch   *)
(* away from it.  previousSourceId remembers one source: for three sources *)
(* it does not hold.                                                       *)
NoFlap == [][SwitchSource => left[best] >= SwitchDelay]_vars

(* Once UDP is lost for good the keeper falls silent, so that the flight   *)
(* controller sees the loss: the age test of tick().                       *)
KeeperStops == <>[](age[UDP] > UdpTimeout) => <>[](tickPc = "idle")

(* The keeper neither speaks over another source nor hides a loss (tick()). *)
KeeperEnds == []KeeperYields /\ KeeperStops

(* A source that delivers without failsafe bit, while those of a higher    *)
(* priority are silent, gets control in the end and is reported as OK,     *)
(* whatever the user and the other sources did before.                     *)
Rightful(s) ==
    /\ age[s] < HoldAge /\ s \notin failsafes
    /\ \A t \in Configured : t < s => age[t] > MediumAge

HealthyTakesOver ==
    \A s \in Configured :
        <>[](currentMode = "AUTO" /\ webPc = "idle" /\ Rightful(s))
            => <>[](activeSource = s /\ currentState = "OK")

=============================================================================
