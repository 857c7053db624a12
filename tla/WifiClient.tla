------------------------------ MODULE WifiClient ------------------------------
(*****************************************************************************)
(* The WiFi client of wifi/wifi_manager.cpp: finding a configured network,   *)
(* connecting, retrying, giving up, reconnecting and switching off.          *)
(*                                                                           *)
(* Four actors: the event task, which runs wifi_event_handler(); the timer   *)
(* task, which runs the deferred retry; the main loop, which starts the      *)
(* client, calls wifiProcess() and, when the WiFi timeout elapses,           *)
(* wifiStop(); and the WiFi driver (external), which does what it is asked   *)
(* to and posts events.  A handler is one step: it is not preempted by       *)
(* another event.  The other tasks have a step for each call of the driver,  *)
(* so what they read before may be stale.                                    *)
(*****************************************************************************)
EXTENDS Integers, Sequences, FiniteSets

CONSTANTS
    NumNetworks,      \* configured networks, in order of priority
    RightPassword,    \* those that can be joined: the password is right
    MaxRetries,       \* WIFI_CLIENT_MAX_RETRIES
    ScanFailureReset, \* failed scan starts after which the driver is reset
    MaxEvents         \* bound: events the driver posts before it waits

Networks == 1..NumNetworks
NoNetwork == 0   \* the index -1 of the code

ASSUME WifiClientAssumption ==
    /\ NumNetworks \in Nat \ {0}
    /\ RightPassword \subseteq Networks
    /\ MaxRetries \in Nat \ {0}
    /\ ScanFailureReset \in Nat \ {0}
    /\ MaxEvents \in Nat \ {0}

VARIABLES
    wifiClientState, wifiClientConnected,  \* fields of systemState
    connectInProgress, scanInProgress, targetNetworkFound,
    currentNetworkIndex,   \* the network being tried
    networkAuthFailed,     \* the set of networks given up
    perNetworkRetryCount,  \* counts up to MaxRetries, beyond which all is one
    scanFailureCount,
    reconnectTimer,        \* "idle", "armed", or "deleted"
    wifiInitialized, wifiStopping,
    connectOverdue,        \* 10 s have passed since lastConnectAttempt
    mainAt, timerAt,       \* where the main loop and the timer task are
    radio,                 \* the driver: "off", "idle", "connecting",
                           \* "associated" (no address yet) or "connected"
    radioNetwork,          \* the network the driver is configured for
    radioScan,             \* the driver is scanning
    events                 \* posted and not handled yet

clientVars == <<wifiClientState, wifiClientConnected, connectInProgress,
                targetNetworkFound, currentNetworkIndex, connectOverdue>>
retryVars == <<networkAuthFailed, perNetworkRetryCount>>
scanVars == <<scanInProgress, scanFailureCount>>
lifeVars == <<wifiInitialized, wifiStopping>>
radioVars == <<radio, radioNetwork, radioScan>>
vars == <<clientVars, retryVars, scanVars, lifeVars, radioVars,
          reconnectTimer, mainAt, timerAt, events>>

States == {"IDLE", "SCANNING", "CONNECTING", "CONNECTED", "WRONG_PASSWORD",
           "NO_SSID"}

Started == [kind |-> "start"]
GotAddress == [kind |-> "got_ip"]
Disconnected(auth) == [kind |-> "disconnected", auth |-> auth]
ScanDone == [kind |-> "scan_done"]
Events == {Started, GotAddress, ScanDone}
              \cup {Disconnected(auth) : auth \in BOOLEAN}

-----------------------------------------------------------------------------
(* What the driver does when it is called.                                   *)

(* esp_wifi_connect(): refused unless the station is idle. *)
Connect == radio' = IF radio = "idle" THEN "connecting" ELSE radio

(* esp_wifi_set_config(): refused while connecting. *)
Configure(n) ==
    radioNetwork' = IF radio = "connecting" THEN radioNetwork ELSE n

(* What ends when the station is told to disconnect or to stop. *)
LinkEnds ==
    IF radio \in {"connecting", "associated", "connected"}
    THEN <<Disconnected(FALSE)>> ELSE <<>>

(* esp_wifi_disconnect() *)
Disconnect ==
    /\ radio' = IF radio = "off" THEN "off" ELSE "idle"
    /\ events' = events \o LinkEnds

(* esp_wifi_scan_start(): refused while off, connecting or scanning. *)
CanScan == radio \notin {"off", "connecting"} /\ ~radioScan

(* esp_wifi_stop() *)
StopRadio ==
    /\ radio' = "off"
    /\ radioScan' = FALSE
    /\ events' = events \o (IF radioScan THEN <<ScanDone>> ELSE <<>>)
                        \o LinkEnds

-----------------------------------------------------------------------------
(* After wifiInit(). *)
Init ==
    /\ wifiClientState = "IDLE" /\ wifiClientConnected = FALSE
    /\ connectInProgress = FALSE /\ connectOverdue = FALSE
    /\ targetNetworkFound = FALSE /\ currentNetworkIndex = NoNetwork
    /\ networkAuthFailed = {}
    /\ perNetworkRetryCount = [n \in Networks |-> 0]
    /\ scanInProgress = FALSE /\ scanFailureCount = 0
    /\ reconnectTimer = "idle"
    /\ wifiInitialized = TRUE /\ wifiStopping = FALSE
    /\ mainAt = "start" /\ timerAt = "idle"
    /\ radio = "off" /\ radioNetwork = 1 /\ radioScan = FALSE
    /\ events = <<>>

-----------------------------------------------------------------------------
(* The event handler.                                                        *)

Handle(kind) ==
    /\ events # <<>>
    /\ Head(events).kind = kind
    /\ events' = Tail(events)

HandleStart ==
    /\ Handle("start")
    /\ Connect
    /\ UNCHANGED <<clientVars, retryVars, scanVars, lifeVars,
                   radioNetwork, radioScan, reconnectTimer, mainAt, timerAt>>

LostConnectionOnly ==  \* mutant: the attempt flag is not reset
    /\ wifiClientState = "CONNECTED"
    /\ wifiClientState' = "SCANNING"
    /\ targetNetworkFound' = FALSE
    /\ scanInProgress' = FALSE
    /\ UNCHANGED <<connectInProgress, retryVars, reconnectTimer>>

(* A disconnect that ends an established connection: scan at once. *)
LostConnection ==
    /\ wifiClientState = "CONNECTED"
    /\ wifiClientState' = "SCANNING"
    /\ targetNetworkFound' = FALSE
    /\ connectInProgress' = FALSE
    /\ scanInProgress' = FALSE
    /\ UNCHANGED <<retryVars, reconnectTimer>>

Failures(n) ==  \* attempts on n that failed, this one included
    IF perNetworkRetryCount[n] < MaxRetries THEN perNetworkRetryCount[n] + 1
                                            ELSE MaxRetries

Exhausted(n) == Failures(n) >= MaxRetries

(* Back to scanning. *)
ScanAgain ==
    /\ wifiClientState' = "SCANNING"
    /\ scanInProgress' = FALSE
    /\ UNCHANGED <<targetNetworkFound, reconnectTimer>>

(* The password of the current network was refused once too often. *)
GiveUp(n) ==
    /\ networkAuthFailed' = networkAuthFailed \cup {n}
    /\ \/ /\ networkAuthFailed' = Networks
          /\ wifiClientState' = "WRONG_PASSWORD"
          /\ targetNetworkFound' = FALSE
          /\ UNCHANGED <<scanInProgress, reconnectTimer>>
       \/ /\ networkAuthFailed' # Networks
          /\ ScanAgain

(* Another attempt on the same network in half a second. *)
RetrySoon ==
    /\ wifiClientState' = "CONNECTING"
    /\ reconnectTimer' = IF reconnectTimer = "idle" THEN "armed"
                                                    ELSE reconnectTimer
    /\ UNCHANGED <<targetNetworkFound, scanInProgress>>

FailedAttempt(auth) ==
    /\ connectInProgress
    /\ wifiClientState \notin {"CONNECTED", "WRONG_PASSWORD"}
    /\ connectInProgress' = FALSE
    /\ \/ /\ currentNetworkIndex = NoNetwork
          /\ ScanAgain
          /\ UNCHANGED retryVars
       \/ \E n \in Networks :
            /\ n = currentNetworkIndex
            /\ perNetworkRetryCount' =
                   [perNetworkRetryCount EXCEPT ![n] = Failures(n)]
            /\ \/ /\ auth /\ Exhausted(n)
                  /\ GiveUp(n)
               \/ /\ ~(auth /\ Exhausted(n))
                  /\ UNCHANGED networkAuthFailed
                  /\ IF targetNetworkFound /\ ~Exhausted(n) THEN RetrySoon
                                                            ELSE ScanAgain

(* No attempt is known to be under way. *)
UnexpectedDisconnect ==
    /\ wifiClientState # "CONNECTED"
    /\ connectInProgress => wifiClientState = "WRONG_PASSWORD"
    /\ UNCHANGED <<wifiClientState, targetNetworkFound, connectInProgress,
                   scanInProgress, retryVars, reconnectTimer>>

ClearConnected == wifiClientConnected' = FALSE

HandleDisconnected ==
    /\ Handle("disconnected")
    /\ \/ /\ wifiStopping
          /\ UNCHANGED <<clientVars, retryVars, scanVars, reconnectTimer>>
       \/ /\ ~wifiStopping
          /\ LostConnection \/ FailedAttempt(Head(events).auth)
                            \/ UnexpectedDisconnect
          /\ ClearConnected
          /\ UNCHANGED <<currentNetworkIndex, connectOverdue,
                         scanFailureCount>>
    /\ UNCHANGED <<lifeVars, radioVars, mainAt, timerAt>>

(* The network of the highest priority among those found is tried. *)
TryBest(candidates) ==
    \E n \in candidates :
        /\ \A m \in candidates : n <= m
        /\ ~connectInProgress
        /\ wifiClientState # "WRONG_PASSWORD"
        /\ currentNetworkIndex' = n
        /\ targetNetworkFound' = TRUE
        /\ Configure(n)
        /\ wifiClientState' = "CONNECTING"
        /\ connectInProgress' = TRUE
        /\ connectOverdue' = FALSE
        /\ Connect

NoneFound ==
    /\ wifiClientState # "CONNECTED"
    /\ targetNetworkFound' = FALSE
    /\ wifiClientState' = "NO_SSID"
    /\ UNCHANGED <<connectInProgress, currentNetworkIndex, connectOverdue,
                   radio, radioNetwork>>

ScanOfNoUse(candidates) ==
    /\ IF candidates = {} THEN wifiClientState = "CONNECTED"
       ELSE connectInProgress \/ wifiClientState = "WRONG_PASSWORD"
    /\ UNCHANGED <<wifiClientState, targetNetworkFound, connectInProgress,
                   currentNetworkIndex, connectOverdue, radio, radioNetwork>>

HandleScanDoneIfFound ==  \* mutant: an early return if there is none
    /\ Handle("scan_done")
    /\ \E found \in SUBSET Networks :
         LET candidates == found \ networkAuthFailed
         IN  /\ scanInProgress' = (scanInProgress /\ candidates = {})
             /\ \/ TryBest(candidates)
                \/ candidates = {} /\ NoneFound
                \/ ScanOfNoUse(candidates)
    /\ UNCHANGED <<wifiClientConnected, scanFailureCount, retryVars,
                   radioScan, lifeVars, reconnectTimer, mainAt, timerAt>>

HandleScanDone ==
    /\ Handle("scan_done")
    /\ scanInProgress' = FALSE
    /\ \E found \in SUBSET Networks :
         LET candidates == found \ networkAuthFailed
         IN  \/ TryBest(candidates)
             \/ candidates = {} /\ NoneFound
             \/ ScanOfNoUse(candidates)
    /\ UNCHANGED <<wifiClientConnected, scanFailureCount, retryVars,
                   radioScan, lifeVars, reconnectTimer, mainAt, timerAt>>

HandleGotIp ==
    /\ Handle("got_ip")
    /\ wifiClientState' = "CONNECTED"
    /\ wifiClientConnected' = TRUE
    /\ scanFailureCount' = 0
    /\ targetNetworkFound' = TRUE
    /\ connectInProgress' = FALSE
    /\ UNCHANGED <<currentNetworkIndex, connectOverdue, retryVars,
                   scanInProgress, lifeVars, radioVars,
                   reconnectTimer, mainAt, timerAt>>

HandleEvent ==
    HandleStart \/ HandleDisconnected \/ HandleScanDone \/ HandleGotIp

-----------------------------------------------------------------------------
(* The deferred retry: wifi_reconnect_timer_cb().                            *)

TimerFires ==
    /\ reconnectTimer = "armed" /\ timerAt = "idle"
    /\ reconnectTimer' = "idle"
    /\ connectInProgress' = TRUE
    /\ connectOverdue' = FALSE
    /\ timerAt' = "connect"
    /\ UNCHANGED <<wifiClientState, wifiClientConnected, targetNetworkFound,
                   currentNetworkIndex, retryVars, scanVars, lifeVars,
                   radioVars, mainAt, events>>

TimerConnects ==
    /\ timerAt = "connect"
    /\ timerAt' = "idle"
    /\ Connect
    /\ UNCHANGED <<clientVars, retryVars, scanVars, lifeVars, radioNetwork,
                   radioScan, reconnectTimer, mainAt, events>>

Timer == TimerFires \/ TimerConnects

-----------------------------------------------------------------------------
(* The main loop: wifiStartClient(), then wifiProcess() for ever, and        *)
(* wifiStop() when the WiFi timeout elapses.                                 *)

MainGoto(from, to) == mainAt = from /\ mainAt' = to

(* wifiResetAuthFlags() *)
ResetAuthFlags ==
    /\ networkAuthFailed' = {}
    /\ perNetworkRetryCount' = [n \in Networks |-> 0]
    /\ currentNetworkIndex' = NoNetwork

StartClient ==
    /\ MainGoto("start", "start scan")
    /\ ResetAuthFlags
    /\ radioNetwork' = 1
    /\ radio' = "idle"
    /\ events' = Append(events, Started)
    /\ wifiClientState' = "SCANNING"
    /\ UNCHANGED <<wifiClientConnected, connectInProgress, connectOverdue,
                   targetNetworkFound, scanVars, lifeVars, radioScan,
                   reconnectTimer, timerAt>>

FirstScan ==
    /\ \/ MainGoto("start scan", "scanning") /\ CanScan /\ radioScan' = TRUE
       \/ MainGoto("start scan", "loop") /\ ~CanScan /\ UNCHANGED radioScan
    /\ UNCHANGED <<clientVars, retryVars, scanVars, lifeVars, radio,
                   radioNetwork, reconnectTimer, timerAt, events>>

(* After a scan was started: by wifiStartClient() or by wifiProcess(). *)
NoteScan ==
    /\ MainGoto("scanning", "loop")
    /\ scanInProgress' = TRUE
    /\ scanFailureCount' = 0
    /\ UNCHANGED <<clientVars, retryVars, lifeVars, radioVars,
                   reconnectTimer, timerAt, events>>

(* wifiProcess() has work to do. *)
Active ==
    /\ wifiInitialized /\ ~wifiStopping
    /\ wifiClientState \notin {"IDLE", "WRONG_PASSWORD", "CONNECTED"}

Overdue == connectInProgress /\ connectOverdue

WantsScan ==
    /\ ~scanInProgress /\ ~connectInProgress
    /\ wifiClientState # "CONNECTED"

(* wifiProcess() up to its first call of the driver. *)
FindsOverdue ==
    /\ MainGoto("loop", "disconnect")
    /\ Active /\ Overdue
    /\ UNCHANGED <<clientVars, retryVars, scanVars, lifeVars, radioVars,
                   reconnectTimer, timerAt, events>>

(* The disconnect event decides how to go on.  The rest of this pass is the  *)
(* beginning of the next one.                                                *)
EndOverdueAttempt ==
    /\ MainGoto("disconnect", "loop")
    /\ Disconnect
    /\ UNCHANGED <<clientVars, retryVars, scanVars, lifeVars, radioNetwork,
                   radioScan, reconnectTimer, timerAt>>

StartScan ==
    /\ MainGoto("loop", "scanning")
    /\ Active /\ ~Overdue /\ WantsScan /\ CanScan
    /\ radioScan' = TRUE
    /\ UNCHANGED <<clientVars, retryVars, scanVars, lifeVars, radio,
                   radioNetwork, reconnectTimer, timerAt, events>>

TooManyLater(failures) == failures > ScanFailureReset  \* mutant: off by one
TooMany(failures) == failures >= ScanFailureReset

(* A failed start is repeated a second later.  After ten of them the driver  *)
(* is stopped; the reboot at twenty is inside that branch and unreachable.   *)
ScanRefused ==
    /\ mainAt = "loop"
    /\ Active /\ ~Overdue /\ WantsScan /\ ~CanScan
    /\ scanFailureCount' = scanFailureCount + 1
    /\ \/ /\ ~TooMany(scanFailureCount')
          /\ mainAt' = "loop"
          /\ UNCHANGED <<radio, radioScan, events>>
       \/ /\ TooMany(scanFailureCount')
          /\ mainAt' = "restart"
          /\ StopRadio
    /\ UNCHANGED <<clientVars, retryVars, scanInProgress, lifeVars,
                   radioNetwork, reconnectTimer, timerAt>>

(* A second later: what was posted has been handled. *)
RestartRadio ==
    /\ MainGoto("restart", "loop")
    /\ events = <<>>
    /\ radio' = "idle"
    /\ events' = Append(events, Started)
    /\ scanFailureCount' = 0
    /\ UNCHANGED <<clientVars, retryVars, scanInProgress, lifeVars,
                   radioNetwork, radioScan, reconnectTimer,
                   timerAt>>

(* wifiStop(), from the tests of the handler's flag to the end. *)
StopBegins ==
    /\ MainGoto("loop", "stop radio")
    /\ wifiStopping' = TRUE
    /\ UNCHANGED <<clientVars, retryVars, scanVars, wifiInitialized,
                   radioVars, reconnectTimer, timerAt, events>>

StopsRadio ==
    /\ MainGoto("stop radio", "stop timer")
    /\ StopRadio
    /\ UNCHANGED <<clientVars, retryVars, scanVars, lifeVars, radioNetwork,
                   reconnectTimer, timerAt>>

StopsTimer ==
    /\ MainGoto("stop timer", "deinit")
    /\ reconnectTimer' = "deleted"
    /\ UNCHANGED <<clientVars, retryVars, scanVars, lifeVars, radioVars,
                   timerAt, events>>

(* The handlers are unregistered: what is still queued is never seen. *)
StopEnds ==
    /\ MainGoto("deinit", "off")
    /\ events' = <<>>
    /\ wifiInitialized' = FALSE
    /\ wifiStopping' = FALSE
    /\ UNCHANGED <<clientVars, retryVars, scanVars, radioVars,
                   reconnectTimer, timerAt>>

Main ==
    \/ StartClient \/ FirstScan \/ NoteScan
    \/ FindsOverdue \/ EndOverdueAttempt \/ StartScan \/ ScanRefused \/ RestartRadio
    \/ StopsRadio \/ StopsTimer \/ StopEnds

(* What senders ask before they use the network. *)
WifiIsReady == wifiInitialized /\ ~wifiStopping /\ wifiClientConnected

-----------------------------------------------------------------------------
(* Time and the world outside.                                               *)

ConnectTimeElapses ==
    /\ connectInProgress /\ ~connectOverdue /\ connectOverdue' = TRUE
    /\ UNCHANGED <<wifiClientState, wifiClientConnected, connectInProgress,
                   targetNetworkFound, currentNetworkIndex, retryVars,
                   scanVars, lifeVars, radioVars, reconnectTimer,
                   mainAt, timerAt, events>>

(* The driver posts an event of its own.  (A lost link may overtake the      *)
(* bound by one: it can follow any other event.)                             *)
Post(e) ==
    /\ \/ Len(events) < MaxEvents
       \/ e.kind = "disconnected" /\ Len(events) = MaxEvents
    /\ events' = Append(events, e)

LinkFails ==
    /\ radio \in {"connecting", "associated", "connected"}
    /\ radio' = "idle"
    /\ \E auth \in BOOLEAN : Post(Disconnected(auth))
    /\ UNCHANGED <<clientVars, retryVars, scanVars, lifeVars, radioNetwork,
                   radioScan, reconnectTimer, mainAt, timerAt>>

Associates ==
    /\ radio = "connecting"
    /\ radioNetwork \in RightPassword
    /\ radio' = "associated"
    /\ UNCHANGED <<clientVars, retryVars, scanVars, lifeVars, radioNetwork,
                   radioScan, reconnectTimer, mainAt, timerAt,
                   events>>

GetsAddress ==
    /\ radio = "associated"
    /\ radio' = "connected"
    /\ Post(GotAddress)
    /\ UNCHANGED <<clientVars, retryVars, scanVars, lifeVars, radioNetwork,
                   radioScan, reconnectTimer, mainAt, timerAt>>

(* A scan lasts longer than it takes to note that it was started. *)
ScanEnds ==
    /\ radioScan /\ mainAt # "scanning"
    /\ radioScan' = FALSE
    /\ Post(ScanDone)
    /\ UNCHANGED <<clientVars, retryVars, scanVars, lifeVars, radio,
                   radioNetwork, reconnectTimer, mainAt, timerAt>>

(* handleSaveJson() calls wifiResetAuthFlags() when it has taken over other   *)
(* networks.  It may still refuse the request, and then nothing restarts; if  *)
(* it does not, the client goes on for the 3 s until the restart.  The page   *)
(* is only served over a connection.                                          *)
WebResetsFlags ==
    /\ WifiIsReady
    /\ ResetAuthFlags
    /\ UNCHANGED <<wifiClientState, wifiClientConnected, connectInProgress,
                   targetNetworkFound, connectOverdue, scanVars, lifeVars,
                   radioVars, reconnectTimer, mainAt, timerAt, events>>

World ==
    \/ WebResetsFlags \/ ConnectTimeElapses \/ LinkFails \/ Associates \/ GetsAddress \/ ScanEnds

Next ==
    HandleEvent \/ Timer \/ Main \/ StopBegins \/ World

(* The tasks run and time passes.  Nothing is assumed about the networks,    *)
(* about scans ending or attempts succeeding, or about the WiFi timeout.     *)
Fairness ==
    /\ WF_vars(HandleEvent)
    /\ WF_vars(TimerFires) /\ WF_vars(TimerConnects)
    /\ WF_vars(Main)
    /\ WF_vars(ConnectTimeElapses)

Spec == Init /\ [][Next]_vars /\ Fairness

-----------------------------------------------------------------------------
(* The variables have their types. *)
TypeOK ==
    /\ wifiClientState \in States
    /\ wifiClientConnected \in BOOLEAN /\ connectInProgress \in BOOLEAN
    /\ scanInProgress \in BOOLEAN /\ targetNetworkFound \in BOOLEAN
    /\ currentNetworkIndex \in Networks \cup {NoNetwork}
    /\ networkAuthFailed \subseteq Networks
    /\ perNetworkRetryCount \in [Networks -> 0..MaxRetries]
    /\ scanFailureCount \in 0..ScanFailureReset
    /\ reconnectTimer \in {"idle", "armed", "deleted"}
    /\ wifiInitialized \in BOOLEAN /\ wifiStopping \in BOOLEAN
    /\ connectOverdue \in BOOLEAN
    /\ mainAt \in {"start", "start scan", "scanning", "loop", "disconnect",
                   "restart", "stop radio", "stop timer",
                   "deinit", "off"}
    /\ timerAt \in {"idle", "connect"}
    /\ radio \in {"off", "idle", "connecting", "associated", "connected"}
    /\ radioNetwork \in Networks /\ radioScan \in BOOLEAN
    /\ events \in Seq(Events)

Settled == events = <<>> /\ timerAt = "idle" /\ mainAt # "restart"

(* The client counts on an attempt, and still has a network to try. *)
Waiting == Active /\ connectInProgress /\ networkAuthFailed # Networks

(* An attempt the client believes in is one the driver is making: while      *)
(* connectInProgress is set no scan is started, so an attempt without an     *)
(* event to end it would leave the client waiting for ever.                  *)
NeverWaitsForNothing == Waiting /\ Settled => radio \notin {"off", "idle"}

(* In the state CONNECTED wifiProcess() does nothing, so a lost link must    *)
(* not go unnoticed; nor may senders be told that the network is there.      *)
ConnectedIsTrue ==
    /\ wifiClientState = "CONNECTED" => wifiClientConnected
    /\ WifiIsReady /\ events = <<>> => radio = "connected"

(* What the client believes of the link is so, be it a connection or an      *)
(* attempt, whatever events are late (wifi_event_handler()).                 *)
KnowsTheLink == NeverWaitsForNothing /\ ConnectedIsTrue

(* The search goes on: again and again the client awaits no attempt, and     *)
(* while it has a network that is not given up its radio is at work then.    *)
(* So every attempt ends, in a connection, in a failure that is handled or   *)
(* by the timeout, even if the driver says nothing; and no failure, refused  *)
(* scan or reset of the driver leaves the client with an idle radio: since   *)
(* wifiProcess() scans only when it has noted neither a scan nor an attempt, *)
(* a note that nobody takes back would end the search.  Networks that were   *)
(* given up are left out, and one that worked before can be among them.      *)
Searching == Active /\ networkAuthFailed # Networks
RadioAtWork == radioScan \/ radio \in {"connecting", "associated", "connected"}
SearchGoesOn == []<>(~Waiting /\ (Searching => RadioAtWork))

=============================================================================
