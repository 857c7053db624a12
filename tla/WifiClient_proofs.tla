-------------------------- MODULE WifiClient_proofs --------------------------
(*****************************************************************************)
(* What holds of the WiFi client for any number of networks, right or wrong  *)
(* passwords, retries and scan failures: its types, and that it knows the    *)
(* link: it is never left waiting for an event that does not come, and never *)
(* takes a lost link for a connection.                                       *)
(*                                                                           *)
(* The client learns of the link from a queue of events only.  The invariant *)
(* says what the queue must hold when the client's flags are not true yet:   *)
(* Told is about the connection, Tried about an attempt.                     *)
(*****************************************************************************)
EXTENDS WifiClient, SequenceTheorems, TLAPS

(* The types, the flags apart. *)
Flags ==
    /\ wifiClientConnected \in BOOLEAN /\ connectInProgress \in BOOLEAN
    /\ scanInProgress \in BOOLEAN /\ targetNetworkFound \in BOOLEAN
    /\ wifiInitialized \in BOOLEAN /\ wifiStopping \in BOOLEAN
    /\ connectOverdue \in BOOLEAN /\ radioScan \in BOOLEAN
Rest ==
    /\ wifiClientState \in States
    /\ currentNetworkIndex \in Networks \cup {NoNetwork}
    /\ networkAuthFailed \subseteq Networks
    /\ perNetworkRetryCount \in [Networks -> 0..MaxRetries]
    /\ scanFailureCount \in 0..ScanFailureReset
    /\ reconnectTimer \in {"idle", "armed", "deleted"}
    /\ mainAt \in {"start", "start scan", "scanning", "loop", "disconnect",
                   "restart", "stop radio", "stop timer",
                   "deinit", "off"}
    /\ timerAt \in {"idle", "connect"}
    /\ radio \in {"off", "idle", "connecting", "associated", "connected"}
    /\ radioNetwork \in Networks
    /\ events \in Seq(Events)

(* Scans fail less often than resets the driver, but just before that. *)
Counted == mainAt # "restart" => scanFailureCount < ScanFailureReset

RestInv == Rest /\ Counted

LEMMA Sizes ==
    /\ 1 \in Networks /\ NoNetwork = 0 /\ MaxRetries \in Nat \ {0}
    /\ ScanFailureReset \in Nat \ {0}
    /\ 0 \in 0..MaxRetries /\ 0 \in 0..ScanFailureReset /\ 0 < ScanFailureReset
  <1>1. /\ 1 \in Networks /\ NoNetwork = 0 /\ MaxRetries \in Nat \ {0}
        /\ ScanFailureReset \in Nat \ {0}
    BY WifiClientAssumption DEF Networks, NoNetwork
  <1>2. 0 \in 0..MaxRetries /\ 0 \in 0..ScanFailureReset /\ 0 < ScanFailureReset
    BY <1>1
  <1> QED BY <1>1, <1>2

LEMMA NoRetries == [n \in Networks |-> 0] \in [Networks -> 0..MaxRetries]
  BY Sizes, Zenon

(* The queue of events: one more, two more, none, one less. *)
LEMMA EventTypes ==
    /\ Started \in Events /\ GotAddress \in Events /\ ScanDone \in Events
    /\ \A auth \in BOOLEAN : Disconnected(auth) \in Events
    /\ Started.kind = "start" /\ GotAddress.kind = "got_ip" /\ ScanDone.kind = "scan_done"
    /\ \A auth \in BOOLEAN : Disconnected(auth).kind = "disconnected"
  <1>1. Started \in Events /\ GotAddress \in Events /\ ScanDone \in Events
    BY Zenon DEF Events
  <1>2. \A auth \in BOOLEAN : Disconnected(auth) \in Events
    BY Zenon DEF Events
  <1>3. Started.kind = "start" /\ GotAddress.kind = "got_ip" /\ ScanDone.kind = "scan_done"
    BY DEF Started, GotAddress, ScanDone
  <1>4. ASSUME NEW auth \in BOOLEAN PROVE Disconnected(auth).kind = "disconnected"
    BY DEF Disconnected
  <1> QED BY <1>1, <1>2, <1>3, <1>4

LEMMA Appended ==
    ASSUME NEW q \in Seq(Events), NEW e \in Events
    PROVE  /\ Append(q, e) = q \o <<e>> /\ <<e>> \in Seq(Events)
           /\ Len(<<e>>) = 1 /\ <<e>>[1] = e
  <1>1. <<e>> \in Seq(Events) /\ Len(<<e>>) = 1 /\ <<e>>[1] = e
    OBVIOUS
  <1>2. Append(q, e) = q \o <<e>>
    BY AppendIsConcat, Zenon
  <1> QED BY <1>1, <1>2

LEMMA NothingAppended ==
    ASSUME NEW q \in Seq(Events)
    PROVE  q \o <<>> = q /\ <<>> \in Seq(Events) /\ Len(<<>>) = 0
  BY ConcatEmptySeq

(* What is posted when the link is ended: a disconnect, if there was one. *)
LinkUp == {"connecting", "associated", "connected"}

LEMMA LinkEndsType ==
    /\ LinkEnds \in Seq(Events)
    /\ IF radio \in LinkUp THEN LinkEnds = <<Disconnected(FALSE)>> ELSE LinkEnds = <<>>
  <1>1. Disconnected(FALSE) \in Events
    BY EventTypes, Zenon
  <1>2. IF radio \in LinkUp THEN LinkEnds = <<Disconnected(FALSE)>> ELSE LinkEnds = <<>>
    BY Zenon DEF LinkEnds, LinkUp
  <1>3. CASE radio \in LinkUp
    <2>1. LinkEnds = <<Disconnected(FALSE)>>
      BY <1>2, <1>3
    <2>2. <<Disconnected(FALSE)>> \in Seq(Events)
      BY <1>1, Appended, EmptySeq
    <2> QED BY <1>2, <1>3, <2>1, <2>2, Zenon
  <1>4. CASE radio \notin LinkUp
    BY <1>2, <1>4
  <1> QED BY <1>3, <1>4

LEMMA StopRadioEvents ==
    ASSUME events \in Seq(Events), StopRadio
    PROVE  \E s \in Seq(Events) :
             /\ events' = events \o s
             /\ \A i \in 1..Len(s) : s[i].kind \in {"scan_done", "disconnected"}
             /\ radio \in LinkUp => \E i \in 1..Len(s) : s[i].kind = "disconnected"
  <1> DEFINE a == IF radioScan THEN <<ScanDone>> ELSE <<>>
  <1>1. a \in Seq(Events) /\ \A i \in 1..Len(a) : a[i].kind = "scan_done"
    BY EventTypes
  <1>2. LinkEnds \in Seq(Events) /\ \A i \in 1..Len(LinkEnds) : LinkEnds[i].kind = "disconnected"
    <2>1. Disconnected(FALSE).kind = "disconnected"
      BY EventTypes, Zenon
    <2>2. LinkEnds = <<Disconnected(FALSE)>> \/ LinkEnds = <<>>
      BY LinkEndsType, Zenon
    <2>3. LinkEnds \in Seq(Events)
      BY LinkEndsType, Zenon
    <2>4. CASE LinkEnds = <<Disconnected(FALSE)>>
      <3>1. Len(LinkEnds) = 1 /\ LinkEnds[1] = Disconnected(FALSE)
        BY <2>4
      <3>2. ASSUME NEW i \in 1..Len(LinkEnds) PROVE LinkEnds[i].kind = "disconnected"
        <4>1. i = 1
          BY <3>1
        <4> QED BY <2>1, <3>1, <4>1
      <3> QED BY <2>3, <3>2
    <2>5. CASE LinkEnds = <<>>
      BY <2>3, <2>5
    <2> QED BY <2>2, <2>4, <2>5
  <1>3. radio \in LinkUp => Len(LinkEnds) = 1 /\ LinkEnds[1].kind = "disconnected"
    <2>1. Disconnected(FALSE).kind = "disconnected"
      BY EventTypes, Zenon
    <2>2. radio \in LinkUp => LinkEnds = <<Disconnected(FALSE)>>
      BY LinkEndsType, Zenon
    <2> SUFFICES ASSUME LinkEnds = <<Disconnected(FALSE)>>
                 PROVE  Len(LinkEnds) = 1 /\ LinkEnds[1] = Disconnected(FALSE)
      BY <2>1, <2>2
    <2> QED OBVIOUS
  <1>4. events' = (events \o a) \o LinkEnds
    BY DEF StopRadio
  <1> HIDE DEF a
  <1>5. events' = events \o (a \o LinkEnds)
    BY <1>1, <1>2, <1>4, ConcatAssociative
  <1>6. /\ a \o LinkEnds \in Seq(Events)
        /\ Len(a \o LinkEnds) = Len(a) + Len(LinkEnds)
        /\ \A i \in 1..Len(a) + Len(LinkEnds) :
              (a \o LinkEnds)[i] = IF i <= Len(a) THEN a[i] ELSE LinkEnds[i - Len(a)]
    BY <1>1, <1>2, ConcatProperties
  <1>7. Len(a) \in Nat /\ Len(LinkEnds) \in Nat
    BY <1>1, <1>2
  <1>8. ASSUME NEW i \in 1..Len(a \o LinkEnds)
        PROVE  (a \o LinkEnds)[i].kind \in {"scan_done", "disconnected"}
    <2>1. CASE i <= Len(a)
      BY <1>1, <1>6, <1>7, <2>1
    <2>2. CASE i > Len(a)
      BY <1>2, <1>6, <1>7, <2>2
    <2> QED BY <1>6, <1>7, <2>1, <2>2
  <1>9. radio \in LinkUp => (a \o LinkEnds)[Len(a) + 1].kind = "disconnected"
                            /\ Len(a) + 1 \in 1..Len(a \o LinkEnds)
    <2> SUFFICES ASSUME radio \in LinkUp
                 PROVE  /\ (a \o LinkEnds)[Len(a) + 1].kind = "disconnected"
                        /\ Len(a) + 1 \in 1..Len(a \o LinkEnds)
      OBVIOUS
    <2>1. /\ Len(a) + 1 \in 1..(Len(a) + Len(LinkEnds))
          /\ ~(Len(a) + 1 <= Len(a)) /\ (Len(a) + 1) - Len(a) = 1
      <3> DEFINE m == Len(a)  k == Len(LinkEnds)
      <3>1. m \in Nat /\ k \in Nat /\ k = 1
        BY <1>3, <1>7
      <3> HIDE DEF m, k
      <3>2. m + 1 \in 1..(m + k) /\ ~(m + 1 <= m) /\ (m + 1) - m = 1
        BY <3>1
      <3> QED BY <3>2, Zenon DEF m, k
    <2>2. (a \o LinkEnds)[Len(a) + 1] = LinkEnds[1]
      BY <1>6, <2>1
    <2> QED BY <1>3, <1>6, <2>1, <2>2
  <1> QED BY <1>5, <1>6, <1>8, <1>9

LEMMA HeadAndTail ==
    ASSUME events \in Seq(Events), NEW k, Handle(k)
    PROVE  /\ events # <<>> /\ events[1].kind = k /\ events' = Tail(events)
           /\ events' \in Seq(Events) /\ Len(events') = Len(events) - 1
           /\ \A i \in 1..Len(events') : i + 1 \in 1..Len(events) /\ events'[i] = events[i + 1]
  BY DEF Handle

-----------------------------------------------------------------------------
(* Types                                                                      *)

LEMMA RestInit == Init => RestInv
  <1> SUFFICES ASSUME Init PROVE RestInv
    OBVIOUS
  <1>1. perNetworkRetryCount \in [Networks -> 0..MaxRetries]
    BY NoRetries, Zenon DEF Init
  <1>2. scanFailureCount \in 0..ScanFailureReset /\ scanFailureCount < ScanFailureReset
    BY Sizes DEF Init
  <1>3. radioNetwork \in Networks /\ networkAuthFailed \subseteq Networks
    BY Sizes DEF Init
  <1>4. wifiClientState \in States /\ currentNetworkIndex \in Networks \cup {NoNetwork}
    BY DEF Init, States
  <1>5. events \in Seq(Events)
    BY DEF Init
  <1> QED BY <1>1, <1>2, <1>3, <1>4, <1>5 DEF Init, RestInv, Rest, Counted

LEMMA FailuresType ==
    ASSUME Rest, NEW n \in Networks
    PROVE  Failures(n) \in 0..MaxRetries /\ Failures(n) >= perNetworkRetryCount[n]
  <1>1. perNetworkRetryCount[n] \in 0..MaxRetries
    BY DEF Rest
  <1> QED BY <1>1, Sizes DEF Failures

LEMMA HandlerTypes ==
    ASSUME RestInv, HandleStart \/ HandleScanDone \/ HandleGotIp PROVE RestInv'
  <1>1. events' \in Seq(Events)
    BY HeadAndTail DEF HandleStart, HandleScanDone, HandleGotIp, RestInv, Rest
  <1>2. CASE HandleStart
    <2>1. radio' \in {radio, "connecting"}
      BY <1>2 DEF HandleStart, Connect
    <2> QED BY <1>1, <1>2, <2>1
            DEF HandleStart, RestInv, Rest, Counted, clientVars, retryVars, scanVars, lifeVars
  <1>3. CASE HandleGotIp
    <2>1. wifiClientState' \in States /\ scanFailureCount' = 0
      BY <1>3 DEF HandleGotIp, States
    <2>2. UNCHANGED <<currentNetworkIndex, networkAuthFailed, perNetworkRetryCount,
                      reconnectTimer, mainAt, timerAt, radio, radioNetwork>>
      BY <1>3 DEF HandleGotIp, retryVars, lifeVars, radioVars
    <2> QED BY <1>1, <2>1, <2>2, Sizes DEF RestInv, Rest, Counted
  <1>4. CASE HandleScanDone
    <2>1. /\ wifiClientState' \in {wifiClientState, "CONNECTING", "NO_SSID"}
          /\ radio' \in {radio, "connecting"}
          /\ currentNetworkIndex' \in Networks \cup {currentNetworkIndex}
          /\ radioNetwork' \in Networks \cup {radioNetwork}
      BY <1>4 DEF HandleScanDone, TryBest, NoneFound, ScanOfNoUse, Connect, Configure
    <2>2. UNCHANGED <<scanFailureCount, networkAuthFailed, perNetworkRetryCount,
                      reconnectTimer, mainAt, timerAt>>
      BY <1>4 DEF HandleScanDone, retryVars, lifeVars
    <2>3. wifiClientState' \in States
      BY <2>1 DEF RestInv, Rest, States
    <2>4. currentNetworkIndex' \in Networks \cup {NoNetwork} /\ radioNetwork' \in Networks
      BY <2>1 DEF RestInv, Rest
    <2>5. radio' \in {"off", "idle", "connecting", "associated", "connected"}
      BY <2>1 DEF RestInv, Rest
    <2> QED BY <1>1, <2>2, <2>3, <2>4, <2>5 DEF RestInv, Rest, Counted
  <1> QED BY <1>2, <1>3, <1>4

LEMMA FailedTypes ==
    ASSUME RestInv, NEW auth, FailedAttempt(auth)
    PROVE  /\ wifiClientState' \in States
           /\ networkAuthFailed' \subseteq Networks
           /\ perNetworkRetryCount' \in [Networks -> 0..MaxRetries]
           /\ reconnectTimer' \in {"idle", "armed", "deleted"}
  <1>1. CASE currentNetworkIndex = NoNetwork /\ ScanAgain /\ UNCHANGED retryVars
    BY <1>1 DEF FailedAttempt, ScanAgain, retryVars, RestInv, Rest, States
  <1>2. ASSUME NEW n \in Networks,
               perNetworkRetryCount' = [perNetworkRetryCount EXCEPT ![n] = Failures(n)],
               GiveUp(n) \/ (UNCHANGED networkAuthFailed /\ (RetrySoon \/ ScanAgain))
        PROVE  /\ wifiClientState' \in States
               /\ networkAuthFailed' \subseteq Networks
               /\ perNetworkRetryCount' \in [Networks -> 0..MaxRetries]
               /\ reconnectTimer' \in {"idle", "armed", "deleted"}
    <2>1. perNetworkRetryCount' \in [Networks -> 0..MaxRetries]
      BY <1>2, FailuresType DEF RestInv, Rest
    <2>2. networkAuthFailed' \subseteq Networks
      BY <1>2 DEF GiveUp, RestInv, Rest
    <2> QED BY <1>2, <2>1, <2>2 DEF GiveUp, RetrySoon, ScanAgain, RestInv, Rest, States
  <1> QED BY <1>1, <1>2 DEF FailedAttempt

LEMMA DisconnectedTypes ==
    ASSUME RestInv, HandleDisconnected PROVE RestInv'
  <1>1. events' \in Seq(Events)
    BY HeadAndTail DEF HandleDisconnected, RestInv, Rest
  <1>2. UNCHANGED <<radio, radioNetwork, mainAt, timerAt, currentNetworkIndex,
                    scanFailureCount>>
    BY DEF HandleDisconnected, radioVars, clientVars, scanVars
  <1>3. /\ wifiClientState' \in States
        /\ networkAuthFailed' \subseteq Networks
        /\ perNetworkRetryCount' \in [Networks -> 0..MaxRetries]
        /\ reconnectTimer' \in {"idle", "armed", "deleted"}
    <2>1. CASE wifiStopping \/ UnexpectedDisconnect
      BY <2>1, FailedTypes DEF HandleDisconnected, UnexpectedDisconnect, LostConnection, clientVars, retryVars, scanVars,
                  RestInv, Rest, States
    <2>2. CASE LostConnection
      BY <2>2 DEF LostConnection, retryVars, RestInv, Rest, States
    <2>3. CASE FailedAttempt(Head(events).auth)
      BY <2>3, FailedTypes
    <2> QED BY <2>1, <2>2, <2>3 DEF HandleDisconnected
  <1> QED BY <1>1, <1>2, <1>3 DEF RestInv, Rest, Counted

LEMMA TimerTypes ==
    ASSUME RestInv, Timer PROVE RestInv'
  <1>1. CASE TimerFires
    BY <1>1 DEF TimerFires, RestInv, Rest, Counted, retryVars, scanVars, lifeVars, radioVars
  <1>2. CASE TimerConnects
    <2>1. radio' \in {radio, "connecting"}
      BY <1>2 DEF TimerConnects, Connect
    <2> QED BY <1>2, <2>1
            DEF TimerConnects, RestInv, Rest, Counted, clientVars, retryVars, scanVars, lifeVars
  <1> QED BY <1>1, <1>2 DEF Timer

LEMMA MainTypes ==
    ASSUME RestInv,
           \/ FirstScan \/ NoteScan \/ FindsOverdue \/ StartScan \/ StopBegins
           \/ StopsTimer \/ StopEnds
    PROVE  RestInv'
  <1>1. CASE FirstScan
    BY <1>1 DEF FirstScan, MainGoto, RestInv, Rest, Counted, clientVars, retryVars, scanVars,
                lifeVars
  <1>2. CASE NoteScan
    BY <1>2, Sizes DEF NoteScan, MainGoto, RestInv, Rest, Counted, clientVars, retryVars,
                lifeVars, radioVars
  <1>3. CASE FindsOverdue \/ StopBegins \/ StopsTimer
    BY <1>3 DEF FindsOverdue, StopBegins, StopsTimer, MainGoto, RestInv, Rest, Counted,
                clientVars, retryVars, scanVars, lifeVars, radioVars
  <1>4. CASE StartScan
    BY <1>4 DEF StartScan, MainGoto, RestInv, Rest, Counted, clientVars, retryVars, scanVars,
                lifeVars
  <1>5. CASE StopEnds
    BY <1>5 DEF StopEnds, MainGoto, RestInv, Rest, Counted, clientVars, retryVars, scanVars,
                radioVars
  <1> QED BY <1>1, <1>2, <1>3, <1>4, <1>5

LEMMA StartTypes ==
    ASSUME RestInv, StartClient \/ RestartRadio PROVE RestInv'
  <1>1. events' \in Seq(Events)
    <2>1. Started \in Events
      BY EventTypes, Zenon
    <2>2. events' = Append(events, Started)
      BY Zenon DEF StartClient, RestartRadio
    <2>3. events \in Seq(Events)
      BY DEF RestInv, Rest
    <2> QED BY <2>1, <2>2, <2>3, AppendProperties
  <1>2. CASE StartClient
    <2>1. perNetworkRetryCount' \in [Networks -> 0..MaxRetries] /\ networkAuthFailed' = {}
          /\ currentNetworkIndex' = NoNetwork
      BY <1>2, NoRetries, Zenon DEF StartClient, ResetAuthFlags
    <2> QED BY <1>1, <1>2, <2>1, Sizes
            DEF StartClient, MainGoto, RestInv, Rest, Counted, States, scanVars, lifeVars
  <1>3. CASE RestartRadio
    BY <1>1, <1>3, Sizes DEF RestartRadio, MainGoto, RestInv, Rest, Counted, clientVars,
                             retryVars, lifeVars
  <1> QED BY <1>2, <1>3

LEMMA StopTypes ==
    ASSUME RestInv, EndOverdueAttempt \/ ScanRefused \/ StopsRadio PROVE RestInv'
  <1>1. ASSUME StopRadio PROVE events' \in Seq(Events) /\ radio' = "off"
    BY <1>1, StopRadioEvents, ConcatProperties DEF StopRadio, RestInv, Rest
  <1>2. CASE EndOverdueAttempt
    <2>1. events' \in Seq(Events) /\ radio' \in {"off", "idle"}
      BY <1>2, LinkEndsType, ConcatProperties DEF EndOverdueAttempt, Disconnect, RestInv, Rest
    <2> QED BY <1>2, <2>1 DEF EndOverdueAttempt, MainGoto, RestInv, Rest, Counted, clientVars,
                              retryVars, scanVars, lifeVars
  <1>3. CASE StopsRadio
    BY <1>1, <1>3 DEF StopsRadio, MainGoto, RestInv, Rest, Counted, clientVars, retryVars,
                      scanVars, lifeVars
  <1>4. CASE ScanRefused
    <2>1. /\ mainAt = "loop" /\ scanFailureCount' = scanFailureCount + 1
          /\ UNCHANGED <<clientVars, retryVars, scanInProgress, lifeVars, radioNetwork,
                         reconnectTimer, timerAt>>
      BY <1>4 DEF ScanRefused
    <2>2. scanFailureCount' \in 0..ScanFailureReset
      BY <2>1, Sizes DEF RestInv, Rest, Counted
    <2>3. \/ /\ scanFailureCount' < ScanFailureReset /\ mainAt' = "loop"
             /\ UNCHANGED <<radio, events>>
          \/ mainAt' = "restart" /\ StopRadio
      BY <1>4, <2>2, Sizes DEF ScanRefused, TooMany
    <2> QED BY <1>1, <2>1, <2>2, <2>3
            DEF RestInv, Rest, Counted, clientVars, retryVars, lifeVars
  <1> QED BY <1>2, <1>3, <1>4

LEMMA WorldTypes ==
    ASSUME RestInv, World PROVE RestInv'
  <1>1. CASE ConnectTimeElapses
    BY <1>1 DEF ConnectTimeElapses, RestInv, Rest, Counted, retryVars, scanVars, lifeVars,
                radioVars
  <1>0. CASE WebResetsFlags
    <2>1. perNetworkRetryCount' \in [Networks -> 0..MaxRetries] /\ networkAuthFailed' = {}
          /\ currentNetworkIndex' = NoNetwork
      BY <1>0, NoRetries, Zenon DEF WebResetsFlags, ResetAuthFlags
    <2> QED BY <1>0, <2>1
            DEF WebResetsFlags, RestInv, Rest, Counted, scanVars, lifeVars, radioVars
  <1>2. CASE Associates
    BY <1>2 DEF Associates, RestInv, Rest, Counted, clientVars, retryVars, scanVars, lifeVars
  <1>3. ASSUME NEW e \in Events, Post(e) PROVE events' \in Seq(Events)
    BY <1>3, AppendProperties DEF Post, RestInv, Rest
  <1>4. CASE LinkFails
    <2>1. events' \in Seq(Events)
      BY <1>3, <1>4, EventTypes DEF LinkFails
    <2> QED BY <1>4, <2>1 DEF LinkFails, RestInv, Rest, Counted, clientVars, retryVars,
                              scanVars, lifeVars
  <1>5. CASE GetsAddress
    <2>1. events' \in Seq(Events)
      BY <1>3, <1>5, EventTypes DEF GetsAddress
    <2> QED BY <1>5, <2>1 DEF GetsAddress, RestInv, Rest, Counted, clientVars, retryVars,
                              scanVars, lifeVars
  <1>6. CASE ScanEnds
    <2>1. events' \in Seq(Events)
      BY <1>3, <1>6, EventTypes DEF ScanEnds
    <2> QED BY <1>6, <2>1 DEF ScanEnds, RestInv, Rest, Counted, clientVars, retryVars,
                              scanVars, lifeVars
  <1> QED BY <1>0, <1>1, <1>2, <1>4, <1>5, <1>6 DEF World

LEMMA RestStep == RestInv /\ [Next]_vars => RestInv'
  <1> SUFFICES ASSUME RestInv, [Next]_vars PROVE RestInv'
    OBVIOUS
  <1>1. CASE UNCHANGED vars
    BY <1>1 DEF vars, clientVars, retryVars, scanVars, radioVars, RestInv, Rest, Counted
  <1> QED BY <1>1, HandlerTypes, DisconnectedTypes, TimerTypes, MainTypes, StartTypes, StopTypes,
             WorldTypes DEF Next, HandleEvent, Main

LEMMA FlagsInit == Init => Flags
  BY Zenon DEF Init, Flags

LEMMA FlagsStep == Flags /\ [Next]_vars => Flags'
  <1> SUFFICES ASSUME Flags, [Next]_vars PROVE Flags'
    OBVIOUS
  <1>1. CASE HandleStart \/ HandleGotIp
    BY <1>1, Zenon DEF HandleStart, HandleGotIp, Flags, clientVars, scanVars, lifeVars, radioVars
  <1>2. CASE HandleScanDone
    <2>1. /\ connectInProgress' \in {connectInProgress, TRUE}
          /\ targetNetworkFound' \in {targetNetworkFound, TRUE, FALSE}
          /\ connectOverdue' \in {connectOverdue, FALSE}
      BY <1>2, Zenon DEF HandleScanDone, TryBest, NoneFound, ScanOfNoUse
    <2> QED BY <1>2, <2>1, Zenon DEF HandleScanDone, Flags, lifeVars
  <1>3. CASE HandleDisconnected
    <2>1. CASE wifiStopping /\ UNCHANGED <<clientVars, retryVars, scanVars, reconnectTimer>>
      BY <1>3, <2>1, Zenon DEF HandleDisconnected, Flags, clientVars, scanVars, lifeVars, radioVars
    <2>2. CASE /\ LostConnection \/ FailedAttempt(Head(events).auth) \/ UnexpectedDisconnect
               /\ ClearConnected
               /\ UNCHANGED <<currentNetworkIndex, connectOverdue, scanFailureCount>>
      <3>1. /\ connectInProgress' \in {connectInProgress, FALSE}
            /\ targetNetworkFound' \in {targetNetworkFound, FALSE}
            /\ scanInProgress' \in {scanInProgress, FALSE}
        BY <2>2, Zenon DEF LostConnection, FailedAttempt, UnexpectedDisconnect, ScanAgain, GiveUp,
                           RetrySoon
      <3> QED BY <1>3, <2>2, <3>1, Zenon DEF HandleDisconnected, ClearConnected, Flags, lifeVars,
                                             radioVars
    <2> QED BY <1>3, <2>1, <2>2, Zenon DEF HandleDisconnected
  <1>4. CASE Timer
    BY <1>4, Zenon DEF Timer, TimerFires, TimerConnects, Flags, clientVars, scanVars, lifeVars,
                       radioVars
  <1>5. CASE StartClient \/ FirstScan \/ NoteScan \/ FindsOverdue
    BY <1>5, Zenon DEF StartClient, FirstScan, NoteScan, FindsOverdue, Flags, clientVars, scanVars,
                       lifeVars, radioVars
  <1>6. CASE EndOverdueAttempt \/ StartScan \/ RestartRadio
    BY <1>6, Zenon DEF EndOverdueAttempt, StartScan, RestartRadio, Flags, clientVars, scanVars,
                       lifeVars
  <1>7. CASE ScanRefused \/ StopsRadio
    <2>1. radioScan' \in {radioScan, FALSE}
      BY <1>7, Zenon DEF ScanRefused, StopsRadio, StopRadio
    <2> QED BY <1>7, <2>1, Zenon DEF ScanRefused, StopsRadio, Flags, clientVars, scanVars, lifeVars
  <1>8. CASE StopBegins \/ StopsTimer \/ StopEnds
    BY <1>8, Zenon DEF StopBegins, StopsTimer, StopEnds, Flags, clientVars, scanVars, lifeVars,
                       radioVars
  <1>9. CASE World
    BY <1>9, Zenon DEF World, WebResetsFlags, ConnectTimeElapses, LinkFails, Associates,
                       GetsAddress, ScanEnds, Flags, clientVars, scanVars, lifeVars, radioVars
  <1>10. CASE UNCHANGED vars
    BY <1>10, Zenon DEF vars, Flags, clientVars, scanVars, lifeVars, radioVars
  <1> QED BY <1>1, <1>2, <1>3, <1>4, <1>5, <1>6, <1>7, <1>8, <1>9, <1>10, Zenon
          DEF Next, HandleEvent, Main

LEMMA TypeParts == RestInv /\ Flags => TypeOK
  BY DEF RestInv, Rest, Flags, TypeOK

(* The client's fields, its queue of events and the driver keep their types,  *)
(* whatever the networks do (wifi_manager.cpp).                               *)
THEOREM TypeCorrect == Spec => []TypeOK
  BY TypeParts, RestInit, RestStep, FlagsInit, FlagsStep, PTL DEF Spec

-----------------------------------------------------------------------------
(* Giving up                                                                  *)

(* Once the client has given up for good, every network has been refused, and *)
(* nobody is told of a connection.                                            *)
GaveUp == wifiClientState = "WRONG_PASSWORD" =>
              networkAuthFailed = Networks /\ ~wifiClientConnected

LEMMA GaveUpInit == Init => GaveUp
  BY DEF Init, GaveUp

LEMMA GaveUpAttempt ==
    ASSUME NEW auth, FailedAttempt(auth), ClearConnected PROVE GaveUp'
  <1>1. ~wifiClientConnected'
    BY DEF ClearConnected
  <1>2. \/ ScanAgain
        \/ \E n \in Networks : GiveUp(n)
        \/ RetrySoon
    BY DEF FailedAttempt
  <1>3. wifiClientState' = "WRONG_PASSWORD" => networkAuthFailed' = Networks
    BY <1>2 DEF ScanAgain, GiveUp, RetrySoon
  <1> QED BY <1>1, <1>3, Zenon DEF GaveUp

LEMMA GaveUpStep == GaveUp /\ [Next]_vars => GaveUp'
  <1> SUFFICES ASSUME GaveUp, [Next]_vars PROVE GaveUp'
    OBVIOUS
  <1>1. CASE UNCHANGED <<networkAuthFailed, wifiClientState, wifiClientConnected>>
    BY <1>1 DEF GaveUp
  <1>2. CASE HandleScanDone
    <2>1. wifiClientState' \in {wifiClientState, "CONNECTING", "NO_SSID"}
      BY <1>2 DEF HandleScanDone, TryBest, NoneFound, ScanOfNoUse
    <2>2. UNCHANGED <<networkAuthFailed, wifiClientConnected>>
      BY <1>2, Zenon DEF HandleScanDone, retryVars
    <2> QED BY <2>1, <2>2 DEF GaveUp
  <1>3. CASE HandleGotIp
    BY <1>3 DEF HandleGotIp, GaveUp
  <1>4. CASE HandleDisconnected
    <2>1. CASE LostConnection
      BY <2>1 DEF LostConnection, GaveUp
    <2>2. CASE FailedAttempt(Head(events).auth) /\ ClearConnected
      BY <2>2, GaveUpAttempt
    <2>3. CASE UnexpectedDisconnect /\ ClearConnected
      BY <2>3, Zenon DEF UnexpectedDisconnect, ClearConnected, retryVars, GaveUp
    <2>4. CASE UNCHANGED <<clientVars, retryVars>>
      BY <1>1, <2>4, Zenon DEF clientVars, retryVars
    <2> QED BY <1>4, <2>1, <2>2, <2>3, <2>4, Zenon DEF HandleDisconnected
  <1>5. CASE StartClient
    BY <1>5 DEF StartClient, GaveUp
  <1>6. CASE HandleStart \/ Timer \/ UNCHANGED vars
    BY <1>1, <1>6, Zenon DEF HandleStart, Timer, TimerFires, TimerConnects, clientVars, retryVars,
                             vars
  <1>7. CASE FirstScan \/ NoteScan \/ FindsOverdue \/ EndOverdueAttempt \/ StartScan
    BY <1>1, <1>7, Zenon DEF FirstScan, NoteScan, FindsOverdue, EndOverdueAttempt, StartScan,
                             clientVars, retryVars
  <1>8. CASE ScanRefused \/ RestartRadio \/ StopBegins \/ StopsRadio \/ StopsTimer \/ StopEnds
    BY <1>1, <1>8, Zenon DEF ScanRefused, RestartRadio, StopBegins, StopsRadio, StopsTimer,
                             StopEnds, clientVars, retryVars
  <1>9. CASE WebResetsFlags
    BY <1>9, Zenon DEF WebResetsFlags, WifiIsReady, GaveUp
  <1>10. CASE World /\ ~WebResetsFlags
    BY <1>1, <1>10, Zenon DEF World, ConnectTimeElapses, LinkFails, Associates, GetsAddress,
                              ScanEnds, clientVars, retryVars
  <1> QED BY <1>2, <1>3, <1>4, <1>5, <1>6, <1>7, <1>8, <1>9, <1>10, Zenon
          DEF Next, HandleEvent, Main

-----------------------------------------------------------------------------
(* The link                                                                   *)

LinkKinds == {"got_ip", "disconnected"}

(* Entry i of q, read with the belief c before it (entry 0), says that the    *)
(* link is up; an entry behind it says that it has been lost.                 *)
SaysUp(q, c, i) == (i = 0 /\ c) \/ (i # 0 /\ q[i].kind = "got_ip")
LostSince(q, i) == \E j \in 1..Len(q) : j > i /\ q[j].kind = "disconnected"

(* If the queue ends in the belief that the link is up, then it is: r. *)
Told(q, c, r) == \A i \in 0..Len(q) : SaysUp(q, c, i) => r \/ LostSince(q, i)

(* An event that makes the driver try again, or ends the attempt. *)
Pending(q) == \E i \in 1..Len(q) : q[i].kind \in {"start", "disconnected"}

Running == wifiInitialized /\ ~wifiStopping

Begins ==
    mainAt = "start" => /\ events = <<>> /\ ~wifiClientConnected
                        /\ reconnectTimer = "idle" /\ timerAt = "idle"
                        /\ radio = "off" /\ ~radioScan
Ends ==
    /\ mainAt \in {"stop radio", "stop timer", "deinit"} => wifiStopping
    /\ mainAt = "off" => ~wifiInitialized
IsOff ==
    /\ radio = "off" => mainAt \in {"start", "restart", "stop timer", "deinit", "off"}
    /\ mainAt = "restart" => radio = "off"
Believed == wifiClientState = "CONNECTED" => wifiClientConnected
LinkTold == Running => Told(events, wifiClientConnected, radio = "connected")
Tried ==
    Running /\ connectInProgress /\ networkAuthFailed # Networks =>
        \/ radio \notin {"off", "idle"} \/ timerAt = "connect" \/ mainAt = "restart"
        \/ Pending(events)

PhaseInv == Begins /\ Ends /\ IsOff /\ Believed

LEMMA ToldTail ==
    ASSUME NEW q \in Seq(Events), q # <<>>, NEW c, NEW c2, NEW r, NEW r2, Told(q, c, r),
           c2 => q[1].kind = "got_ip" \/ (c /\ q[1].kind \notin LinkKinds), r => r2
    PROVE  Told(Tail(q), c2, r2)
  <1> SUFFICES ASSUME NEW i \in 0..Len(Tail(q)), SaysUp(Tail(q), c2, i)
               PROVE  r \/ LostSince(Tail(q), i)
    BY Zenon DEF Told
  <1>1. /\ Len(q) \in Nat \ {0} /\ Len(Tail(q)) = Len(q) - 1
        /\ \A j \in 1..Len(Tail(q)) : Tail(q)[j] = q[j + 1]
    BY HeadTailProperties, EmptySeq
  <1>2. i + 1 \in 0..Len(q) /\ i + 1 # 0 /\ 0 \in 0..Len(q)
    BY <1>1
  <1>3. ASSUME LostSince(q, i + 1) PROVE LostSince(Tail(q), i)
    <2>1. PICK j \in 1..Len(q) : j > i + 1 /\ q[j].kind = "disconnected"
      BY <1>3, Zenon DEF LostSince
    <2>2. j - 1 \in 1..Len(Tail(q)) /\ j - 1 > i /\ (j - 1) + 1 = j
      BY <1>1, <2>1
    <2>3. Tail(q)[j - 1] = q[j]
      BY <1>1, <2>2
    <2> QED BY <2>1, <2>2, <2>3, Zenon DEF LostSince
  <1>4. ASSUME q[i + 1].kind = "got_ip" PROVE r \/ LostSince(Tail(q), i)
    <2>1. SaysUp(q, c, i + 1)
      BY <1>2, <1>4, Zenon DEF SaysUp
    <2> QED BY <1>2, <1>3, <2>1, Zenon DEF Told
  <1>5. CASE i # 0
    <2>1. Tail(q)[i].kind = "got_ip"
      BY <1>5, Zenon DEF SaysUp
    <2>2. Tail(q)[i] = q[i + 1]
      BY <1>1, <1>5
    <2> QED BY <1>4, <2>1, <2>2, Zenon
  <1>6. CASE i = 0 /\ q[1].kind = "got_ip"
    <2>1. i + 1 = 1
      BY <1>6
    <2> QED BY <1>4, <1>6, <2>1, Zenon
  <1>7. CASE i = 0 /\ c /\ q[1].kind \notin LinkKinds
    <2>1. SaysUp(q, c, 0)
      BY <1>7, Zenon DEF SaysUp
    <2>2. ASSUME LostSince(q, 0) PROVE LostSince(q, i + 1)
      <3>1. PICK j \in 1..Len(q) : j > 0 /\ q[j].kind = "disconnected"
        BY <2>2, Zenon DEF LostSince
      <3>2. q[1].kind # "disconnected"
        BY <1>7 DEF LinkKinds
      <3>3. j # 1
        BY <3>1, <3>2, Zenon
      <3>4. j > i + 1
        BY <1>1, <1>7, <3>3
      <3> QED BY <3>1, <3>4, Zenon DEF LostSince
    <2> QED BY <1>2, <1>3, <2>1, <2>2, Zenon DEF Told
  <1>8. i = 0 => c2
    BY Zenon DEF SaysUp
  <1> QED BY <1>5, <1>6, <1>7, <1>8, Zenon

LEMMA ToldAppend ==
    ASSUME NEW q \in Seq(Events), NEW s \in Seq(Events), NEW c, NEW r, NEW r2, Told(q, c, r),
           \A k \in 1..Len(s) : s[k].kind # "got_ip",
           \/ r => r2
           \/ \E k \in 1..Len(s) : s[k].kind = "disconnected"
    PROVE  Told(q \o s, c, r2)
  <1> DEFINE w == q \o s
  <1>1. /\ w \in Seq(Events) /\ Len(w) = Len(q) + Len(s) /\ Len(q) \in Nat /\ Len(s) \in Nat
        /\ \A k \in 1..Len(q) : k \in 1..Len(w) /\ w[k] = q[k]
        /\ \A k \in 1..Len(s) : Len(q) + k \in 1..Len(w) /\ w[Len(q) + k] = s[k]
    BY ConcatProperties
  <1> HIDE DEF w
  <1> SUFFICES ASSUME NEW i \in 0..Len(w), SaysUp(w, c, i) PROVE r2 \/ LostSince(w, i)
    BY Zenon DEF Told, w
  <1>2. i \in 0..Len(q)
    <2>1. CASE i > Len(q)
      <3>1. i - Len(q) \in 1..Len(s) /\ Len(q) + (i - Len(q)) = i /\ i # 0
        BY <1>1, <2>1
      <3>2. w[i] = s[i - Len(q)]
        BY <1>1, <3>1
      <3>3. w[i].kind = "got_ip"
        BY <3>1, Zenon DEF SaysUp
      <3> QED BY <3>1, <3>2, <3>3
    <2>2. CASE i <= Len(q)
      BY <1>1, <2>2
    <2> QED BY <1>1, <2>1, <2>2
  <1>3. SaysUp(q, c, i)
    <2>1. CASE i # 0
      <3>1. i \in 1..Len(q)
        BY <1>1, <1>2, <2>1
      <3>2. w[i] = q[i]
        BY <1>1, <3>1
      <3> QED BY <2>1, <3>2, Zenon DEF SaysUp
    <2> QED BY <2>1, Zenon DEF SaysUp
  <1>4. r \/ LostSince(q, i)
    BY <1>2, <1>3, Zenon DEF Told
  <1>5. LostSince(q, i) => LostSince(w, i)
    BY <1>1, Zenon DEF LostSince
  <1>6. ASSUME NEW k \in 1..Len(s), s[k].kind = "disconnected" PROVE LostSince(w, i)
    <2>1. Len(q) + k \in 1..Len(w) /\ Len(q) + k > i /\ w[Len(q) + k] = s[k]
      BY <1>1, <1>2
    <2> QED BY <1>6, <2>1, Zenon DEF LostSince
  <1> QED BY <1>4, <1>5, <1>6, Zenon

LEMMA PendingTail ==
    ASSUME NEW q \in Seq(Events), q # <<>>, Pending(q), q[1].kind \notin {"start", "disconnected"}
    PROVE  Pending(Tail(q))
  <1>1. PICK i \in 1..Len(q) : q[i].kind \in {"start", "disconnected"}
    BY DEF Pending
  <1>2. i # 1
    BY <1>1
  <1>3. /\ Len(q) \in Nat \ {0} /\ Len(Tail(q)) = Len(q) - 1
        /\ \A j \in 1..Len(Tail(q)) : Tail(q)[j] = q[j + 1]
    BY HeadTailProperties, EmptySeq
  <1>4. i - 1 \in 1..Len(Tail(q)) /\ (i - 1) + 1 = i
    BY <1>2, <1>3
  <1>5. Tail(q)[i - 1] = q[i]
    BY <1>3, <1>4
  <1> QED BY <1>1, <1>4, <1>5 DEF Pending

LEMMA PendingAppend ==
    ASSUME NEW q \in Seq(Events), NEW s \in Seq(Events), Pending(q) \/ Pending(s)
    PROVE  Pending(q \o s)
  <1> DEFINE w == q \o s
  <1>1. /\ \A k \in 1..Len(q) : k \in 1..Len(w) /\ w[k] = q[k]
        /\ \A k \in 1..Len(s) : Len(q) + k \in 1..Len(w) /\ w[Len(q) + k] = s[k]
    BY ConcatProperties
  <1> HIDE DEF w
  <1>2. Pending(w)
    BY <1>1 DEF Pending
  <1> QED BY <1>2 DEF w
LEMMA LinkInit == Init => PhaseInv /\ LinkTold /\ Tried
  <1> SUFFICES ASSUME Init PROVE PhaseInv /\ LinkTold /\ Tried
    OBVIOUS
  <1>1. PhaseInv
    BY DEF Init, PhaseInv, Begins, Ends, IsOff, Believed
  <1>2. Told(events, wifiClientConnected, radio = "connected")
    <2>1. Len(events) = 0 /\ ~wifiClientConnected
      BY EmptySeq DEF Init
    <2> QED BY <2>1 DEF Told, SaysUp
  <1>3. Tried
    BY DEF Init, Tried
  <1> QED BY <1>1, <1>2, <1>3 DEF LinkTold

(* Phases of the main loop. *)
LEMMA PhaseHandlers == PhaseInv /\ HandleEvent => PhaseInv'
  <1> SUFFICES ASSUME PhaseInv, HandleEvent PROVE PhaseInv'
    OBVIOUS
  <1>1. events # <<>> /\ UNCHANGED <<mainAt, lifeVars>>
    BY DEF HandleEvent, HandleStart, HandleDisconnected, HandleScanDone, HandleGotIp, Handle
  <1>2. mainAt # "start"
    BY <1>1 DEF PhaseInv, Begins
  <1>3. radio' \in {radio, "connecting"} /\ (radio' # radio => radio = "idle")
    <2>1. CASE HandleStart
      BY <2>1 DEF HandleStart, Connect
    <2>2. CASE HandleDisconnected \/ HandleGotIp
      BY <2>2 DEF HandleDisconnected, HandleGotIp, radioVars
    <2>3. CASE HandleScanDone
      BY <2>3 DEF HandleScanDone, TryBest, NoneFound, ScanOfNoUse, Connect
    <2> QED BY <2>1, <2>2, <2>3 DEF HandleEvent
  <1>4. Believed'
    <2>1. CASE HandleStart
      BY <2>1 DEF HandleStart, clientVars, PhaseInv, Believed
    <2>2. CASE HandleGotIp
      BY <2>2, Zenon DEF HandleGotIp, Believed
    <2>3. CASE HandleScanDone
      BY <2>3 DEF HandleScanDone, TryBest, NoneFound, ScanOfNoUse, PhaseInv, Believed
    <2>4. CASE HandleDisconnected
      <3>1. CASE LostConnection
        BY <3>1 DEF LostConnection, Believed
      <3>2. ASSUME FailedAttempt(Head(events).auth) PROVE wifiClientState' # "CONNECTED"
        <4>1. \/ ScanAgain
              \/ \E n \in Networks : GiveUp(n)
              \/ RetrySoon
          BY <3>2 DEF FailedAttempt
        <4> QED BY <4>1 DEF ScanAgain, GiveUp, RetrySoon
      <3>3. CASE UnexpectedDisconnect
        BY <3>3 DEF UnexpectedDisconnect, Believed
      <3>4. CASE UNCHANGED clientVars
        BY <3>4 DEF clientVars, PhaseInv, Believed
      <3> QED BY <2>4, <3>1, <3>2, <3>3, <3>4 DEF HandleDisconnected, Believed
    <2> QED BY <2>1, <2>2, <2>3, <2>4 DEF HandleEvent
  <1> QED BY <1>1, <1>2, <1>3, <1>4 DEF PhaseInv, Begins, Ends, IsOff, lifeVars

LEMMA PhaseMain == PhaseInv /\ (Main \/ StopBegins) => PhaseInv'
  <1> SUFFICES ASSUME PhaseInv, Main \/ StopBegins PROVE PhaseInv'
    OBVIOUS
  <1> USE DEF PhaseInv, Begins, Ends, IsOff, Believed, MainGoto
  <1>1. CASE StartClient
    BY <1>1 DEF StartClient
  <1>2. CASE FirstScan \/ NoteScan \/ FindsOverdue \/ StartScan
    BY <1>2 DEF FirstScan, NoteScan, FindsOverdue, StartScan, CanScan, clientVars, lifeVars,
                radioVars
  <1>3. CASE EndOverdueAttempt
    BY <1>3 DEF EndOverdueAttempt, Disconnect, clientVars, lifeVars
  <1>4. CASE ScanRefused
    BY <1>4 DEF ScanRefused, StopRadio, clientVars, lifeVars
  <1>5. CASE RestartRadio
    BY <1>5 DEF RestartRadio, clientVars, lifeVars
  <1>6. CASE StopBegins
    BY <1>6 DEF StopBegins, clientVars, radioVars
  <1>7. CASE StopsRadio
    <2>1. /\ mainAt = "stop radio" /\ mainAt' = "stop timer" /\ radio' = "off"
          /\ UNCHANGED <<wifiStopping, wifiClientState, wifiClientConnected>>
      BY <1>7 DEF StopsRadio, StopRadio, clientVars, lifeVars
    <2>2. wifiStopping
      BY <2>1
    <2>3. wifiStopping'
      BY <2>1, <2>2, Zenon
    <2> QED BY <2>1, <2>3
  <1>8. CASE StopsTimer
    <2>1. /\ mainAt = "stop timer" /\ mainAt' = "deinit"
          /\ UNCHANGED <<radio, wifiStopping, wifiClientState, wifiClientConnected>>
      BY <1>8 DEF StopsTimer, clientVars, lifeVars, radioVars
    <2>2. wifiStopping
      BY <2>1
    <2>3. wifiStopping'
      BY <2>1, <2>2, Zenon
    <2> QED BY <2>1, <2>3
  <1>9. CASE StopEnds
    BY <1>9 DEF StopEnds, clientVars, radioVars
  <1> QED BY <1>1, <1>2, <1>3, <1>4, <1>5, <1>6, <1>7, <1>8, <1>9 DEF Main

LEMMA PhaseOthers == PhaseInv /\ (Timer \/ World \/ UNCHANGED vars) => PhaseInv'
  <1> SUFFICES ASSUME PhaseInv, Timer \/ World \/ UNCHANGED vars PROVE PhaseInv'
    OBVIOUS
  <1> USE DEF PhaseInv, Begins, Ends, IsOff, Believed
  <1>1. CASE Timer
    <2>1. /\ reconnectTimer # "idle" \/ timerAt # "idle"
          /\ radio' \in {radio, "connecting"} /\ (radio' # radio => radio = "idle")
      BY <1>1 DEF Timer, TimerFires, TimerConnects, Connect, radioVars
    <2>2. UNCHANGED <<mainAt, wifiInitialized, wifiStopping, wifiClientState,
                      wifiClientConnected>>
      BY <1>1, Zenon DEF Timer, TimerFires, TimerConnects, clientVars, lifeVars
    <2>3. mainAt # "start"
      BY <2>1
    <2>4. Ends' /\ Believed'
      BY <2>2, Zenon
    <2>5. Begins' /\ IsOff'
      BY <2>1, <2>2, <2>3
    <2> QED BY <2>4, <2>5
  <1>2. CASE LinkFails \/ Associates \/ GetsAddress
    <2>1. /\ radio # "off" /\ radio' # "off"
          /\ UNCHANGED <<mainAt, wifiInitialized, wifiStopping, wifiClientState,
                         wifiClientConnected>>
      BY <1>2 DEF LinkFails, Associates, GetsAddress, clientVars, lifeVars
    <2>2. mainAt \notin {"start", "restart"}
      BY <2>1
    <2>3. Ends' /\ Believed'
      BY <2>1, Zenon
    <2>4. Begins' /\ IsOff'
      BY <2>1, <2>2
    <2> QED BY <2>3, <2>4
  <1>3. CASE ScanEnds
    <2>1. radioScan /\ UNCHANGED <<mainAt, radio, wifiInitialized, wifiStopping,
                                   wifiClientState, wifiClientConnected>>
      BY <1>3, Zenon DEF ScanEnds, clientVars, lifeVars
    <2>2. mainAt # "start"
      BY <2>1
    <2>3. Ends' /\ Believed' /\ IsOff'
      BY <2>1, Zenon
    <2>4. Begins'
      BY <2>1, <2>2
    <2> QED BY <2>3, <2>4
  <1>4. CASE ConnectTimeElapses
    BY <1>4 DEF ConnectTimeElapses, lifeVars, radioVars
  <1>6. CASE WebResetsFlags
    <2>1. UNCHANGED <<mainAt, events, wifiClientConnected, wifiClientState, wifiInitialized,
                      wifiStopping, reconnectTimer, timerAt, radio, radioScan>>
      BY <1>6, Zenon DEF WebResetsFlags, lifeVars, radioVars
    <2> QED BY <2>1, Zenon
  <1>5. CASE UNCHANGED vars
    BY <1>5 DEF vars, clientVars, lifeVars, radioVars
  <1> QED BY <1>1, <1>2, <1>3, <1>4, <1>5, <1>6 DEF World

LEMMA PhaseStep == PhaseInv /\ [Next]_vars => PhaseInv'
  BY PhaseHandlers, PhaseMain, PhaseOthers DEF Next
(* What the queue says of the connection. *)
LEMMA ToldKeeps ==
    ASSUME LinkTold, UNCHANGED <<events, wifiClientConnected, wifiInitialized, wifiStopping>>,
           radio = "connected" => radio' = "connected"
    PROVE  LinkTold'
  BY Zenon DEF LinkTold, Running, Told

LEMMA ToldGrows ==
    ASSUME LinkTold, events \in Seq(Events), NEW s \in Seq(Events), events' = events \o s,
           UNCHANGED <<wifiClientConnected, wifiInitialized, wifiStopping>>,
           \A k \in 1..Len(s) : s[k].kind # "got_ip",
           \/ radio = "connected" => radio' = "connected"
           \/ \E k \in 1..Len(s) : s[k].kind = "disconnected"
    PROVE  LinkTold'
  <1> SUFFICES ASSUME Running' PROVE Told(events', wifiClientConnected', (radio = "connected")')
    BY Zenon DEF LinkTold
  <1>1. Told(events, wifiClientConnected, radio = "connected")
    BY Zenon DEF LinkTold, Running
  <1>2. Told(events \o s, wifiClientConnected, radio' = "connected")
    BY <1>1, ToldAppend, Zenon
  <1> QED BY <1>2, Zenon

LEMMA ToldHandlers ==
    ASSUME RestInv, PhaseInv, LinkTold, HandleEvent PROVE LinkTold'
  <1> SUFFICES ASSUME Running' PROVE Told(events', wifiClientConnected', (radio = "connected")')
    BY Zenon DEF LinkTold
  <1>1. Running /\ events \in Seq(Events)
    <2>1. UNCHANGED <<wifiInitialized, wifiStopping>>
      BY Zenon DEF HandleEvent, HandleStart, HandleDisconnected, HandleScanDone, HandleGotIp,
                   lifeVars
    <2>2. Running
      BY <2>1, Zenon DEF Running
    <2> QED BY <2>2 DEF RestInv, Rest
  <1>2. Told(events, wifiClientConnected, radio = "connected")
    BY <1>1, Zenon DEF LinkTold
  <1>3. events # <<>> /\ events' = Tail(events)
    BY Zenon DEF HandleEvent, HandleStart, HandleDisconnected, HandleScanDone, HandleGotIp, Handle
  <1>4. radio = "connected" => radio' = "connected"
    BY DEF HandleEvent, HandleStart, HandleDisconnected, HandleScanDone, HandleGotIp, radioVars,
           TryBest, NoneFound, ScanOfNoUse, Connect
  <1>5. wifiClientConnected' => \/ events[1].kind = "got_ip"
                                \/ wifiClientConnected /\ events[1].kind \notin LinkKinds
    <2>1. CASE HandleStart \/ HandleScanDone
      <3>1. events[1].kind \in {"start", "scan_done"}
        BY <1>1, <2>1, HeadAndTail DEF HandleStart, HandleScanDone
      <3>2. wifiClientConnected' = wifiClientConnected
        BY <2>1, Zenon DEF HandleStart, HandleScanDone, clientVars
      <3>3. events[1].kind \notin LinkKinds
        BY <3>1 DEF LinkKinds
      <3> QED BY <3>2, <3>3, Zenon
    <2>2. CASE HandleGotIp
      <3>1. Handle("got_ip")
        BY <2>2 DEF HandleGotIp
      <3>2. events[1].kind = "got_ip"
        BY <1>1, <3>1, HeadAndTail
      <3> QED BY <3>2
    <2>3. CASE HandleDisconnected
      BY <1>1, <2>3, Zenon DEF HandleDisconnected, ClearConnected, Running
    <2> QED BY <2>1, <2>2, <2>3, Zenon DEF HandleEvent
  <1>6. Told(Tail(events), wifiClientConnected', radio' = "connected")
    BY <1>1, <1>2, <1>3, <1>4, <1>5, ToldTail, Zenon
  <1> QED BY <1>3, <1>6, Zenon

LEMMA StartedOnly ==
    /\ <<Started>> \in Seq(Events) /\ Pending(<<Started>>)
    /\ \A k \in 1..Len(<<Started>>) : <<Started>>[k].kind # "got_ip"
    /\ events \in Seq(Events) => Append(events, Started) = events \o <<Started>>
  <1>1. Started \in Events /\ Started.kind = "start"
    BY EventTypes, Zenon
  <1> DEFINE s == <<Started>>
  <1>2. s \in Seq(Events) /\ Len(s) = 1 /\ s[1] = Started
    BY <1>1
  <1>3. events \in Seq(Events) => Append(events, Started) = events \o s
    BY <1>1, Appended
  <1> HIDE DEF s
  <1>4. Pending(s) /\ \A k \in 1..Len(s) : s[k].kind # "got_ip"
    BY <1>1, <1>2 DEF Pending
  <1> QED BY <1>2, <1>3, <1>4 DEF s

LEMMA LinkEndsSays ==
    /\ LinkEnds \in Seq(Events)
    /\ \A k \in 1..Len(LinkEnds) : LinkEnds[k].kind = "disconnected"
    /\ radio \in LinkUp => \E k \in 1..Len(LinkEnds) : LinkEnds[k].kind = "disconnected"
  <1>1. Disconnected(FALSE).kind = "disconnected"
    BY EventTypes, Zenon
  <1>2. CASE radio \in LinkUp
    <2>1. LinkEnds = <<Disconnected(FALSE)>>
      BY <1>2, LinkEndsType, Zenon
    <2>2. Len(LinkEnds) = 1 /\ LinkEnds[1] = Disconnected(FALSE)
      BY <2>1
    <2>3. LinkEnds \in Seq(Events)
      BY LinkEndsType, Zenon
    <2>4. ASSUME NEW k \in 1..Len(LinkEnds) PROVE LinkEnds[k].kind = "disconnected"
      <3>1. k = 1
        BY <2>2
      <3> QED BY <1>1, <2>2, <3>1
    <2>5. 1 \in 1..Len(LinkEnds)
      BY <2>2
    <2> QED BY <2>3, <2>4, <2>5, Zenon
  <1>3. CASE radio \notin LinkUp
    <2>1. LinkEnds = <<>> /\ Len(LinkEnds) = 0 /\ LinkEnds \in Seq(Events)
      BY <1>3, LinkEndsType, EmptySeq
    <2> QED BY <1>3, <2>1
  <1> QED BY <1>2, <1>3

LEMMA ToldMain ==
    ASSUME RestInv, PhaseInv, LinkTold, Main \/ StopBegins PROVE LinkTold'
  <1>e. events \in Seq(Events)
    BY DEF RestInv, Rest
  <1>1. CASE StartClient \/ RestartRadio
    <2>1. /\ events' = events \o <<Started>>
          /\ UNCHANGED <<wifiClientConnected, wifiInitialized, wifiStopping>>
      BY <1>e, <1>1, StartedOnly, Zenon DEF StartClient, RestartRadio, clientVars, lifeVars
    <2>2. radio # "connected"
      <3>1. mainAt \in {"start", "restart"}
        BY <1>1 DEF StartClient, RestartRadio, MainGoto
      <3> QED BY <3>1 DEF PhaseInv, Begins, IsOff
    <2> QED BY <1>e, <2>1, <2>2, StartedOnly, ToldGrows, Zenon
  <1>2. CASE FirstScan \/ NoteScan \/ FindsOverdue \/ StartScan
    <2>1. UNCHANGED <<radio, events, wifiClientConnected, wifiInitialized, wifiStopping>>
      BY <1>2, Zenon DEF FirstScan, NoteScan, FindsOverdue, StartScan, clientVars, lifeVars,
                         radioVars
    <2> QED BY <2>1, ToldKeeps, Zenon
  <1>3. CASE EndOverdueAttempt
    <2>1. /\ events' = events \o LinkEnds
          /\ UNCHANGED <<wifiClientConnected, wifiInitialized, wifiStopping>>
      BY <1>3, Zenon DEF EndOverdueAttempt, Disconnect, clientVars, lifeVars
    <2>2. radio = "connected" => radio \in LinkUp
      BY DEF LinkUp
    <2>3. \A k \in 1..Len(LinkEnds) : LinkEnds[k].kind # "got_ip"
      BY LinkEndsSays
    <2> QED BY <1>e, <2>1, <2>2, <2>3, LinkEndsSays, ToldGrows, Zenon
  <1>4. CASE ScanRefused
    <2>1. UNCHANGED <<wifiClientConnected, wifiInitialized, wifiStopping>>
      BY <1>4, Zenon DEF ScanRefused, clientVars, lifeVars
    <2>2. CASE UNCHANGED <<radio, events>>
      BY <2>1, <2>2, ToldKeeps, Zenon
    <2>3. CASE StopRadio
      <3>1. PICK s \in Seq(Events) :
                   /\ events' = events \o s
                   /\ \A i \in 1..Len(s) : s[i].kind \in {"scan_done", "disconnected"}
                   /\ radio \in LinkUp => \E i \in 1..Len(s) : s[i].kind = "disconnected"
        BY <1>e, <2>3, StopRadioEvents
      <3>2. \A i \in 1..Len(s) : s[i].kind # "got_ip"
        BY <3>1
      <3>3. radio = "connected" => radio \in LinkUp
        BY DEF LinkUp
      <3> QED BY <1>e, <2>1, <3>1, <3>2, <3>3, ToldGrows, Zenon
    <2> QED BY <1>4, <2>2, <2>3, Zenon DEF ScanRefused
  <1>5. CASE StopBegins \/ StopEnds
    BY <1>5, Zenon DEF StopBegins, StopEnds, LinkTold, Running
  <1>6. CASE StopsRadio \/ StopsTimer
    <2>1. wifiStopping
      BY <1>6 DEF StopsRadio, StopsTimer, MainGoto, PhaseInv, Ends
    <2> QED BY <1>6, <2>1, Zenon DEF StopsRadio, StopsTimer, lifeVars, LinkTold, Running
  <1> QED BY <1>1, <1>2, <1>3, <1>4, <1>5, <1>6, Zenon DEF Main

LEMMA Posted ==
    ASSUME events \in Seq(Events), NEW e \in Events, Post(e)
    PROVE  /\ events' = events \o <<e>> /\ <<e>> \in Seq(Events)
           /\ \A k \in 1..Len(<<e>>) : <<e>>[k].kind = e.kind
           /\ \E k \in 1..Len(<<e>>) : <<e>>[k].kind = e.kind
  <1> DEFINE s == <<e>>
  <1>1. s \in Seq(Events) /\ Len(s) = 1 /\ s[1] = e /\ events' = events \o s
    BY Appended DEF Post
  <1> HIDE DEF s
  <1>2. /\ \A k \in 1..Len(s) : s[k].kind = e.kind
        /\ \E k \in 1..Len(s) : s[k].kind = e.kind
    BY <1>1
  <1> QED BY <1>1, <1>2, Zenon DEF s

LEMMA ToldOthers ==
    ASSUME RestInv, LinkTold, Timer \/ World \/ UNCHANGED vars PROVE LinkTold'
  <1>e. events \in Seq(Events)
    BY DEF RestInv, Rest
  <1>1. CASE Timer \/ WebResetsFlags \/ ConnectTimeElapses \/ Associates \/ UNCHANGED vars
    <2>1. UNCHANGED <<events, wifiClientConnected, wifiInitialized, wifiStopping>>
      BY <1>1, Zenon DEF Timer, TimerFires, TimerConnects, WebResetsFlags, ConnectTimeElapses,
                         Associates, vars, clientVars, lifeVars
    <2>2. radio = "connected" => radio' = "connected"
      BY <1>1 DEF Timer, TimerFires, TimerConnects, Connect, WebResetsFlags, ConnectTimeElapses,
                  Associates, vars, radioVars
    <2> QED BY <2>1, <2>2, ToldKeeps, Zenon
  <1>2. CASE LinkFails
    <2>1. PICK auth \in BOOLEAN : Post(Disconnected(auth))
      BY <1>2, Zenon DEF LinkFails
    <2> DEFINE e == Disconnected(auth)
    <2>2. e \in Events /\ e.kind = "disconnected" /\ Post(e)
      BY <2>1, EventTypes, Zenon
    <2> HIDE DEF e
    <2>3. UNCHANGED <<wifiClientConnected, wifiInitialized, wifiStopping>>
      BY <1>2, Zenon DEF LinkFails, clientVars, lifeVars
    <2>4. \A k \in 1..Len(<<e>>) : <<e>>[k].kind # "got_ip"
      BY <1>e, <2>2, Posted
    <2>5. \E k \in 1..Len(<<e>>) : <<e>>[k].kind = "disconnected"
      BY <1>e, <2>2, Posted
    <2>6. events' = events \o <<e>> /\ <<e>> \in Seq(Events)
      BY <1>e, <2>2, Posted, Zenon
    <2> QED BY <1>e, <2>3, <2>4, <2>5, <2>6, ToldGrows, Zenon
  <1>3. CASE GetsAddress
    BY <1>3, Zenon DEF GetsAddress, LinkTold, Told
  <1>4. CASE ScanEnds
    <2> DEFINE e == ScanDone
    <2>1. e \in Events /\ e.kind = "scan_done" /\ Post(e)
      BY <1>4, EventTypes, Zenon DEF ScanEnds
    <2> HIDE DEF e
    <2>2. UNCHANGED <<radio, wifiClientConnected, wifiInitialized, wifiStopping>>
      BY <1>4, Zenon DEF ScanEnds, clientVars, lifeVars
    <2>3. \A k \in 1..Len(<<e>>) : <<e>>[k].kind # "got_ip"
      BY <1>e, <2>1, Posted
    <2> QED BY <1>e, <2>1, <2>2, <2>3, Posted, ToldGrows, Zenon
  <1> QED BY <1>1, <1>2, <1>3, <1>4, Zenon DEF World

LEMMA ToldStep == RestInv /\ PhaseInv /\ LinkTold /\ [Next]_vars => LinkTold'
  BY ToldHandlers, ToldMain, ToldOthers DEF Next
(* What the driver is doing for the attempt. *)
Hope == \/ radio \notin {"off", "idle"} \/ timerAt = "connect" \/ mainAt = "restart"
        \/ Pending(events)

(* The driver is off only while it is being restarted. *)
LEMMA OffRestarts ==
    ASSUME PhaseInv, Running, mainAt # "start", radio = "off" PROVE mainAt = "restart"
  <1>1. mainAt \in {"restart", "stop timer", "deinit", "off"}
    BY DEF PhaseInv, IsOff
  <1>2. mainAt \notin {"stop timer", "deinit"}
    <2>1. ~wifiStopping
      BY Zenon DEF Running
    <2> QED BY <2>1 DEF PhaseInv, Ends
  <1>3. mainAt # "off"
    <2>1. wifiInitialized
      BY Zenon DEF Running
    <2> QED BY <2>1 DEF PhaseInv, Ends
  <1> QED BY <1>1, <1>2, <1>3

(* The driver was called to connect. *)
LEMMA ConnectHopes ==
    ASSUME PhaseInv, Running, mainAt # "start", Connect, mainAt' = mainAt PROVE Hope'
  <1>1. CASE radio = "off"
    BY <1>1, OffRestarts DEF Hope
  <1>2. CASE radio # "off"
    BY <1>2 DEF Connect, Hope
  <1> QED BY <1>1, <1>2

(* The handler takes an event that is not what the attempt waits for. *)
LEMMA TailHopes ==
    ASSUME events \in Seq(Events), Hope, NEW k, Handle(k), k \notin {"start", "disconnected"},
           UNCHANGED <<radio, timerAt, mainAt>>
    PROVE  Hope'
  <1>1. events # <<>> /\ events[1].kind = k /\ events' = Tail(events)
    BY HeadAndTail
  <1>2. Pending(events) => Pending(events')
    BY <1>1, PendingTail
  <1>3. (radio \notin {"off", "idle"} \/ timerAt = "connect" \/ mainAt = "restart") => Hope'
    BY DEF Hope
  <1> QED BY <1>2, <1>3, Zenon DEF Hope

LEMMA HopeKeeps ==
    ASSUME events \in Seq(Events), Hope, NEW s \in Seq(Events), events' = events \o s,
           radio' \notin {"off", "idle"} \/ radio' = radio, timerAt' = timerAt,
           mainAt = "restart" => mainAt' = "restart"
    PROVE  Hope'
  <1>1. Pending(events) => Pending(events')
    BY PendingAppend
  <1>2. (radio \notin {"off", "idle"} \/ timerAt = "connect" \/ mainAt = "restart") => Hope'
    BY DEF Hope
  <1> QED BY <1>1, <1>2, Zenon DEF Hope

LEMMA TriedHandlers ==
    ASSUME RestInv, PhaseInv, GaveUp, Tried, HandleEvent PROVE Tried'
  <1> SUFFICES ASSUME Running', connectInProgress', networkAuthFailed' # Networks PROVE Hope'
    BY Zenon DEF Tried, Hope
  <1>e. events \in Seq(Events)
    BY DEF RestInv, Rest
  <1>1. Running
    <2>1. UNCHANGED <<wifiInitialized, wifiStopping>>
      BY Zenon DEF HandleEvent, HandleStart, HandleDisconnected, HandleScanDone, HandleGotIp,
                   lifeVars
    <2> QED BY <2>1, Zenon DEF Running
  <1>2. events # <<>> /\ UNCHANGED <<timerAt, mainAt>>
    BY Zenon DEF HandleEvent, HandleStart, HandleDisconnected, HandleScanDone, HandleGotIp, Handle
  <1>3. mainAt # "start"
    BY <1>2 DEF PhaseInv, Begins
  <1>4. CASE HandleStart
    <2>1. Connect
      BY <1>4 DEF HandleStart
    <2> QED BY <1>1, <1>2, <1>3, <2>1, ConnectHopes
  <1>5. CASE HandleScanDone
    <2>1. Handle("scan_done") /\ UNCHANGED networkAuthFailed
      BY <1>5, Zenon DEF HandleScanDone, retryVars
    <2>2. Connect \/ UNCHANGED <<radio, connectInProgress>>
      BY <1>5, Zenon DEF HandleScanDone, TryBest, NoneFound, ScanOfNoUse
    <2>3. CASE Connect
      BY <1>1, <1>2, <1>3, <2>3, ConnectHopes
    <2>4. CASE UNCHANGED <<radio, connectInProgress>>
      <3>1. connectInProgress /\ networkAuthFailed # Networks
        BY <2>1, <2>4, Zenon
      <3>2. Hope
        BY <1>1, <3>1, Zenon DEF Tried, Hope
      <3> QED BY <1>e, <1>2, <2>1, <2>4, <3>2, TailHopes
    <2> QED BY <2>2, <2>3, <2>4
  <1>6. CASE HandleGotIp
    BY <1>6, Zenon DEF HandleGotIp
  <1>7. CASE HandleDisconnected
    <2>1. LostConnection \/ FailedAttempt(Head(events).auth) \/ UnexpectedDisconnect
      BY <1>1, <1>7, Zenon DEF HandleDisconnected, Running
    <2>2. UnexpectedDisconnect
      BY <2>1, Zenon DEF LostConnection, FailedAttempt
    <2>3. connectInProgress /\ networkAuthFailed # Networks
      BY <2>2, Zenon DEF UnexpectedDisconnect, retryVars
    <2>4. wifiClientState = "WRONG_PASSWORD"
      BY <2>2, <2>3, Zenon DEF UnexpectedDisconnect
    <2> QED BY <2>3, <2>4, Zenon DEF GaveUp
  <1> QED BY <1>4, <1>5, <1>6, <1>7, Zenon DEF HandleEvent

LEMMA TriedMain ==
    ASSUME RestInv, PhaseInv, Tried, Main \/ StopBegins PROVE Tried'
  <1> SUFFICES ASSUME Running', connectInProgress', networkAuthFailed' # Networks PROVE Hope'
    BY Zenon DEF Tried, Hope
  <1>e. events \in Seq(Events)
    BY DEF RestInv, Rest
  <1>k. ASSUME UNCHANGED <<connectInProgress, networkAuthFailed, wifiInitialized, wifiStopping>>
        PROVE  Hope
    BY <1>k, Zenon DEF Tried, Hope, Running
  <1>1. CASE StartClient \/ RestartRadio
    <2>1. events' = events \o <<Started>>
      BY <1>e, <1>1, StartedOnly, Zenon DEF StartClient, RestartRadio
    <2>2. Pending(events')
      BY <1>e, <2>1, StartedOnly, PendingAppend
    <2> QED BY <2>2, Zenon DEF Hope
  <1>2. CASE FirstScan \/ NoteScan \/ FindsOverdue \/ StartScan
    <2>1. UNCHANGED <<radio, events, timerAt, connectInProgress, networkAuthFailed,
                      wifiInitialized, wifiStopping>>
      BY <1>2, Zenon DEF FirstScan, NoteScan, FindsOverdue, StartScan, clientVars, retryVars,
                         lifeVars, radioVars
    <2>2. Hope
      BY <1>k, <2>1, Zenon
    <2>3. mainAt # "restart"
      BY <1>2 DEF FirstScan, NoteScan, FindsOverdue, StartScan, MainGoto
    <2> QED BY <2>1, <2>2, <2>3, Zenon DEF Hope
  <1>3. CASE EndOverdueAttempt
    <2>1. /\ events' = events \o LinkEnds /\ mainAt = "disconnect"
          /\ radio' = IF radio = "off" THEN "off" ELSE "idle"
          /\ UNCHANGED <<timerAt, connectInProgress, networkAuthFailed, wifiInitialized,
                         wifiStopping>>
      BY <1>3, Zenon DEF EndOverdueAttempt, MainGoto, Disconnect, clientVars, retryVars, lifeVars
    <2>2. Hope
      BY <1>k, <2>1, Zenon
    <2>3. CASE radio \in LinkUp
      <3>1. Pending(LinkEnds)
        BY <2>3, LinkEndsSays DEF Pending
      <3>2. Pending(events')
        BY <1>e, <2>1, <3>1, LinkEndsSays, PendingAppend
      <3> QED BY <3>2, Zenon DEF Hope
    <2>4. CASE radio \notin LinkUp
      <3>1. radio' = radio /\ mainAt # "restart"
        BY <2>1, <2>4 DEF RestInv, Rest, LinkUp
      <3> QED BY <1>e, <2>1, <2>2, <3>1, LinkEndsSays, HopeKeeps
    <2> QED BY <2>3, <2>4
  <1>4. CASE ScanRefused
    BY <1>4, Zenon DEF ScanRefused, WantsScan, clientVars
  <1>5. CASE StopBegins \/ StopEnds
    BY <1>5, Zenon DEF StopBegins, StopEnds, Running
  <1>6. CASE StopsRadio \/ StopsTimer
    <2>1. wifiStopping
      BY <1>6 DEF StopsRadio, StopsTimer, MainGoto, PhaseInv, Ends
    <2> QED BY <1>6, <2>1, Zenon DEF StopsRadio, StopsTimer, lifeVars, Running
  <1> QED BY <1>1, <1>2, <1>3, <1>4, <1>5, <1>6, Zenon DEF Main

(* A client that is told of a connection has one, or the news of its loss. *)
LEMMA ReadyHopes ==
    ASSUME RestInv, LinkTold, WifiIsReady PROVE Hope
  <1>1. Told(events, wifiClientConnected, radio = "connected") /\ wifiClientConnected
    BY Zenon DEF LinkTold, WifiIsReady, Running
  <1>2. 0 \in 0..Len(events)
    <2>1. events \in Seq(Events)
      BY DEF RestInv, Rest
    <2> QED BY <2>1, LenProperties
  <1>3. SaysUp(events, wifiClientConnected, 0)
    BY <1>1, Zenon DEF SaysUp
  <1>4. radio = "connected" \/ LostSince(events, 0)
    BY <1>1, <1>2, <1>3, Zenon DEF Told
  <1>5. LostSince(events, 0) => Pending(events)
    BY DEF LostSince, Pending
  <1> QED BY <1>4, <1>5 DEF Hope

LEMMA TriedOthers ==
    ASSUME RestInv, PhaseInv, LinkTold, Tried, Timer \/ World \/ UNCHANGED vars PROVE Tried'
  <1> SUFFICES ASSUME Running', connectInProgress', networkAuthFailed' # Networks PROVE Hope'
    BY Zenon DEF Tried, Hope
  <1>e. events \in Seq(Events)
    BY DEF RestInv, Rest
  <1>k. ASSUME UNCHANGED <<connectInProgress, networkAuthFailed, wifiInitialized, wifiStopping>>
        PROVE  Hope
    BY <1>k, Zenon DEF Tried, Hope, Running
  <1>1. CASE TimerFires
    BY <1>1, Zenon DEF TimerFires, Hope
  <1>2. CASE TimerConnects
    <2>1. Running
      BY <1>2, Zenon DEF TimerConnects, lifeVars, Running
    <2>2. Connect /\ mainAt' = mainAt /\ timerAt = "connect"
      BY <1>2, Zenon DEF TimerConnects
    <2>3. mainAt # "start"
      BY <2>2 DEF PhaseInv, Begins
    <2> QED BY <2>1, <2>2, <2>3, ConnectHopes
  <1>3. CASE ConnectTimeElapses \/ UNCHANGED vars
    <2>1. UNCHANGED <<radio, events, timerAt, mainAt, connectInProgress, networkAuthFailed,
                      wifiInitialized, wifiStopping>>
      BY <1>3, Zenon DEF ConnectTimeElapses, vars, clientVars, retryVars, lifeVars, radioVars
    <2>2. Hope
      BY <1>k, <2>1, Zenon
    <2> QED BY <2>1, <2>2, Zenon DEF Hope
  <1>0. CASE WebResetsFlags
    <2>1. UNCHANGED <<radio, events, timerAt, mainAt>>
      BY <1>0, Zenon DEF WebResetsFlags, radioVars
    <2>2. Hope
      BY <1>0, ReadyHopes, Zenon DEF WebResetsFlags
    <2> QED BY <2>1, <2>2, Zenon DEF Hope
  <1>4. CASE Associates \/ GetsAddress
    BY <1>4 DEF Associates, GetsAddress, Hope
  <1>5. CASE LinkFails
    <2>1. PICK auth \in BOOLEAN : Post(Disconnected(auth))
      BY <1>5, Zenon DEF LinkFails
    <2> DEFINE e == Disconnected(auth)
    <2>2. e \in Events /\ e.kind = "disconnected" /\ Post(e)
      BY <2>1, EventTypes, Zenon
    <2> HIDE DEF e
    <2>3. Pending(<<e>>)
      BY <1>e, <2>2, Posted DEF Pending
    <2>4. Pending(events')
      BY <1>e, <2>2, <2>3, Posted, PendingAppend
    <2> QED BY <2>4, Zenon DEF Hope
  <1>6. CASE ScanEnds
    <2> DEFINE e == ScanDone
    <2>1. e \in Events /\ Post(e)
      BY <1>6, EventTypes, Zenon DEF ScanEnds
    <2> HIDE DEF e
    <2>2. events' = events \o <<e>> /\ <<e>> \in Seq(Events)
      BY <1>e, <2>1, Posted, Zenon
    <2>3. UNCHANGED <<radio, timerAt, mainAt, connectInProgress, networkAuthFailed,
                      wifiInitialized, wifiStopping>>
      BY <1>6, Zenon DEF ScanEnds, clientVars, retryVars, lifeVars
    <2>4. Hope
      BY <1>k, <2>3, Zenon
    <2> QED BY <1>e, <2>2, <2>3, <2>4, HopeKeeps
  <1> QED BY <1>0, <1>1, <1>2, <1>3, <1>4, <1>5, <1>6, Zenon DEF Timer, World

LEMMA TriedStep ==
    RestInv /\ PhaseInv /\ GaveUp /\ LinkTold /\ Tried /\ [Next]_vars => Tried'
  BY TriedHandlers, TriedMain, TriedOthers DEF Next

LEMMA LinkKnown == PhaseInv /\ LinkTold /\ Tried => KnowsTheLink
  <1> SUFFICES ASSUME PhaseInv, LinkTold, Tried PROVE KnowsTheLink
    OBVIOUS
  <1>1. NeverWaitsForNothing
    <2> SUFFICES ASSUME Waiting, Settled PROVE radio \notin {"off", "idle"}
      BY Zenon DEF NeverWaitsForNothing
    <2>1. Hope
      BY Zenon DEF Tried, Hope, Waiting, Active, Running
    <2>2. ~Pending(events) /\ timerAt # "connect" /\ mainAt # "restart"
      BY EmptySeq DEF Settled, Pending
    <2> QED BY <2>1, <2>2, Zenon DEF Hope
  <1>2. ASSUME WifiIsReady, events = <<>> PROVE radio = "connected"
    <2>1. Told(events, wifiClientConnected, radio = "connected") /\ wifiClientConnected
      BY <1>2, Zenon DEF LinkTold, WifiIsReady, Running
    <2>2. Len(events) = 0 /\ 0 \in 0..Len(events)
      BY <1>2, EmptySeq
    <2>3. SaysUp(events, wifiClientConnected, 0) /\ ~LostSince(events, 0)
      BY <2>1, <2>2 DEF SaysUp, LostSince
    <2> QED BY <2>1, <2>2, <2>3, Zenon DEF Told
  <1> QED BY <1>1, <1>2, Zenon DEF KnowsTheLink, ConnectedIsTrue, PhaseInv, Believed

(* The client is never left waiting for an event that does not come, and no   *)
(* sender is told of a connection that is gone once the events are handled,   *)
(* however the three tasks and the driver interleave (wifi_event_handler(),   *)
(* wifi_reconnect_timer_cb(), wifiProcess()).                                 *)
THEOREM LinkSafe == Spec => []KnowsTheLink
  BY RestInit, RestStep, GaveUpInit, GaveUpStep, LinkInit, PhaseStep, ToldStep, TriedStep,
     LinkKnown, PTL DEF Spec
=============================================================================
