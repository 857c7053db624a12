-------------------------- MODULE Lifecycle_proofs --------------------------
(***************************************************************************)
(* What holds in the life of a device for every choice of durations,       *)
(* limits and configurations: an upload is not disturbed, and only presses *)
(* of RESET open the forced access point.                                  *)
(***************************************************************************)
EXTENDS Lifecycle, TLAPS

-----------------------------------------------------------------------------
(* Types                                                                    *)

LEMMA NoUploadType == NoUpload \in Upload /\ NoWifi \in Wifi
  BY LifecycleAssumption DEF NoUpload, Upload, NoWifi, Wifi

LEMMA TypeInit == Init => TypeOK
  <1> SUFFICES ASSUME Init PROVE TypeOK
    OBVIOUS
  <1>1. nvs \in Nvs /\ shorts \in 0 .. 2
    BY DEF Init, Nvs
  <1>2. cfg \in Config /\ file \in Config \cup {Gone, Empty}
    BY LifecycleAssumption DEF Init
  <1>3. hosts \in 0 .. MAX_CLIENTS /\ timer \in Times /\ reboot \in Times
    BY LifecycleAssumption DEF Init, Times
  <1>4. wifi \in Wifi /\ ota \in Upload
    BY NoUploadType DEF Init
  <1>5. minikit \in BOOLEAN /\ serial \in BOOLEAN
    BY DEF Init
  <1> QED BY <1>1, <1>2, <1>3, <1>4, <1>5 DEF Init, TypeOK

LEMMA EndsType ==
    ASSUME TypeOK, NEW r \in {"power", "crash", "sw"}, Ends(r),
           file' \in Config \cup {Gone, Empty}, nvs' \in Nvs
    PROVE  TypeOK'
  <1>1. shorts' \in 0 .. 2
    BY DEF Ends, TypeOK
  <1>2. cfg' \in Config
    BY LifecycleAssumption DEF Ends
  <1>3. hosts' \in 0 .. MAX_CLIENTS /\ timer' \in Times /\ reboot' \in Times
    BY LifecycleAssumption DEF Ends, Times
  <1>4. wifi' \in Wifi /\ ota' \in Upload
    BY NoUploadType DEF Ends
  <1>5. minikit' \in BOOLEAN /\ serial' \in BOOLEAN
    BY DEF Ends, TypeOK
  <1> QED BY <1>1, <1>2, <1>3, <1>4, <1>5 DEF Ends, TypeOK

LEMMA NetType ==
    ASSUME NEW t \in BOOLEAN, NEW f \in BOOLEAN
    PROVE  Net(t, f) \in Wifi /\ Net(t, f).forced = f
  BY DEF Net, NoWifi, Wifi

LEMMA BootType == TypeOK /\ Boot => TypeOK'
  <1> SUFFICES ASSUME TypeOK, Boot PROVE TypeOK'
    OBVIOUS
  <1>1. QuickCount \in 0 .. 2
    BY DEF QuickCount, TypeOK, Nvs
  <1>2. nvs' \in Nvs
    <2>1. (IF Detected THEN 0 ELSE QuickCount) \in 0 .. 1 \/ ~minikit
      BY <1>1 DEF Detected
    <2> QED BY <2>1 DEF Boot, TypeOK, Nvs
  <1>3. Detected \in BOOLEAN
    BY DEF Detected, TypeOK
  <1>4. wifi' \in Wifi
    BY <1>3, NoUploadType DEF Boot, Wifi
  <1>5. cfg' \in Config /\ file' \in Config \cup {Gone, Empty}
    BY LifecycleAssumption DEF Boot, TypeOK
  <1> QED BY <1>2, <1>4, <1>5 DEF Boot, TypeOK

LEMMA SetupType == TypeOK /\ Setup => TypeOK'
  <1> SUFFICES ASSUME TypeOK, Setup PROVE TypeOK'
    OBVIOUS
  <1>1. CASE DetectWifiMode
    <2>1. nvs' \in Nvs
      BY <1>1 DEF DetectWifiMode, TypeOK, Nvs
    <2>2. wifi' \in Wifi
      BY <1>1, NetType, NoUploadType DEF DetectWifiMode, Clicked
    <2> QED BY <1>1, <2>1, <2>2 DEF DetectWifiMode, TypeOK, boot, config
  <1>2. CASE StartDevices
    <2>1. wifi' \in Wifi
      BY <1>2 DEF StartDevices, TypeOK, Wifi, Config
    <2>2. serial' \in BOOLEAN
      BY <1>2 DEF StartDevices, TypeOK, Config
    <2> QED BY <1>2, <2>1, <2>2 DEF StartDevices, TypeOK, boot, config
  <1>3. CASE StartTasks
    BY <1>3, LifecycleAssumption DEF StartTasks, TypeOK, boot, config, Length, Times
  <1> QED BY <1>1, <1>2, <1>3 DEF Setup

LEMMA UploadType ==
    TypeOK /\ (UploadOpens \/ UploadBegins \/ WriteFails \/ UploadEnds \/ UploadBreaks) => TypeOK'
  <1> SUFFICES ASSUME TypeOK,
                      UploadOpens \/ UploadBegins \/ WriteFails \/ UploadEnds \/ UploadBreaks
               PROVE  TypeOK'
    OBVIOUS
  <1>1. ota' \in Upload
    <2>0. CASE UploadOpens
      <3>1. ota.requests + 1 \in 0 .. MAX_UPLOADS /\ ota \in Upload
        BY <2>0, LifecycleAssumption DEF UploadOpens, TypeOK, Upload
      <3>2. ota' = [ota EXCEPT !.requests = ota.requests + 1, !.opening = TRUE,
                               !.started = FALSE, !.flag = TRUE, !.suspended = TRUE]
        BY <2>0 DEF UploadOpens
      <3> QED BY <3>1, <3>2 DEF Upload
    <2>1. CASE UploadBegins
      <3>1. ota \in Upload
        BY DEF TypeOK
      <3>2. (~ota.begun) \in BOOLEAN
        BY SMT
      <3> DEFINE o == [ota EXCEPT !.opening = FALSE]
      <3>3. o \in Upload
        BY <3>1 DEF Upload
      <3>4. CASE ota' = [o EXCEPT !.begun = TRUE, !.started = TRUE, !.error = FALSE]
        BY <3>3, <3>4 DEF Upload
      <3>5. CASE ota' = [o EXCEPT !.flag = FALSE, !.suspended = FALSE, !.error = ~ota.begun]
        <4> DEFINE p == [o EXCEPT !.flag = FALSE, !.suspended = FALSE]
                   b == ~ota.begun
        <4>1. p \in Upload
          BY <3>3 DEF Upload
        <4>2. ota' = [p EXCEPT !.error = b]
          BY <3>5
        <4>3. b \in BOOLEAN
          BY <3>2
        <4> HIDE DEF p, b
        <4> QED BY <4>1, <4>2, <4>3 DEF Upload
      <3> QED BY <2>1, <3>4, <3>5, Zenon DEF UploadBegins
    <2>2. CASE WriteFails
      BY <2>2, LifecycleAssumption DEF WriteFails, TypeOK, Upload
    <2>3. CASE UploadEnds
      <3>1. ota.requests - 1 \in 0 .. MAX_UPLOADS /\ ota \in Upload
        BY <2>3, LifecycleAssumption DEF UploadEnds, TypeOK, Upload
      <3> DEFINE o == [ota EXCEPT !.requests = ota.requests - 1, !.started = FALSE]
      <3>2. o \in Upload
        BY <3>1 DEF Upload
      <3>3. \/ ota' = [o EXCEPT !.begun = FALSE]
            \/ ota' = [o EXCEPT !.begun = FALSE, !.flag = FALSE, !.suspended = FALSE,
                                !.error = TRUE]
            \/ ota' = [o EXCEPT !.suspended = FALSE]
            \/ ota' = o
        BY <2>3 DEF UploadEnds
      <3> HIDE DEF o
      <3> QED BY <3>2, <3>3 DEF Upload
    <2>4. CASE UploadBreaks
      BY <2>4, LifecycleAssumption DEF UploadBreaks, TypeOK, Upload
    <2> QED BY <2>0, <2>1, <2>2, <2>3, <2>4
  <1>2. timer' \in Times /\ reboot' \in Times
    BY LifecycleAssumption
       DEF UploadOpens, UploadBegins, WriteFails, UploadEnds, UploadBreaks, TypeOK, Times
  <1> QED BY <1>1, <1>2
          DEF UploadOpens, UploadBegins, WriteFails, UploadEnds, UploadBreaks, TypeOK, NoWeb,
              boot, config

LEMMA TypeStep == TypeOK /\ [Next]_vars => TypeOK'
  <1> SUFFICES ASSUME TypeOK, [Next]_vars PROVE TypeOK'
    OBVIOUS
  <1>1. CASE Boot \/ Setup
    BY <1>1, BootType, SetupType
  <1>2. CASE Uptime \/ Age
    BY <1>2 DEF Uptime, Age, TypeOK, Nvs, boot, config
  <1>3. CASE Crash \/ BridgeCrash \/ RebootFires \/ PowerCycle
    BY <1>3, EndsType DEF Crash, BridgeCrash, RebootFires, PowerCycle, LoopTurns, TypeOK
  <1>4. CASE PowerCutInSave \/ TripleClick \/ LongPress
    <2>1. file' \in Config \cup {Gone, Empty}
      BY <1>4 DEF PowerCutInSave, TripleClick, LongPress, TypeOK, Config
    <2>2. nvs' \in Nvs
      BY <1>4 DEF PowerCutInSave, TripleClick, LongPress, TypeOK, Nvs
    <2> QED BY <1>4, <2>1, <2>2, EndsType DEF PowerCutInSave, TripleClick, LongPress
  <1>5. CASE Tick
    <2>1. timer' \in Times /\ reboot' \in Times
      BY <1>5, LifecycleAssumption DEF Tick, TypeOK, Times
    <2> QED BY <1>5, <2>1 DEF Tick, TypeOK, NoWeb, boot, config
  <1>6. CASE TimeoutFires \/ WifiStop
    <2>1. wifi' \in Wifi
      BY <1>6 DEF TimeoutFires, WifiStop, ServerStops, RadioStops, TypeOK, Wifi
    <2>2. timer' \in Times /\ hosts' \in 0 .. MAX_CLIENTS
      BY <1>6, LifecycleAssumption
         DEF TimeoutFires, WifiStop, ServerStops, RadioStops, TypeOK, Times
    <2> QED BY <1>6, <2>1, <2>2
            DEF TimeoutFires, WifiStop, ServerStops, RadioStops, TypeOK, boot, config
  <1>7. CASE Events
    <2>1. timer' \in Times /\ hosts' \in 0 .. MAX_CLIENTS
      BY <1>7, LifecycleAssumption
         DEF Events, StationJoins, StationLeaves, GotIp, StaDisconnected, Rest, TypeOK, Times,
             Length, Unless
    <2> QED BY <1>7, <2>1
            DEF Events, StationJoins, StationLeaves, GotIp, StaDisconnected, Rest, TypeOK,
                boot, config
  <1>8. CASE Requests
    <2>1. CASE Status
      BY <2>1, LifecycleAssumption DEF Status, NoWeb, Length, TypeOK, Times, boot, config
    <2>2. CASE RebootNow \/ FactoryReset
      BY <2>2, EndsType, LifecycleAssumption DEF RebootNow, FactoryReset, TypeOK
    <2>3. ASSUME NEW c \in Configs, Save(c) PROVE TypeOK'
      BY <2>3, LifecycleAssumption DEF Save, NoWeb, TypeOK, Times, boot
    <2>4. ASSUME NEW c \in Configs, SaveRejected(c) PROVE TypeOK'
      <3>1. cfg' \in Config
        BY <2>4, LifecycleAssumption DEF SaveRejected, TypeOK, Config
      <3> QED BY <2>4, <3>1 DEF SaveRejected, NoWeb, TypeOK, boot
    <2> QED BY <1>8, <2>1, <2>2, <2>3, <2>4, UploadType DEF Requests
  <1>9. CASE UNCHANGED vars
    BY <1>9 DEF vars, TypeOK
  <1> QED BY <1>1, <1>2, <1>3, <1>4, <1>5, <1>6, <1>7, <1>8, <1>9 DEF Next, User

(* Timers, records and flags keep their ranges, and no more stations and     *)
(* uploads are there than the limits, for every value of the constants.      *)
THEOREM TypeCorrect == Spec => []TypeOK
  BY TypeInit, TypeStep, PTL DEF Spec

-----------------------------------------------------------------------------
(* The upload                                                               *)

(* A session begins without an upload: loop() and the web server's requests *)
(* come after setup().                                                      *)
UploadInv == /\ phase # "up" => ~Uploading /\ ~ota.suspended
             /\ ota.opening => ~ota.started
             /\ FlagHeld

LEMMA UploadInit == Init => UploadInv
  BY DEF Init, UploadInv, FlagHeld, Uploading, NoUpload

LEMMA EndsUpload == ASSUME NEW r, Ends(r) PROVE UploadInv' /\ KeepsWifi
  BY DEF Ends, UploadInv, FlagHeld, Uploading, KeepsWifi, NoUpload

(* Steps that leave the upload alone, and WiFi if loop() runs. *)
LEMMA QuietUpload ==
    ASSUME UploadInv, UNCHANGED ota, phase = "up" => UNCHANGED <<phase, wifi>>
    PROVE  UploadInv' /\ KeepsWifi
  BY DEF UploadInv, FlagHeld, Uploading, KeepsWifi, WifiStays

LEMMA UploadStep ==
    TypeOK /\ UploadInv /\ [Next]_vars => UploadInv' /\ KeepsWifi
  <1> SUFFICES ASSUME TypeOK, UploadInv, [Next]_vars PROVE UploadInv' /\ KeepsWifi
    OBVIOUS
  <1>1. CASE Boot
    BY <1>1, QuietUpload DEF Boot
  <1>2. CASE Setup
    BY <1>2, QuietUpload DEF Setup, DetectWifiMode, StartDevices, StartTasks, boot, config
  <1>3. CASE Uptime \/ Age
    BY <1>3, QuietUpload DEF Uptime, Age, boot, config
  <1>4. CASE Crash \/ BridgeCrash \/ RebootFires \/ User
    BY <1>4, EndsUpload
       DEF Crash, BridgeCrash, RebootFires, User, PowerCycle, PowerCutInSave, TripleClick,
           LongPress
  <1>5. CASE Tick
    BY <1>5, QuietUpload DEF Tick, NoWeb, config
  <1>6. CASE TimeoutFires
    <2>1. /\ phase = "up" /\ phase' = phase /\ ota' = ota /\ wifi \in Wifi
          /\ wifi' = [wifi EXCEPT !.stop = IF ota.flag \/ wifi.radio = "off" THEN "no"
                                                                         ELSE "decided"]
      BY <1>6 DEF TimeoutFires, LoopTurns, TypeOK
    <2>2. UploadInv'
      BY <2>1 DEF UploadInv, FlagHeld, Uploading
    <2>3. Uploading => ota.flag
      BY DEF UploadInv, FlagHeld
    <2>4. Uploading /\ WifiStays => WifiStays'
      BY <2>1, <2>3 DEF WifiStays, Wifi
    <2> QED BY <2>2, <2>4 DEF KeepsWifi
  <1>7. CASE WifiStop
    <2>1. wifi.stop # "no" /\ ota' = ota /\ phase' = phase
      BY <1>7 DEF WifiStop, ServerStops, RadioStops
    <2> QED BY <2>1 DEF UploadInv, FlagHeld, Uploading, KeepsWifi, WifiStays
  <1>8. CASE Events
    BY <1>8, QuietUpload
       DEF Events, StationJoins, StationLeaves, GotIp, StaDisconnected, Rest
  <1>9. CASE Requests
    <2>1. CASE Status \/ \E c \in Configs : Save(c) \/ SaveRejected(c)
      BY <2>1, QuietUpload DEF Status, Save, SaveRejected, NoWeb
    <2>2. CASE RebootNow \/ FactoryReset
      BY <2>2, EndsUpload DEF RebootNow, FactoryReset
    <2>3. CASE UploadOpens \/ UploadBegins \/ WriteFails \/ UploadEnds \/ UploadBreaks
      <3>1. /\ phase' = phase /\ wifi' = wifi /\ ota \in Upload
            /\ phase # "up" => UploadBreaks
        BY <2>3
           DEF UploadOpens, UploadBegins, WriteFails, UploadEnds, UploadBreaks, Connected,
               Served, NoWeb, TypeOK
      <3>2. KeepsWifi
        BY <3>1 DEF KeepsWifi, WifiStays
      <3>3. CASE UploadOpens
        <4>1. ota'.flag /\ ota'.suspended
          BY <3>1, <3>3 DEF UploadOpens, Upload
        <4> QED BY <3>1, <3>2, <3>3, <4>1
                DEF UploadInv, FlagHeld, UploadOpens, Served, Connected
      <3>4. CASE UploadBegins
        <4>1. /\ ~ota'.opening
              /\ \/ ota'.flag = ota.flag /\ ota'.suspended = ota.suspended
                 \/ ota'.started = ota.started /\ ~ota'.suspended
          BY <3>1, <3>4 DEF UploadBegins, Upload
        <4>2. ota.flag /\ ota.suspended
          BY <3>4 DEF UploadBegins, UploadInv, FlagHeld, Uploading
        <4>3. ~ota.started
          BY <3>4 DEF UploadBegins, UploadInv, FlagHeld, Uploading
        <4> QED BY <3>1, <3>2, <3>4, <4>1, <4>2, <4>3
                DEF UploadInv, FlagHeld, Uploading, UploadBegins
      <3>5. CASE WriteFails \/ UploadEnds
        <4>1. /\ ~ota'.opening /\ ~ota'.started
              /\ ota'.suspended => ota.suspended /\ ota'.flag = ota.flag
          BY <3>1, <3>5 DEF WriteFails, UploadEnds, Connected, Upload
        <4> QED BY <3>1, <3>2, <3>5, <4>1
                DEF UploadInv, FlagHeld, Uploading, WriteFails, UploadEnds, Connected
      <3>6. CASE UploadBreaks
        <4>1. /\ ota'.opening = ota.opening /\ ota'.started = ota.started
              /\ ota'.flag = ota.flag /\ ota'.suspended = ota.suspended
          BY <3>1, <3>6 DEF UploadBreaks, Upload
        <4> QED BY <3>1, <3>2, <4>1 DEF UploadInv, FlagHeld, Uploading
      <3> QED BY <2>3, <3>3, <3>4, <3>5, <3>6
    <2> QED BY <1>9, <2>1, <2>2, <2>3 DEF Requests
  <1>10. CASE UNCHANGED vars
    BY <1>10, QuietUpload DEF vars
  <1> QED BY <1>1, <1>2, <1>3, <1>4, <1>5, <1>6, <1>7, <1>8, <1>9, <1>10 DEF Next

(* Whatever requests, stations, timers and broken uploads do, from the first *)
(* chunk to the last write the bridge task is suspended and the flag is set  *)
(* (web_ota.cpp), and the timer's callback does not come to stop WiFi, unless *)
(* it had already decided to.                                                *)
THEOREM UploadSafe == Spec => UpdateUndisturbed
  <1>1. UploadInv => FlagHeld
    BY DEF UploadInv
  <1>2. TypeOK /\ UploadInv /\ [Next]_vars => UploadInv' /\ [KeepsWifi]_vars
    BY UploadStep
  <1> QED BY <1>1, <1>2, UploadInit, TypeCorrect, PTL DEF Spec, UpdateUndisturbed

-----------------------------------------------------------------------------
(* The quick reset                                                          *)

(* What the record in NVS says is no more than what happened: a session that *)
(* ended early left "short" behind only if it counts among the short ones.   *)
ResetInv ==
    minikit => /\ nvs.temp = "none"
               /\ phase = "down" => age = "young" /\ ~wifi.forced
               /\ phase = "down" /\ why # "crash" /\ nvs.uptime = "short" => nvs.count < shorts
               /\ phase # "down" /\ age # "old" => nvs.count <= shorts
               /\ age = "old" => nvs.uptime = "long"
               /\ QuickMeansQuick

LEMMA ResetInit == Init => ResetInv
  BY DEF Init, ResetInv, QuickMeansQuick, NoWifi

LEMMA EndsReset ==
    ASSUME TypeOK, ResetInv, NEW r, Ends(r), phase # "down",
           minikit => UNCHANGED nvs
    PROVE  ResetInv'
  <1> SUFFICES ASSUME minikit' PROVE ResetInv'
    BY DEF ResetInv
  <1>1. /\ minikit /\ nvs' = nvs /\ phase' = "down" /\ why' = r /\ age' = "young"
        /\ ~wifi'.forced
    BY DEF Ends, NoWifi
  <1>2. /\ nvs.temp = "none"
        /\ age # "old" => nvs.count <= shorts
        /\ age = "old" => nvs.uptime = "long"
    BY <1>1 DEF ResetInv
  <1>3. ASSUME r # "crash", nvs.uptime = "short" PROVE nvs.count < shorts'
    <2>1. age # "old"
      BY <1>2, <1>3
    <2>2. shorts' = IF shorts < 2 THEN shorts + 1 ELSE 2
      BY <1>1, <1>3, <2>1 DEF Ends
    <2>3. nvs.count \in 0 .. 1 /\ shorts \in 0 .. 2
      BY DEF TypeOK, Nvs
    <2> QED BY <1>2, <2>1, <2>2, <2>3
  <1> QED BY <1>1, <1>2, <1>3 DEF ResetInv, QuickMeansQuick

LEMMA QuietReset ==
    ASSUME ResetInv, UNCHANGED <<minikit, nvs, phase, why, age, shorts>>,
           wifi'.forced => wifi.forced
    PROVE  ResetInv'
  BY DEF ResetInv, QuickMeansQuick

LEMMA BootReset == TypeOK /\ ResetInv /\ Boot => ResetInv'
  <1> SUFFICES ASSUME TypeOK, ResetInv, Boot, minikit' PROVE ResetInv'
    BY DEF ResetInv
  <1>1. minikit /\ phase = "down" /\ phase' = "setup" /\ shorts' = shorts /\ age' = age
    BY DEF Boot
  <1>2. nvs.count \in 0 .. 1 /\ shorts \in 0 .. 2 /\ nvs \in Nvs
    BY DEF TypeOK, Nvs
  <1>3. QuickCount \in Nat /\ QuickCount <= shorts
    BY <1>1, <1>2 DEF QuickCount, ResetInv
  <1>4. nvs' = [nvs EXCEPT !.count = IF Detected THEN 0 ELSE QuickCount, !.uptime = "none"]
    BY <1>1 DEF Boot
  <1>5. nvs'.count <= shorts /\ nvs'.temp = "none"
    BY <1>1, <1>2, <1>3, <1>4 DEF ResetInv, Nvs
  <1>6. wifi'.forced => shorts = 2
    <2>1. wifi'.forced = Detected
      BY DEF Boot, NoWifi
    <2>2. Detected => shorts = 2
      BY <1>1, <1>2, <1>3 DEF Detected
    <2> QED BY <2>1, <2>2, Zenon
  <1>7. age # "old"
    BY <1>1 DEF ResetInv
  <1> QED BY <1>1, <1>5, <1>6, <1>7 DEF ResetInv, QuickMeansQuick

LEMMA ResetStep == TypeOK /\ ResetInv /\ [Next]_vars => ResetInv'
  <1> SUFFICES ASSUME TypeOK, ResetInv, [Next]_vars PROVE ResetInv'
    OBVIOUS
  <1>1. CASE Boot
    BY <1>1, BootReset
  <1>2. CASE Setup
    <2>1. CASE DetectWifiMode
      <3>1. minikit /\ wifi'.forced => wifi.forced
        <4>1. /\ Net(TRUE, TRUE).forced = TRUE /\ Net(TRUE, FALSE).forced = FALSE
              /\ Net(FALSE, FALSE).forced = FALSE /\ NoWifi.forced = FALSE
          BY NetType DEF NoWifi
        <4>2. ASSUME minikit PROVE \/ wifi.forced
                                   \/ wifi' \in {Net(TRUE, FALSE), Net(FALSE, FALSE), NoWifi}
          BY <2>1, <4>2 DEF DetectWifiMode, Clicked, ResetInv
        <4> QED BY <4>1, <4>2
      <3>2. minikit => nvs' = nvs
        BY <2>1 DEF DetectWifiMode, ResetInv
      <3> QED BY <2>1, <3>1, <3>2 DEF DetectWifiMode, ResetInv, QuickMeansQuick, boot, config
    <2>2. CASE StartDevices
      <3>1. wifi'.forced => wifi.forced
        BY <2>2 DEF StartDevices, TypeOK, Wifi
      <3> QED BY <2>2, <3>1 DEF StartDevices, ResetInv, QuickMeansQuick, boot, config
    <2>3. CASE StartTasks
      BY <2>3 DEF StartTasks, ResetInv, QuickMeansQuick, boot, config
    <2> QED BY <1>2, <2>1, <2>2, <2>3 DEF Setup
  <1>3. CASE Uptime
    <2>1. /\ nvs'.temp = nvs.temp /\ nvs'.count = nvs.count
          /\ phase # "down" /\ age # "old"
      BY <1>3 DEF Uptime, TypeOK, Nvs
    <2> QED BY <1>3, <2>1 DEF Uptime, ResetInv, QuickMeansQuick, boot, config
  <1>4. CASE Age
    BY <1>4 DEF Age, TypeOK, ResetInv, QuickMeansQuick, boot, config
  <1>5. CASE Crash \/ BridgeCrash \/ RebootFires \/ User
    BY <1>5, EndsReset
       DEF Crash, BridgeCrash, RebootFires, User, PowerCycle, PowerCutInSave, Served,
           Connected, LoopTurns, TripleClick, LongPress
  <1>6. CASE TimeoutFires \/ WifiStop
    <2>1. wifi'.forced => wifi.forced
      BY <1>6 DEF TimeoutFires, WifiStop, ServerStops, RadioStops, TypeOK, Wifi
    <2> QED BY <1>6, <2>1, QuietReset
            DEF TimeoutFires, WifiStop, ServerStops, RadioStops, boot, config
  <1>7. CASE Tick \/ Events
    BY <1>7, QuietReset
       DEF Tick, NoWeb, Events, StationJoins, StationLeaves, GotIp, StaDisconnected, Rest, boot
  <1>8. CASE Requests
    <2>1. CASE RebootNow \/ FactoryReset
      BY <2>1, EndsReset DEF RebootNow, FactoryReset, Served, Connected
    <2>2. CASE Status \/ \E c \in Configs : Save(c) \/ SaveRejected(c)
      BY <2>2, QuietReset DEF Status, Save, SaveRejected, NoWeb, boot
    <2>3. CASE UploadOpens \/ UploadBegins \/ WriteFails \/ UploadEnds \/ UploadBreaks
      BY <2>3, QuietReset
         DEF UploadOpens, UploadBegins, WriteFails, UploadEnds, UploadBreaks, NoWeb, boot
    <2> QED BY <1>8, <2>1, <2>2, <2>3 DEF Requests
  <1>9. CASE UNCHANGED vars
    BY <1>9, QuietReset DEF vars
  <1> QED BY <1>1, <1>2, <1>3, <1>4, <1>5, <1>6, <1>7, <1>8, <1>9 DEF Next

(* The forced access point of a MiniKit is the wish of somebody who pressed  *)
(* RESET quickly (quick_reset.cpp), whenever crashes, power cuts and the     *)
(* half-second steps of the NVS record come.                                 *)
THEOREM ResetSafe == Spec => []QuickMeansQuick
  <1>1. TypeOK /\ ResetInv => QuickMeansQuick
    BY DEF ResetInv, QuickMeansQuick
  <1> QED BY <1>1, ResetInit, ResetStep, TypeCorrect, PTL DEF Spec
=============================================================================
