----------------------------- MODULE Lifecycle -----------------------------
(***************************************************************************)
(* The life of the device from one reset to the next: what the flags in    *)
(* NVS carry over a restart (quick_reset.cpp, the temporary network of     *)
(* detectWiFiMode() and handleButtonInput()), how a WiFi session begins    *)
(* and ends (setup(), the auto-disable timer of scheduler_tasks.cpp, the   *)
(* access point's events and the web requests that touch it) and what a    *)
(* firmware upload (web_ota.cpp) does to all of them.                      *)
(* Four parties interleave: setup() and then loop(), the WiFi event task,  *)
(* the web server's task, and whoever holds the power plug.                *)
(***************************************************************************)
EXTENDS Naturals

CONSTANTS Off,          \* a task of the scheduler that is disabled
          SHORT,        \* WIFI_AP_AUTO_DISABLE_MS, in units of time
          LONG,         \* WIFI_TIMEOUT
          DELAY,        \* the delay of scheduleReboot()
          MAX_CLIENTS,  \* max_connection of the access point
          MAX_UPLOADS,  \* how many uploads are open at a time
          Configs,      \* the configurations a user chooses from
          Gone, Empty   \* config.json after a power cut in config_save()

Config == [atBoot : {"disabled", "temporary", "always"}, client : BOOLEAN,
           device4 : BOOLEAN, bluetooth : BOOLEAN]
Default == [atBoot |-> "temporary", client |-> FALSE, device4 |-> FALSE, bluetooth |-> FALSE]

ASSUME LifecycleAssumption ==
    /\ {SHORT, LONG, DELAY} \subseteq Nat \ {0} /\ SHORT <= LONG
    /\ Off \notin Nat /\ {MAX_CLIENTS, MAX_UPLOADS} \subseteq Nat \ {0}
    /\ Configs \subseteq Config /\ Default \in Configs
    /\ {Gone, Empty} \cap Config = {}

VARIABLES
    minikit,   \* BOARD_MINIKIT_ESP32: quick reset, and no BOOT button
    cfg,       \* the configuration in RAM: wifi_ap_mode, wifi_mode, Device 4 and 5
    file,      \* config.json
    nvs,       \* temp_net with its mode, and the quick reset record
    phase,     \* "down", the three parts of setup(), "up" once loop() runs
    why,       \* the reason of the last reset, until setup() has read it
    age,       \* of a MiniKit's session: under 3 s, up to 3.5 s, older
    shorts,    \* how many of them in a row ended in 3.5 s, without a crash, up
               \* to this one, until it is older itself
    wifi,      \* bridgeMode, isTemporaryNetwork, tempForceApMode, the radio, wifiStop()
    hosts,     \* the stations on the access point; 1 or 0 for an address as a client
    timer,     \* tWiFiTimeout: the time left, or Off
    reboot,    \* tRebootDevice: the time left, or Off
    ota,       \* the firmware upload
    serial     \* uartBridgeSerial is there

vars == <<minikit, cfg, file, nvs, phase, why, age, shorts, wifi, hosts, timer, reboot, ota, serial>>

boot == <<minikit, shorts, why>>
config == <<cfg, file>>
Nvs == [temp : {"none", "AP", "CLIENT"}, count : 0 .. 1, uptime : {"none", "short", "long"}]

(* stop: how far loop() is on its way to stop WiFi: the timer's callback has  *)
(* "decided" to, or wifiStop() is "closing" what uses the radio.             *)
Wifi == [mode : {"standalone", "net"}, temporary : BOOLEAN, forced : BOOLEAN,
         radio : {"off", "ap", "sta"}, stop : {"no", "decided", "closing"}]
NoWifi == [mode |-> "standalone", temporary |-> FALSE, forced |-> FALSE,
           radio |-> "off", stop |-> "no"]

(* requests: POSTs that are open; opening: handleOTA() waits for the UART;    *)
(* begun: the Update library is at work; started: updateStarted; flag:        *)
(* firmwareUpdateInProgress; suspended: the bridge task; error:               *)
(* Update.hasError().  All requests share the rest.                           *)
Upload == [requests : 0 .. MAX_UPLOADS, opening : BOOLEAN, begun : BOOLEAN,
           started : BOOLEAN, flag : BOOLEAN, suspended : BOOLEAN,
           error : BOOLEAN]
NoUpload == [requests |-> 0, opening |-> FALSE, begun |-> FALSE, started |-> FALSE,
             flag |-> FALSE, suspended |-> FALSE, error |-> FALSE]

(* Only a MiniKit gives up WiFi for Bluetooth. *)
ForBoard(c) == c \in Config /\ c.bluetooth => minikit

Init == /\ minikit \in BOOLEAN
        /\ file \in Configs \cup {Gone} /\ ForBoard(file) /\ cfg = Default
        /\ nvs = [temp |-> "none", count |-> 0, uptime |-> "none"]
        /\ phase = "down" /\ why = "power" /\ age = "young" /\ shorts = 0
        /\ wifi = NoWifi /\ hosts = 0 /\ timer = Off /\ reboot = Off
        /\ ota = NoUpload /\ serial = FALSE

-----------------------------------------------------------------------------
(* The end of a session.  RAM is lost, NVS and config.json stay.            *)

Ends(reason) ==
    /\ phase' = "down" /\ why' = reason
    /\ shorts' = IF ~minikit \/ reason = "crash" \/ age = "old" THEN 0
                 ELSE IF shorts < 2 THEN shorts + 1 ELSE 2
    /\ age' = "young"
    /\ wifi' = NoWifi /\ hosts' = 0 /\ timer' = Off /\ reboot' = Off
    /\ ota' = NoUpload /\ serial' = FALSE
    /\ cfg' = Default
    /\ UNCHANGED minikit

(* The RESET button of a MiniKit gives a power-on reset. *)
PowerCycle == phase # "down" /\ Ends("power") /\ UNCHANGED <<file, nvs>>

Crash == phase # "down" /\ Ends("crash") /\ UNCHANGED <<file, nvs>>

(* Without a serial interface the bridge task dereferences a null pointer. *)
BridgeCrash == phase = "up" /\ ~serial /\ Ends("crash") /\ UNCHANGED <<file, nvs>>

-----------------------------------------------------------------------------
(* Quick reset                                                              *)

(* Mutant: a crash counts like a press of RESET. *)
QuickCountOfAny == IF nvs.uptime = "short" THEN nvs.count + 1 ELSE 0

QuickCount == IF why = "crash" THEN 0
              ELSE IF nvs.uptime = "short" THEN nvs.count + 1 ELSE 0

Detected == minikit /\ QuickCount >= 2

(* Mutant: the counter is not reset for the next time. *)
BootKeepsCount == /\ phase = "down" /\ phase' = "setup" /\ why' = "read"
                  /\ nvs' = IF minikit
                            THEN [nvs EXCEPT !.count = QuickCount,
                                             !.uptime = "none"]
                            ELSE nvs
                  /\ wifi' = [NoWifi EXCEPT !.forced = Detected]
                  /\ cfg' = IF file \in Config THEN file ELSE Default
                  /\ file' = IF file = Gone THEN Default ELSE file
                  /\ UNCHANGED <<minikit, shorts, age, hosts, timer, reboot, ota, serial>>

(* quickResetInit() and then config_load(), at the start of setup(). *)
Boot == /\ phase = "down" /\ phase' = "setup" /\ why' = "read"
        /\ nvs' = IF minikit
                  THEN [nvs EXCEPT !.count = IF Detected THEN 0 ELSE QuickCount,
                                   !.uptime = "none"]
                  ELSE nvs
        /\ wifi' = [NoWifi EXCEPT !.forced = Detected]
        /\ cfg' = IF file \in Config THEN file ELSE Default
        /\ file' = IF file = Gone THEN Default ELSE file
        /\ UNCHANGED <<minikit, shorts, age, hosts, timer, reboot, ota, serial>>

(* loop() is not inside the timer's callback. *)
LoopTurns == phase = "up" /\ wifi.stop = "no"

(* quickResetUpdateUptime(), called in setup() and by loop() every 100 ms. *)
Uptime == /\ minikit /\ phase # "down" /\ age # "old" /\ wifi.stop = "no"
          /\ nvs' = [nvs EXCEPT !.uptime = IF age = "young" THEN "short" ELSE "long"]
          /\ UNCHANGED <<boot, config, phase, age, wifi, hosts, timer, reboot, ota, serial>>

(* setup() is over in 3 s, and loop() gets a turn in the half second after. *)
Age == /\ minikit /\ phase = "up" /\ age # "old"
       /\ age = "edge" => nvs.uptime = "long"
       /\ age' = IF age = "young" THEN "edge" ELSE "old"
       /\ shorts' = IF age = "young" THEN shorts ELSE 0
       /\ UNCHANGED <<minikit, why, config, nvs, phase, wifi, hosts, timer, reboot, ota, serial>>

-----------------------------------------------------------------------------
(* setup()                                                                  *)

Net(temporary, forced) ==
    [NoWifi EXCEPT !.mode = "net", !.temporary = temporary, !.forced = forced]

(* The triple click while the device starts. *)
Clicked == ~minikit /\ wifi' = Net(TRUE, FALSE)

DetectWifiMode ==
    /\ phase = "setup" /\ phase' = "detected"
    /\ CASE minikit /\ wifi.forced ->
              wifi' = Net(TRUE, TRUE) /\ UNCHANGED nvs
         [] ~(minikit /\ wifi.forced) /\ cfg.bluetooth ->
              wifi' = NoWifi /\ UNCHANGED nvs
         [] ~(minikit /\ wifi.forced) /\ ~cfg.bluetooth /\ nvs.temp # "none" ->
              wifi' = Net(TRUE, nvs.temp = "AP") /\ nvs' = [nvs EXCEPT !.temp = "none"]
         [] OTHER ->
              /\ \/ cfg.atBoot = "always" /\ wifi' = Net(FALSE, FALSE)
                 \/ cfg.atBoot = "temporary" /\ wifi' = Net(TRUE, FALSE)
                 \/ cfg.atBoot = "disabled" /\ (wifi' = NoWifi \/ Clicked)
              /\ UNCHANGED nvs
    /\ UNCHANGED <<boot, config, age, hosts, timer, reboot, ota, serial>>

(* initStandaloneMode() or initNetworkMode(), whose wifiInit() may fail.     *)
StartDevices ==
    /\ phase = "detected" /\ phase' = "started"
    /\ \/ wifi.mode = "standalone" /\ serial' = TRUE /\ UNCHANGED wifi
       \/ /\ wifi.mode = "net" /\ serial' = TRUE
          /\ wifi' = [wifi EXCEPT !.radio = IF wifi.forced \/ ~cfg.client THEN "ap" ELSE "sta",
                                  !.forced = FALSE]
       \/ /\ wifi.mode = "net" /\ serial' = ~cfg.device4   \* "safe mode"
          /\ wifi' = [wifi EXCEPT !.forced = cfg.device4 /\ wifi.forced]
    /\ UNCHANGED <<boot, config, nvs, age, hosts, timer, reboot, ota>>

Length == IF cfg.atBoot = "temporary" THEN SHORT ELSE LONG

(* enableStandaloneTasks() or enableNetworkTasks(), and createTasks(). *)
StartTasks ==
    /\ phase = "started" /\ phase' = "up"
    /\ timer' = IF wifi.mode = "net" /\ wifi.temporary THEN Length ELSE Off
    /\ UNCHANGED <<boot, config, nvs, age, wifi, hosts, reboot, ota, serial>>

-----------------------------------------------------------------------------
(* Events of the WiFi stack                                                 *)

Radio(r) == phase \in {"started", "up"} /\ wifi.radio = r
Rest == <<boot, config, nvs, phase, age, wifi, reboot, ota, serial>>

(* The handlers of the access point's events test wifiStopping first. *)
Unless(stopping, t) == timer' = IF stopping THEN timer ELSE t
Stopping == wifi.stop = "closing"

StationJoins == /\ Radio("ap") /\ hosts < MAX_CLIENTS
                /\ hosts' = hosts + 1
                /\ Unless(Stopping, Off)
                /\ UNCHANGED Rest

(* Mutant: the timer that the station stopped stays off. *)
StationLeavesForGood == /\ Radio("ap") /\ hosts > 0
                        /\ hosts' = hosts - 1
                        /\ UNCHANGED <<Rest, timer>>

StationLeaves == /\ Radio("ap") /\ hosts > 0
                 /\ hosts' = hosts - 1
                 /\ Unless(Stopping \/ cfg.atBoot # "temporary" \/ hosts > 1, Length)
                 /\ UNCHANGED Rest

GotIp == /\ Radio("sta") /\ hosts = 0
         /\ hosts' = 1
         /\ timer' = IF cfg.atBoot = "temporary" THEN Length ELSE timer
         /\ UNCHANGED Rest

StaDisconnected == /\ Radio("sta") /\ hosts > 0
                   /\ hosts' = 0
                   /\ UNCHANGED <<Rest, timer>>

-----------------------------------------------------------------------------
(* Web requests                                                             *)

(* The server starts at the end of setup(), and nobody asks it before loop(). *)
(* One task answers all requests, and it sleeps while a file is opened.       *)
Connected == phase = "up" /\ wifi.radio # "off" /\ hosts > 0 /\ ~ota.opening

(* webserver_stop() lets no new request in. *)
Served == Connected /\ wifi.stop # "closing"
NoWeb == <<boot, nvs, phase, age, wifi, hosts, serial>>

(* handleApiStatus(), which the open page polls. *)
Status == /\ Served /\ cfg.client /\ cfg.atBoot = "temporary"
          /\ timer' = Length
          /\ UNCHANGED <<NoWeb, config, reboot, ota>>

(* handleImportConfig(), and handleSaveJson() when something changed. *)
Save(c) == /\ Served /\ ForBoard(c)
           /\ cfg' = c /\ file' = c
           /\ timer' = Off /\ reboot' = DELAY
           /\ UNCHANGED <<NoWeb, ota>>

(* A field that is refused comes after fields that are already assigned: the *)
(* roles, or the WiFi settings too.                                          *)
SaveRejected(c) ==
    /\ Served /\ ForBoard(c)
    /\ \/ cfg' = [cfg EXCEPT !.device4 = c.device4, !.bluetooth = c.bluetooth]
       \/ cfg' = c
    /\ UNCHANGED <<NoWeb, file, timer, reboot, ota>>

(* config_save() renames config.json and writes a new one. *)
PowerCutInSave == /\ Served \/ (LoopTurns /\ ~minikit)
                  /\ file' \in {Gone, Empty}
                  /\ Ends("power") /\ UNCHANGED nvs

RebootNow == Served /\ Ends("sw") /\ UNCHANGED <<file, nvs>>

FactoryReset == Served /\ file' = Default /\ Ends("sw") /\ UNCHANGED nvs

(* The first chunk: the flag, the bridge task, and the UART is given 100 ms. *)
UploadOpens ==
    /\ Served /\ ota.requests < MAX_UPLOADS
    /\ ota' = [ota EXCEPT !.requests = @ + 1, !.opening = TRUE, !.started = FALSE,
                          !.flag = TRUE, !.suspended = TRUE]
    /\ UNCHANGED <<NoWeb, config, timer, reboot>>

(* After the delay, whatever has become of WiFi and of the request.           *)
(* Update.begin() fails if it is at work already, which it does not call an   *)
(* error, or if there is no room.                                             *)
UploadBegins ==
    /\ phase = "up" /\ ota.opening
    /\ LET o == [ota EXCEPT !.opening = FALSE] IN
       \/ /\ ~ota.begun
          /\ ota' = [o EXCEPT !.begun = TRUE, !.started = TRUE, !.error = FALSE]
       \/ ota' = [o EXCEPT !.flag = FALSE, !.suspended = FALSE, !.error = ~ota.begun]
    /\ UNCHANGED <<NoWeb, config, timer, reboot>>

WriteFails == /\ Connected /\ ota.requests > 0 /\ ota.started
              /\ ota' = [ota EXCEPT !.started = FALSE, !.suspended = FALSE,
                                    !.begun = FALSE, !.error = TRUE]
              /\ UNCHANGED <<NoWeb, config, timer, reboot>>

(* The last chunk, and handleUpdateEnd(), which answers the request: Update   *)
(* ended well, Update.end() failed, or there was nothing to end.              *)
UploadEnds ==
    /\ Connected /\ ota.requests > 0
    /\ LET o == [ota EXCEPT !.requests = @ - 1, !.started = FALSE] IN
       \/ /\ ota.started
          /\ ota' = [o EXCEPT !.begun = FALSE]
          /\ timer' = Off /\ reboot' = DELAY
       \/ /\ ota.started
          /\ ota' = [o EXCEPT !.begun = FALSE, !.flag = FALSE, !.suspended = FALSE, !.error = TRUE]
          /\ UNCHANGED <<timer, reboot>>
       \/ /\ ~ota.started /\ ota.error
          /\ ota' = [o EXCEPT !.suspended = FALSE]
          /\ UNCHANGED <<timer, reboot>>
       \/ /\ ~ota.started /\ ~ota.error
          /\ ota' = o
          /\ timer' = Off /\ reboot' = DELAY
    /\ UNCHANGED <<NoWeb, config>>

(* The connection of an upload breaks: no handler is called. *)
UploadBreaks == /\ ota.requests > 0
                /\ ota' = [ota EXCEPT !.requests = @ - 1]
                /\ UNCHANGED <<NoWeb, config, timer, reboot>>

-----------------------------------------------------------------------------
(* loop()                                                                   *)

(* Time passes, unless a task of the scheduler is due.  A unit of time is     *)
(* longer than the 100 ms of UploadOpens, and than a MiniKit is young.        *)
Tick == /\ phase = "up" /\ timer # 0 /\ reboot # 0 /\ ~ota.opening
        /\ minikit => age = "old"
        /\ ~(timer = Off /\ reboot = Off)
        /\ timer' = IF timer = Off THEN Off ELSE timer - 1
        /\ reboot' = IF reboot = Off THEN Off ELSE reboot - 1
        /\ UNCHANGED <<NoWeb, config, ota>>

(* Mutant: the timer does not look at the update. *)
TimeoutFiresAlways ==
    /\ LoopTurns /\ timer = 0
    /\ timer' = Off
    /\ wifi' = [wifi EXCEPT !.stop = IF wifi.radio = "off" THEN "no" ELSE "decided"]
    /\ UNCHANGED <<boot, config, nvs, phase, age, hosts, reboot, ota, serial>>

(* The timer's callback: without an upload it goes on to wifiStop(), which    *)
(* does nothing when wifiInit() has failed.                                   *)
TimeoutFires ==
    /\ LoopTurns /\ timer = 0
    /\ timer' = Off
    /\ wifi' = [wifi EXCEPT !.stop = IF ota.flag \/ wifi.radio = "off" THEN "no" ELSE "decided"]
    /\ UNCHANGED <<boot, config, nvs, phase, age, hosts, reboot, ota, serial>>

(* wifiStopping, disableNetworkTasks(), webserver_stop() *)
ServerStops ==
    /\ wifi.stop = "decided"
    /\ wifi' = [wifi EXCEPT !.stop = "closing"]
    /\ timer' = Off
    /\ UNCHANGED <<boot, config, nvs, phase, age, hosts, reboot, ota, serial>>

(* The rest of wifiStop(): the radio, and the tasks of the standalone mode.   *)
(* The connections of open requests break.                                    *)
RadioStops ==
    /\ wifi.stop = "closing"
    /\ wifi' = [wifi EXCEPT !.mode = "standalone", !.radio = "off", !.stop = "no"]
    /\ hosts' = 0
    /\ timer' = Off
    /\ UNCHANGED <<boot, config, nvs, phase, age, reboot, ota, serial>>

WifiStop == ServerStops \/ RadioStops

RebootFires == LoopTurns /\ reboot = 0 /\ Ends("sw") /\ UNCHANGED <<file, nvs>>

TripleClick ==
    /\ LoopTurns /\ ~minikit
    /\ wifi.mode = "standalone" \/ cfg.client
    /\ nvs' = [nvs EXCEPT !.temp = IF wifi.mode = "standalone" /\ cfg.client
                                   THEN "CLIENT" ELSE "AP"]
    /\ Ends("sw") /\ UNCHANGED file

LongPress == /\ LoopTurns /\ ~minikit
             /\ file' = [cfg EXCEPT !.client = FALSE]
             /\ Ends("sw") /\ UNCHANGED nvs

Setup == DetectWifiMode \/ StartDevices \/ StartTasks
Events == StationJoins \/ StationLeaves \/ GotIp \/ StaDisconnected
Requests == \/ Status \/ RebootNow \/ FactoryReset
            \/ \E c \in Configs : Save(c) \/ SaveRejected(c)
            \/ UploadOpens \/ UploadBegins \/ WriteFails \/ UploadEnds \/ UploadBreaks
User == PowerCycle \/ PowerCutInSave \/ TripleClick \/ LongPress

Next == \/ Boot \/ Setup \/ Uptime \/ Age \/ Crash \/ BridgeCrash
        \/ Tick \/ TimeoutFires \/ WifiStop \/ RebootFires
        \/ Events \/ Requests \/ User

(* Once started, setup() is run to its end, and loop() looks at the clock,    *)
(* goes through with wifiStop() and writes the NVS record.                    *)
Spec == Init /\ [][Next]_vars
FairSpec == /\ Spec /\ WF_vars(Setup) /\ WF_vars(Uptime) /\ WF_vars(Age) /\ WF_vars(Tick)
            /\ WF_vars(TimeoutFires) /\ WF_vars(WifiStop) /\ WF_vars(RebootFires)

-----------------------------------------------------------------------------

(* Type correctness: timers count down from their durations, the NVS record  *)
(* and the upload's flags keep their ranges, and no more stations or uploads *)
(* are there than the limits.                                                *)
Times == 0 .. LONG \cup 0 .. DELAY \cup {Off}
TypeOK == /\ minikit \in BOOLEAN /\ cfg \in Config /\ file \in Config \cup {Gone, Empty}
          /\ nvs \in Nvs /\ wifi \in Wifi /\ ota \in Upload
          /\ phase \in {"down", "setup", "detected", "started", "up"}
          /\ why \in {"power", "sw", "crash", "read"} /\ age \in {"young", "edge", "old"}
          /\ shorts \in 0 .. 2 /\ hosts \in 0 .. MAX_CLIENTS
          /\ timer \in Times /\ reboot \in Times /\ serial \in BOOLEAN

(* From the first chunk of a firmware upload to the end of its writing        *)
(* (web_ota.cpp) the bridge task is suspended and the flag is set, and if     *)
(* WiFi was not about to stop, it neither stops nor begins to: the exception  *)
(* is a first chunk that comes after the timer's callback has tested the      *)
(* flag.  Other requests, stations, broken uploads and a second file do not   *)
(* change this, and the bridge task is never left suspended without the flag. *)
Uploading == ota.opening \/ ota.started
WifiStays == wifi.radio # "off" /\ wifi.stop = "no"
FlagHeld == /\ Uploading => ota.flag /\ ota.suspended
            /\ ota.suspended => ota.flag
KeepsWifi == Uploading /\ WifiStays /\ Uploading' => WifiStays'
UpdateUndisturbed == []FlagHeld /\ [][KeepsWifi]_vars

(* "Don't stop WiFi during firmware update" (scheduler_tasks.cpp:75), without *)
(* the exception above: the code does not keep this.                          *)
UpdateKeepsWifi == ota.started => wifi.radio # "off"

(* quick_reset.cpp takes three presses of RESET for a wish to have the access *)
(* point: the forced access point of a MiniKit is never the result of crashes *)
(* or of sessions that lasted, whatever the NVS record says meanwhile.        *)
QuickMeansQuick == minikit /\ wifi.forced => shorts = 2 \/ age = "old"

(* "Temporary" WiFi (README.md:203) goes off by itself: an access point with  *)
(* nobody on it is either joined, or stopped by the timer, unless an upload   *)
(* has been started or the device restarts.                                   *)
TemporaryEnds == (wifi.radio = "ap" /\ cfg.atBoot = "temporary" /\ hosts = 0)
                 ~> (wifi.radio = "off" \/ hosts > 0 \/ ota.flag \/ cfg.atBoot # "temporary")
=============================================================================
