---------------------------- MODULE BridgeSetup ----------------------------
(***************************************************************************)
(* How one boot turns the saved device roles into the running bridge:      *)
(* setup() corrects the configuration, chooses the mode, creates the       *)
(* interfaces and the tasks (src/src/main.cpp, src/src/device_init.cpp);   *)
(* uartBridgeTask() then allocates the input buffers (buffer_manager.cpp), *)
(* builds the data flows and the packet senders (protocol_pipeline.cpp)    *)
(* and registers the SBUS outputs.  Every step reads the same roles, each  *)
(* with conditions of its own; what is checked is that they fit together.  *)
(***************************************************************************)
EXTENDS Naturals, FiniteSets

CONSTANTS Builds,    \* the firmware variants considered, a subset of AllBuilds
          Configs    \* the configurations that may have been saved

(***************************************************************************)
(* "plain" has no Bluetooth, "spp" is MINIKIT_BT_ENABLED (Bluetooth and    *)
(* WiFi exclude each other), "ble" is BLE_ENABLED.                         *)
(***************************************************************************)
AllBuilds == {"plain", "spp", "ble"}

D1Roles == {"UART1", "SBUS_IN", "CRSF_IN"}
D2Roles == {"NONE", "UART2", "USB", "SBUS_IN", "SBUS_OUT", "USB_SBUS_TEXT",
            "USB_LOG", "USB_CRSF_TEXT", "USB_CRSF_BRIDGE"}
D3Roles == {"NONE", "UART3_MIRROR", "UART3_BRIDGE", "UART3_LOG", "SBUS_IN",
            "SBUS_OUT", "CRSF_BRIDGE"}
D4Roles == {"NONE", "NETWORK_BRIDGE", "LOG_NETWORK", "SBUS_UDP_TX",
            "SBUS_UDP_RX", "CRSF_TEXT"}
D5Roles == {"NONE", "BT_BRIDGE", "BT_SBUS_TEXT", "BT_CRSF_TEXT"}
Protocols == {"NONE", "MAVLINK", "SBUS", "CRSF", "TERMINAL"}

AllConfigs == [d1 : D1Roles, d2 : D2Roles, d3 : D3Roles, d4 : D4Roles,
               d5 : D5Roles, proto : Protocols, routing : BOOLEAN]

ASSUME SetupAssumption == /\ Builds \subseteq AllBuilds
                          /\ Configs \subseteq AllConfigs

VARIABLES build,     \* the firmware
          config,    \* the global Config
          pc,        \* how far the boot has come
          mode,      \* bridgeMode
          quick,     \* quickResetDetected()
          present,   \* the interface objects that exist
          tasks,     \* the FreeRTOS tasks that were created
          flows,     \* the flows of the pipeline
          senders,   \* the senders of the pipeline
          outputs    \* the senders registered with the SBUS router

bootVars == <<build, config, pc, mode, quick, present, tasks, flows, senders, outputs>>

MAX_FLOWS == 8

If(b, S) == IF b THEN S ELSE {}

-----------------------------------------------------------------------------
(* What the web interface accepts, and what setup() corrects.               *)

(* An SBUS input needs an SBUS output. *)
Accepted(b, c) ==
    LET in  == \/ c.d1 = "SBUS_IN" \/ c.d2 = "SBUS_IN"
               \/ c.d3 = "SBUS_IN" \/ c.d4 = "SBUS_UDP_RX"
        out == \/ c.d2 \in {"SBUS_OUT", "USB_SBUS_TEXT"} \/ c.d3 = "SBUS_OUT"
               \/ c.d4 = "SBUS_UDP_TX"
               \/ b # "plain" /\ c.d5 = "BT_SBUS_TEXT"
    IN in => out

(* SBUS on UART1 is not converted to a UART bridge on Device 2 or 3. *)
WithoutConversion(c) ==
    IF c.d1 # "SBUS_IN" THEN c
    ELSE [c EXCEPT !.d2 = IF @ = "UART2" THEN "NONE" ELSE @,
                   !.d3 = IF @ = "UART3_BRIDGE" THEN "NONE" ELSE @]

(* The protocol follows from the roles when one of them is SBUS or CRSF. *)
NeedsSbus(c) == \/ c.d1 = "SBUS_IN"
                \/ c.d2 \in {"SBUS_IN", "SBUS_OUT", "USB_SBUS_TEXT"}
                \/ c.d3 \in {"SBUS_IN", "SBUS_OUT"}
ProtocolOf(c) == CASE c.d1 = "CRSF_IN" -> "CRSF"
                   [] c.d1 # "CRSF_IN" /\ NeedsSbus(c) -> "SBUS"
                   [] OTHER -> IF c.proto \in {"SBUS", "CRSF"} THEN "NONE" ELSE c.proto

Corrected(c) == LET d == WithoutConversion(c) IN [d EXCEPT !.proto = ProtocolOf(d)]

-----------------------------------------------------------------------------
(* initProtocolBuffers(): the input buffers that are allocated.              *)

UsbBuffer(c) == If(c.d2 \in {"USB", "USB_CRSF_BRIDGE"}, {"usb"})
Uart2Buffer(c) == If(c.d2 \in {"UART2", "SBUS_IN", "SBUS_OUT"}, {"uart2"})
Uart3BufferOfReceivers(c) == If(c.d3 \in {"SBUS_IN", "CRSF_BRIDGE"}, {"uart3"}) \* mutant
Uart3Buffer(c) == If(c.d3 \in {"UART3_BRIDGE", "SBUS_IN", "CRSF_BRIDGE"}, {"uart3"})
UdpBuffer(c) == If(c.d4 \in {"NETWORK_BRIDGE", "SBUS_UDP_TX", "SBUS_UDP_RX"}, {"udp"})
BtBuffer(b, c) == If(b = "spp" /\ c.d5 = "BT_BRIDGE", {"bt"})

Buffers(b, c) ==
    {"uart1"} \union If(c.d4 = "LOG_NETWORK", {"log"}) \union UsbBuffer(c)
              \union Uart2Buffer(c) \union Uart3Buffer(c) \union UdpBuffer(c)
              \union BtBuffer(b, c)

-----------------------------------------------------------------------------
(* setupFlows(): a flow reads one buffer with one parser and offers the     *)
(* packets to the senders "to".                                             *)

Flow(name, buf, phys, to, input, parser) ==
    [name |-> name, buf |-> buf, phys |-> phys, to |-> to, input |-> input,
     parser |-> parser]

HasSbusDevice(c) == \/ c.d1 = "SBUS_IN" \/ c.d2 \in {"SBUS_IN", "SBUS_OUT"}
                    \/ c.d3 \in {"SBUS_IN", "SBUS_OUT"}

(* The parser of the bridge flows. *)
BridgeParser(c) == IF c.proto \in {"MAVLINK", "TERMINAL"} THEN c.proto ELSE "RAW"

SbusMask(b, c) ==
    {"UART1"}
      \union If(/\ c.d3 \in {"UART3_BRIDGE", "UART3_MIRROR", "SBUS_OUT"}
                /\ c.d2 = "SBUS_IN", {"UART3"})
      \union If(c.d4 = "NETWORK_BRIDGE", {"UDP"})
      \union If(c.d2 = "USB_SBUS_TEXT", {"USB"})
      \union If(b # "plain" /\ c.d5 = "BT_SBUS_TEXT", {"BT"})

TelemetryMask(b, c) ==
    If(c.d2 = "USB", {"USB"}) \union If(c.d2 = "UART2", {"UART2"})
      \union If(c.d3 \in {"UART3_MIRROR", "UART3_BRIDGE"}, {"UART3"})
      \union If(c.d4 = "NETWORK_BRIDGE", {"UDP"})
      \union If(b # "plain" /\ c.d5 = "BT_BRIDGE", {"BT"})

(* The flows of the receivers: SBUS or CRSF frames, routed by the parser. *)
ReceiverFlows(b, c) ==
    If(c.d1 = "SBUS_IN",
       {Flow("Device1_SBUS_IN", "uart1", "UART1", SbusMask(b, c), TRUE, "SBUS_DEVICE1")})
      \union If(c.d1 = "CRSF_IN",
       {Flow("Device1_CRSF_IN", "uart1", "UART1", {}, TRUE, "CRSF")})
      \union If(c.d2 = "SBUS_IN",
       {Flow("Device2_SBUS_IN", "uart2", "UART2", SbusMask(b, c), TRUE, "SBUS_DEVICE2"),
        Flow("SBUS_Input_D2", "uart2", "UART2", SbusMask(b, c), TRUE, "SBUS_DEVICE2")})
      \union If(c.d3 = "SBUS_IN",
       {Flow("Device3_SBUS_IN", "uart3", "UART3", SbusMask(b, c), TRUE, "SBUS_DEVICE3")})

(* From the flight controller on UART1 to the other devices, and the log. *)
Telemetry(b, c) ==
    If(TelemetryMask(b, c) # {} /\ c.d1 = "UART1",
       {Flow("Telemetry", "uart1", "UART1", TelemetryMask(b, c), FALSE, BridgeParser(c))})
LoggerFlow(c) ==
    If(c.d4 = "LOG_NETWORK", {Flow("Logger", "log", "NONE", {"UDP"}, FALSE, "LINES")})

(* From a device to the flight controller. *)
UsbInput(c) ==
    If(c.d2 = "USB", {Flow("USB_Input", "usb", "USB", {"UART1"}, TRUE, BridgeParser(c))})
UdpInput(c) ==
    If(c.d4 = "NETWORK_BRIDGE" /\ ~HasSbusDevice(c),
       {Flow("UDP_Input", "udp", "UDP", {"UART1"}, TRUE, BridgeParser(c))})
Uart2Input(c) ==
    If(c.d2 = "UART2" /\ ~HasSbusDevice(c),
       {Flow("UART2_Input", "uart2", "UART2", {"UART1"}, TRUE, BridgeParser(c))})
Uart3Input(c) ==
    If(c.d3 = "UART3_BRIDGE" /\ ~HasSbusDevice(c),
       {Flow("UART3_Input", "uart3", "UART3", {"UART1"}, TRUE, BridgeParser(c))})
BtInput(b, c, up) ==
    If(b # "plain" /\ c.d5 = "BT_BRIDGE" /\ ~HasSbusDevice(c) /\ "bt" \in up,
       {Flow("BT_Input", "bt", "BT", {"UART1"}, TRUE, BridgeParser(c))})
CrsfReverse(c) ==
    If(c.d2 = "USB_CRSF_BRIDGE",
       {Flow("USB_CRSF_Reverse", "usb", "USB", {"UART1"}, TRUE, "RAW")})
      \union If(c.d3 = "CRSF_BRIDGE",
       {Flow("UART3_CRSF_Reverse", "uart3", "UART3", {"UART1"}, TRUE, "RAW")})

(* SBUS from UART1 or from the network to SBUS outputs, and SBUS to the      *)
(* network: a second reader of the receiver's buffer.                        *)
SbusOutput(c) ==
    LET out == c.d2 = "SBUS_OUT" \/ c.d3 = "SBUS_OUT"
        in  == c.d1 = "SBUS_IN" \/ c.d2 = "SBUS_IN" \/ c.d3 = "SBUS_IN"
    IN If(out /\ ~in,
          {Flow("SBUS_Output", "uart1", "UART1",
                IF c.d2 = "SBUS_OUT" THEN {"UART2"} ELSE {"UART3"},
                FALSE, "SBUS_DEVICE1")})
UdpSbusInput(c) ==
    If(c.d4 = "SBUS_UDP_RX" /\ (c.d2 = "SBUS_OUT" \/ c.d3 = "SBUS_OUT"),
       {Flow("UDP_SBUS_Input", "udp", "UDP", {}, TRUE, "SBUS_UDP")})
SbusUdpOutput(c) ==
    LET buf == CASE c.d1 = "SBUS_IN" -> {"uart1"}
                 [] c.d1 # "SBUS_IN" /\ c.d2 = "SBUS_IN" -> {"uart2"}
                 [] c.d1 # "SBUS_IN" /\ c.d2 # "SBUS_IN" /\ c.d3 = "SBUS_IN" -> {"uart3"}
                 [] OTHER -> {}
    IN If(c.d4 = "SBUS_UDP_TX",
          {Flow("SBUS_UDP_Output", x, "UART1", {"UDP"}, FALSE, "SBUS_DEVICE1") : x \in buf})

(* Every flow is made only if its buffer was. *)
Flows(b, c, up) ==
    {f \in ReceiverFlows(b, c) \union Telemetry(b, c) \union LoggerFlow(c)
            \union UsbInput(c) \union UdpInput(c) \union Uart2Input(c)
            \union Uart3Input(c) \union BtInput(b, c, up) \union CrsfReverse(c)
            \union SbusOutput(c) \union UdpSbusInput(c) \union SbusUdpOutput(c) :
       f.buf \in Buffers(b, c)}

-----------------------------------------------------------------------------
(* createSenders(), createTasks(), processSenders().                         *)

SendersOf(b, c, up) ==
    If(/\ c.d2 \in {"USB", "USB_SBUS_TEXT", "USB_CRSF_TEXT", "USB_CRSF_BRIDGE"}
       /\ "usb" \in up, {"USB"})
      \union If(c.d2 \in {"UART2", "SBUS_OUT"} /\ "dev2" \in up, {"UART2"})
      \union If(/\ c.d3 \in {"UART3_MIRROR", "UART3_BRIDGE", "SBUS_OUT", "CRSF_BRIDGE"}
                /\ "dev3" \in up, {"UART3"})
      \union If(/\ c.d4 \in {"NETWORK_BRIDGE", "LOG_NETWORK", "SBUS_UDP_TX", "CRSF_TEXT"}
                /\ "udp" \in up, {"UDP"})
      \union If("uart1" \in up, {"UART1"})
      \union If(c.d5 # "NONE" /\ "bt" \in up, {"BT"})

(* Mutant: the network logger is forgotten. *)
NeedSenderTaskToBridge(b, c) ==
    \/ c.d2 \in {"USB", "USB_SBUS_TEXT", "UART2", "SBUS_IN", "SBUS_OUT"}
    \/ c.d3 \in {"UART3_MIRROR", "UART3_BRIDGE", "SBUS_IN", "SBUS_OUT"}
    \/ c.d4 = "NETWORK_BRIDGE"
    \/ b # "plain" /\ c.d5 # "NONE"

(* The roles for which createTasks() starts the sender task. *)
NeedSenderTask(b, c) ==
    \/ c.d2 \in {"USB", "USB_SBUS_TEXT", "UART2", "SBUS_IN", "SBUS_OUT"}
    \/ c.d3 \in {"UART3_MIRROR", "UART3_BRIDGE", "SBUS_IN", "SBUS_OUT"}
    \/ c.d4 \in {"NETWORK_BRIDGE", "LOG_NETWORK"}
    \/ b # "plain" /\ c.d5 # "NONE"

(* The queues that processSenders() passes over: their sender is only given  *)
(* whole frames with sendDirect().                                           *)
Skipped(c) ==
    If(c.d2 = "SBUS_OUT", {"UART2"}) \union If(c.d2 = "USB_CRSF_BRIDGE", {"USB"})
      \union If(c.d3 \in {"SBUS_OUT", "CRSF_BRIDGE"}, {"UART3"})
      \union If(c.d4 = "SBUS_UDP_TX", {"UDP"})

(* Mutant: the test asks for a wired SBUS device. *)
SbusOutputsIfWired(b, c) ==
    IF ~HasSbusDevice(c) THEN {}
    ELSE If(c.d2 = "SBUS_OUT", {"UART2"}) \union If(c.d3 = "SBUS_OUT", {"UART3"})
           \union If(c.d4 = "SBUS_UDP_TX", {"UDP"})
           \union If(c.d2 = "USB_SBUS_TEXT", {"USB"})
           \union If(b # "plain" /\ c.d5 = "BT_SBUS_TEXT", {"BT"})

(* registerSbusOutputs(), behind its own test for an SBUS device. *)
SbusOutputs(b, c) ==
    IF ~HasSbusDevice(c) /\ c.d4 \notin {"SBUS_UDP_RX", "SBUS_UDP_TX"} THEN {}
    ELSE If(c.d2 = "SBUS_OUT", {"UART2"}) \union If(c.d3 = "SBUS_OUT", {"UART3"})
           \union If(c.d4 = "SBUS_UDP_TX", {"UDP"})
           \union If(c.d2 = "USB_SBUS_TEXT", {"USB"})
           \union If(b # "plain" /\ c.d5 = "BT_SBUS_TEXT", {"BT"})

(* initCommonDevices(), initMainUART() *)
CommonDevices(c) ==
    {"uart1"}
      \union If(c.d2 \in {"USB", "USB_SBUS_TEXT", "USB_CRSF_TEXT", "USB_CRSF_BRIDGE",
                          "USB_LOG"}, {"usb"})
      \union If(c.d2 \in {"UART2", "SBUS_IN", "SBUS_OUT"}, {"dev2"})
      \union If(c.d3 # "NONE", {"dev3"})

(* The UDP part of initNetworkMode() *)
Transport(c) == If(c.d4 # "NONE", {"udp"})
                  \union If(c.d4 \in {"NETWORK_BRIDGE", "SBUS_UDP_RX"}, {"udpRx"})

-----------------------------------------------------------------------------
(* The boot                                                                 *)

BootInit == /\ build \in Builds
            /\ config \in Configs
            /\ pc = "load" /\ mode = "STANDALONE" /\ quick = FALSE
            /\ present = {} /\ tasks = {} /\ flows = {} /\ senders = {} /\ outputs = {}

(* setup() loads the configuration and corrects it. *)
Load == /\ pc = "load" /\ pc' = "mode"
        /\ config' = Corrected(config)
        /\ UNCHANGED <<build, mode, quick, present, tasks, flows, senders, outputs>>

(* detectWiFiMode(): a quick reset asks for the network; else the SPP build  *)
(* with Bluetooth in use stays without it; else the saved mode, a triple     *)
(* click before the restart or the access point setting decide.              *)
DetectMode ==
    /\ pc = "mode" /\ pc' = "bluetooth"
    /\ \/ quick' = TRUE /\ mode' = "NET"
       \/ quick' = FALSE /\ mode' \in IF build = "spp" /\ config.d5 # "NONE"
                                       THEN {"STANDALONE"} ELSE {"STANDALONE", "NET"}
    /\ UNCHANGED <<build, config, present, tasks, flows, senders, outputs>>

(* initDevice5Bluetooth(), initDevice5BLE(): the stack may fail to start. *)
InitBluetooth ==
    /\ pc = "bluetooth" /\ pc' = "devices"
    /\ \/ present' = present
       \/ /\ build # "plain" /\ config.d5 # "NONE"
          /\ build = "spp" => ~quick
          /\ present' = present \union {"bt"}
    /\ UNCHANGED <<build, config, mode, quick, tasks, flows, senders, outputs>>

(* initStandaloneMode() *)
InitStandalone ==
    /\ pc = "devices" /\ mode = "STANDALONE" /\ pc' = "tasks"
    /\ present' = present \union CommonDevices(config)
    /\ UNCHANGED <<build, config, mode, quick, tasks, flows, senders, outputs>>

(* initNetworkMode(): without a Device 4 a failure of wifiInit() is no       *)
(* obstacle, with one the function returns before any device is created.     *)
InitNetwork ==
    /\ pc = "devices" /\ mode = "NET" /\ pc' = "tasks"
    /\ present' \in {present \union CommonDevices(config) \union Transport(config)}
                      \union If(config.d4 # "NONE", {present})
    /\ UNCHANGED <<build, config, mode, quick, tasks, flows, senders, outputs>>

CreateTasks ==
    /\ pc = "tasks" /\ pc' = "bridge"
    /\ tasks' = {"bridge"} \union If(NeedSenderTask(build, config), {"sender"})
    /\ UNCHANGED <<build, config, mode, quick, present, flows, senders, outputs>>

(* uartBridgeTask() a second later: initProtocolBuffers(), the pipeline.     *)
InitPipeline ==
    /\ pc = "bridge" /\ pc' = "register"
    /\ flows' = Flows(build, config, present)
    /\ senders' = SendersOf(build, config, present)
    /\ UNCHANGED <<build, config, mode, quick, present, tasks, outputs>>

(* Mutant: the sender is registered without the test that it exists. *)
RegisterBlindly ==
    /\ pc = "register" /\ pc' = "running"
    /\ outputs' = SbusOutputs(build, config)
    /\ UNCHANGED <<build, config, mode, quick, present, tasks, flows, senders>>

(* registerSbusOutputs(); a sender that was not created is only logged. *)
RegisterSbusOutputs ==
    /\ pc = "register" /\ pc' = "running"
    /\ outputs' = SbusOutputs(build, config) \cap senders
    /\ UNCHANGED <<build, config, mode, quick, present, tasks, flows, senders>>

(* A device that is set up stays so until it restarts, from the start. *)
Restart ==
    /\ pc = "running" /\ pc' = "load"
    /\ mode' = "STANDALONE" /\ quick' = FALSE /\ present' = {} /\ tasks' = {}
    /\ flows' = {} /\ senders' = {} /\ outputs' = {}
    /\ UNCHANGED <<build, config>>

BootNext == \/ Load \/ DetectMode \/ InitBluetooth \/ InitStandalone \/ InitNetwork
            \/ CreateTasks \/ InitPipeline \/ RegisterSbusOutputs \/ Restart

BootSpec == BootInit /\ [][BootNext]_bootVars

-----------------------------------------------------------------------------
(* What the bridge loop polls, and which buffer it fills from it.           *)
Fed == If("uart1" \in present, {"uart1"})
         \union If("log" \in Buffers(build, config), {"log"})
         \union If(/\ config.d2 \in {"USB", "USB_SBUS_TEXT", "USB_CRSF_TEXT",
                                     "USB_CRSF_BRIDGE"}
                   /\ "usb" \in present, {"usb"})
         \union If(/\ config.d2 \in {"UART2", "SBUS_IN", "SBUS_OUT"}
                   /\ "dev2" \in present, {"uart2"})
         \union If(/\ config.d3 \in {"UART3_BRIDGE", "SBUS_IN", "CRSF_BRIDGE"}
                   /\ "dev3" \in present, {"uart3"})
         \union If("udpRx" \in present, {"udp"})
         \union If("bt" \in present, {"bt"})

(* The SBUS and CRSF parsers hand frames to their router and return no       *)
(* packet; the others return packets.                                        *)
SbusParsers == {"SBUS_DEVICE1", "SBUS_DEVICE2", "SBUS_DEVICE3", "SBUS_UDP"}
Packets(f) == f.parser \notin SbusParsers \union {"CRSF"}

(* The interfaces on which a routing flow may hear a system; a packet for    *)
(* that system is then given to the sender of the interface, whatever the    *)
(* flow's own mask.                                                          *)
RoutesMavlink == config.routing /\ config.proto = "MAVLINK"
Heard == {f.phys : f \in {g \in flows : RoutesMavlink /\ g.parser = "MAVLINK"}}

(* The senders some packet is queued for. *)
Queued == {s \in senders : s \in Heard \/ \E f \in flows : Packets(f) /\ s \in f.to}

(* initDevices(): the SBUS sources that are registered with the router. *)
Sources == If(config.d1 = "SBUS_IN", {"SBUS_DEVICE1"})
             \union If(config.d2 = "SBUS_IN", {"SBUS_DEVICE2"})
             \union If(config.d3 = "SBUS_IN", {"SBUS_DEVICE3"})
             \union If(config.d4 = "SBUS_UDP_RX", {"SBUS_UDP"})

-----------------------------------------------------------------------------
(* Properties                                                               *)

BootTypeOK == /\ build \in Builds /\ config \in AllConfigs /\ quick \in BOOLEAN
              /\ pc \in {"load", "mode", "bluetooth", "devices", "tasks",
                         "bridge", "register", "running"}
              /\ mode \in {"STANDALONE", "NET"}
              /\ present \subseteq {"uart1", "usb", "dev2", "dev3", "udp", "udpRx", "bt"}
              /\ tasks \subseteq {"bridge", "sender"}
              /\ Cardinality(flows) <= MAX_FLOWS
              /\ outputs \subseteq senders
              /\ senders \subseteq {"USB", "UART2", "UART3", "UDP", "UART1", "BT"}

(* Every queue that can receive a packet is emptied: the sender task exists  *)
(* and does not pass over it (UART1 has a service of its own).  Three lists  *)
(* of roles, in main.cpp, setupFlows() and processSenders(), have to agree.  *)
QueuesAreServed ==
    pc = "running" =>
        \A s \in Queued \ {"UART1"} : "sender" \in tasks /\ s \notin Skipped(config)

(* Without an SBUS or CRSF device, a role that bridges to the flight         *)
(* controller does so in both directions: telemetry goes to its sender, and  *)
(* a flow the bridge loop feeds goes back.  The Bluetooth bridge of the BLE  *)
(* firmware is left out (it allocates no buffer for the way back), and with  *)
(* SBUS among the roles setupFlows() drops the bridges' input flows.         *)
Bridging == If(config.d2 = "USB", {"USB"}) \union If(config.d2 = "UART2", {"UART2"})
              \union If(config.d3 = "UART3_BRIDGE", {"UART3"})
              \union If(config.d4 = "NETWORK_BRIDGE" /\ mode = "NET", {"UDP"})
              \union If(config.d5 = "BT_BRIDGE" /\ "bt" \in present, {"BT"})
TwoWay(s) == /\ s \in senders
             /\ \E f \in flows : f.phys = "UART1" /\ s \in f.to /\ Packets(f)
             /\ \E f \in flows : /\ f.phys = s /\ "UART1" \in f.to /\ Packets(f)
                                 /\ f.input /\ f.buf \in Fed
PlainBridge == /\ pc = "running" /\ "uart1" \in present
               /\ config.d1 = "UART1" /\ ~HasSbusDevice(config)
BridgesBothWays ==
    PlainBridge => \A s \in Bridging \ If(build = "ble", {"BT"}) : TwoWay(s)

(* With a configuration the web interface accepts, every wired SBUS source   *)
(* has a flow that is fed and names that source, and the router has an       *)
(* output for its frames unless the interface of the only one is down; the   *)
(* network source has one when a wired output is configured.                 *)
SbusReachesOutputs ==
    pc = "running" /\ "uart1" \in present /\ Accepted(build, config) =>
        /\ \A src \in Sources \ {"SBUS_UDP"} :
              \E f \in flows : f.parser = src /\ f.buf \in Fed /\ f.input
        /\ Sources # {} => \/ outputs # {}
                           \/ config.d4 = "SBUS_UDP_TX" /\ "udp" \notin present
                           \/ config.d5 = "BT_SBUS_TEXT" /\ "bt" \notin present
        /\ "SBUS_UDP" \in Sources /\ mode = "NET" /\ outputs \cap {"UART2", "UART3"} # {} =>
              \E f \in flows : f.parser = "SBUS_UDP" /\ f.buf \in Fed
=============================================================================
