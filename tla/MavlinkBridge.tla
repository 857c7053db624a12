--------------------------- MODULE MavlinkBridge ---------------------------
(***************************************************************************)
(* A device from its boot to its traffic.  BridgeSetup makes the flows;    *)
(* once the bridge loop runs, MavlinkRouter routes the packets of those    *)
(* that parse MAVLink.  A restart makes the flows anew and forgets what    *)
(* the router has learned.                                                 *)
(***************************************************************************)
EXTENDS MavlinkRouter, BridgeSetup

CONSTANT Followed   \* the devices whose packets are followed: a build and a mode

bridgeVars == <<vars, bootVars>>

(* The MAVLink flows of the interface q, and where they offer its packets. *)
MavlinkFlows(q) == {f \in flows : f.phys = q /\ f.parser = "MAVLINK"}
Offered(q) == UNION {f.to : f \in MavlinkFlows(q)}

(* The pipeline routes, and its flows are those of the router's constants. *)
Routing == /\ pc = "running" /\ RoutesMavlink
           /\ [build |-> build, config |-> config, mode |-> mode] \in Followed
           /\ Heard = Ifaces /\ \A q \in Ifaces : Offered(q) = Mask[q]

BridgeInit == Init /\ BootInit

(* The router's state after a restart, as in Init. *)
Forgets == book' = {} /\ calls' = 0 /\ flow' = None /\ last' = None /\ heard' = Unheard

Boots == /\ BootNext
         /\ \/ pc # "running" /\ UNCHANGED vars
            \/ pc = "running" /\ Forgets

Routes(Step) == Routing /\ Step /\ UNCHANGED bootVars

BridgeNext == Boots \/ Routes(Next)

(* Packets keep coming (a flight controller sends a heartbeat every second), *)
(* and the bridge task finishes what it begins.                              *)
Fairness == /\ WF_bridgeVars(Routes(\E q \in Ifaces : Begin(q)))
            /\ WF_bridgeVars(Routes(last = None /\
                   \E s, t \in Systems \union {NoSys}, bcast \in BOOLEAN : Route(s, t, bcast)))
            /\ SF_bridgeVars(Routes(End))

BridgeSpec == BridgeInit /\ [][BridgeNext]_bridgeVars /\ Fairness
=============================================================================
