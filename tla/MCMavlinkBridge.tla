-------------------------- MODULE MCMavlinkBridge --------------------------
(* Every combination of the device roles.  setup() derives the protocol from *)
(* the roles, so a configuration with a receiver among them comes out the    *)
(* same whatever protocol was saved, and one without comes out the same with *)
(* NONE, SBUS or CRSF saved: SBUS is saved for all of these, MAVLink where   *)
(* it lasts, and routing is only read with MAVLink.  (The terminal protocol  *)
(* differs from NONE in the parser alone.)  Packets are followed on a device *)
(* with a flight controller on UART1 and a ground station on USB.            *)
EXTENDS MavlinkBridge

MCConfigs == {c \in AllConfigs : /\ c.routing => c.proto = "MAVLINK"
                                 /\ \/ c.proto = "SBUS"
                                    \/ c.proto = "MAVLINK" /\ ProtocolOf(c) = "MAVLINK"}
MCMask == [q \in Ifaces |-> IF q = "UART1" THEN Ifaces \ {"UART1"} ELSE {"UART1"}]
MCFollowed == {[build |-> "plain", mode |-> "STANDALONE",
                config |-> [d1 |-> "UART1", d2 |-> "USB", d3 |-> "NONE", d4 |-> "NONE",
                            d5 |-> "NONE", proto |-> "MAVLINK", routing |-> TRUE]]}
=============================================================================
