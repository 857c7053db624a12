---------------------------- MODULE MCUdpSender ----------------------------
(***************************************************************************)
(* The real constants of udp_sender.h, except that three packets stand for  *)
(* the five of a bulk batch, with a queue of two packets and sizes that     *)
(* reach the byte limits of the queue, of both modes and the MTU; the       *)
(* periods of common SBUS receivers, and rates over the whole range.        *)
(***************************************************************************)
EXTENDS UdpSender

Modes(bulkMode, normal) == [b \in BOOLEAN |-> IF b THEN bulkMode ELSE normal]
MCPackets == Modes(3, 2)
MCBytes == Modes(1200, 600)
MCTimeout == Modes(20, 5)
MCSizes == {280, 800}
MCGaps == {4}
MCPeriods == {7, 9, 14, 20}
MCRates == {10, 20, 30, 40, 50, 60, 70}
=============================================================================
