---------------------------- MODULE MCUartSender ----------------------------
(***************************************************************************)
(* Small instances of UartSender.  Two queue slots and three bytes stand   *)
(* for 20 and 8192: either limit can be the one that forces an eviction,   *)
(* and packets of two bytes can be sent in two parts.                      *)
(***************************************************************************)
EXTENDS UartSender

MCSizes == {1, 2}
=============================================================================
