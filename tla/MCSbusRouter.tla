---------------------------- MODULE MCSbusRouter ----------------------------
(***************************************************************************)
(* Small instances of SbusRouter.  The thresholds keep their order: 20, 30, *)
(* 40, 50 and 100 ms are 1 to 5 units, 500 ms are 6.                       *)
(***************************************************************************)
EXTENDS SbusRouter

MCNone  == {}
MCFirst == {0}
MCTwo   == {0, UDP}
=============================================================================
