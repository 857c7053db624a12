------------------------------ MODULE MCUart1Tx ------------------------------
(* Instance of Uart1Tx: a ring of four places (three bytes), packets of one *)
(* to three bytes, a driver's buffer smaller than the ring, and a limit per *)
(* call that the first or the second segment can reach.                    *)
EXTENDS Uart1Tx

MCTasks == {"bridge", "web"}
MCSizes == {1, 3}
=============================================================================
