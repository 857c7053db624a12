-------------------------- MODULE MCBluetoothSender --------------------------
(***************************************************************************)
(* Small instances of BluetoothSender.  Two queue slots and four bytes     *)
(* stand for 20 slots and 8192 bytes (SPP) or 16 and 4096 (BLE): with the  *)
(* sizes below both limits are reached, separately and together.           *)
(***************************************************************************)
EXTENDS BluetoothSender

\* One small packet, one that nearly fills the byte limit, one too long.
MCSizes == {1, 3, 5}
=============================================================================
