--------------------------- MODULE BatchingSender ---------------------------
(***************************************************************************)
(* What the UDP and USB senders have in common: processSenders() tells     *)
(* each call in which mode it is, and packets may wait for others.         *)
(***************************************************************************)
EXTENDS UnlockedSender

CONSTANT Unset        \* a time stamp that is 0

ASSUME UnsetAssumption == Unset \notin Nat

VARIABLES
    bulk,             \* bulkMode of this call
    lastBulkMode      \* bulkMode of the call before
=============================================================================
