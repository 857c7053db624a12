---------------------------- MODULE MCLifecycle ----------------------------
(* Configurations that tell every guard of Lifecycle apart. *)
EXTENDS Lifecycle

C(a, n, d, b) == [atBoot |-> a, client |-> n, device4 |-> d, bluetooth |-> b]
MCConfigs == {Default, C("temporary", TRUE, TRUE, FALSE),
              C("always", FALSE, TRUE, FALSE), C("disabled", TRUE, FALSE, TRUE)}
=============================================================================
