-------------------------------- MODULE MCProbe ------------------------------
(* A small instance of Probe for TLC: two overlapping attempts. *)
EXTENDS Probe

CONSTANTS k1, k2

TwoAttempts == {k1, k2}
==============================================================================
