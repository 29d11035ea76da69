----------------------------- MODULE MCReadiness -----------------------------
(* A small instance of Readiness for TLC: one attempt at a time. *)
EXTENDS Readiness

CONSTANT k1

OneAttempt == {k1}
==============================================================================
