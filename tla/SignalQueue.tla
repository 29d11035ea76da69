----------------------------- MODULE SignalQueue -----------------------------
(***************************************************************************)
(* What the service promises about the signals in its queue, with no       *)
(* channels, sessions, attempts or processes: each signal is settled once, *)
(* with a completed outcome that is true of it, and statuses are created   *)
(* for decodable signals only, at least one before a signal counts as      *)
(* published.  Statuses may be created more than once.                     *)
(***************************************************************************)
EXTENDS Naturals

CONSTANTS Messages, Poison

VARIABLES posts, verdict

vars == <<posts, verdict>>

Init ==
    /\ posts = [m \in Messages |-> 0]
    /\ verdict = [m \in Messages |-> "none"]

\* The instance creates a status for a signal.
Post(m) ==
    /\ m \notin Poison
    /\ posts' = [posts EXCEPT ![m] = @ + 1]
    /\ UNCHANGED verdict

\* A signal leaves the queue with its final outcome.
Settle(m) ==
    /\ verdict[m] = "none"
    /\ \E v \in {"poison", "skipped", "failed", "published"} :
          /\ v = "poison" <=> m \in Poison
          /\ v = "published" => posts[m] > 0
          /\ verdict' = [verdict EXCEPT ![m] = v]
    /\ UNCHANGED posts

Next == \E m \in Messages : Post(m) \/ Settle(m)

Safe == Init /\ [][Next]_vars

Spec == Safe /\ \A m \in Messages : WF_vars(Settle(m))
==============================================================================
