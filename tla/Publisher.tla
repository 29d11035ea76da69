------------------------------ MODULE Publisher ------------------------------
(***************************************************************************)
(* GoToSocialPublisher.publish: up to MaxPublishRetries attempts to POST a *)
(* status, each under the caller's context and the client's 20 s timeout,  *)
(* with a plain time.Sleep between them.  The sleep and the loop ignore the*)
(* context; a request made with a cancelled context fails without being    *)
(* sent.  The instance is external: a request that the client gave up on   *)
(* (lost or late answer, cancelled wait, killed process) may be carried out*)
(* all the same, at any later time or never.                               *)
(*                                                                         *)
(* The form fields (audience, recipient, text) and the status ID are left  *)
(* out: no control depends on them.                                        *)
(***************************************************************************)
EXTENDS Signals

CONSTANT MaxPublishRetries      \* maxPublishRetries: attempts, not retries

ASSUME RetriesAssumption == MaxPublishRetries \in Nat \ {0}

VARIABLES
    req,        \* req[r]: where r's publish call is
    attempt,    \* attempt[r]: the loop variable of that call, 0 outside one
    posts,      \* posts[m]: statuses the instance has created for signal m
    pending,    \* pending[m]: requests given up on, which it may yet carry out
    unanswered  \* history: the statuses created by those

publisherVars == <<req, attempt, posts, pending, unanswered>>

PublisherTypeOK ==
    /\ req \in [Replicas -> {"idle", "attempt", "inflight", "sleep"}]
    /\ attempt \in [Replicas -> 0..(MaxPublishRetries - 1)]
    /\ posts \in [Messages -> Nat]
    /\ pending \in [Messages -> Nat]
    /\ unanswered \in [Messages -> Nat]

PublisherInit ==
    /\ req = [r \in Replicas |-> "idle"]
    /\ attempt = [r \in Replicas |-> 0]
    /\ posts = [m \in Messages |-> 0]
    /\ pending = [m \in Messages |-> 0]
    /\ unanswered = [m \in Messages |-> 0]

\* Entering publish.
CallPublish(r) ==
    /\ req' = [req EXCEPT ![r] = "attempt"]
    /\ attempt' = [attempt EXCEPT ![r] = 0]
    /\ UNCHANGED <<posts, pending, unanswered>>

\* client.Do puts the request on the wire.
Send(r) ==
    /\ req[r] = "attempt"
    /\ req' = [req EXCEPT ![r] = "inflight"]
    /\ UNCHANGED <<attempt, posts, pending, unanswered>>

\* A 2xx answer: publish returns nil.
Answered(r, m) ==
    /\ req[r] = "inflight"
    /\ req' = [req EXCEPT ![r] = "idle"]
    /\ attempt' = [attempt EXCEPT ![r] = 0]
    /\ posts' = [posts EXCEPT ![m] = @ + 1]
    /\ UNCHANGED <<pending, unanswered>>

\* r is done with its request for m: one that is on the wire stays with the
\* instance, which may carry it out long after a retry or a redelivery.  A
\* request that it refused is among those it never carries out.
GiveUp(r, m) ==
    /\ pending' = [pending EXCEPT ![m] = IF req[r] = "inflight" THEN @ + 1 ELSE @]
    /\ UNCHANGED <<posts, unanswered>>

\* The instance carries out a request that nobody waits for any more.
CarryOut(m) ==
    /\ pending[m] > 0
    /\ pending' = [pending EXCEPT ![m] = @ - 1]
    /\ posts' = [posts EXCEPT ![m] = @ + 1]
    /\ unanswered' = [unanswered EXCEPT ![m] = @ + 1]
    /\ UNCHANGED <<req, attempt>>

\* An attempt fails: an unsent request, a transport error, a timeout, a
\* cancelled wait, or a non-2xx answer.
Fails(r, m) ==
    /\ req[r] \in {"attempt", "inflight"}
    /\ GiveUp(r, m)

\* Faulty variant: the loop's bound compared one attempt too late.
RetriesLeftLate(r) == attempt[r] < MaxPublishRetries

RetriesLeft(r) == attempt[r] < MaxPublishRetries - 1

\* ... and publish goes to sleep before the next attempt.
FailsAndSleeps(r, m) ==
    /\ Fails(r, m) /\ RetriesLeft(r)
    /\ req' = [req EXCEPT ![r] = "sleep"]
    /\ UNCHANGED attempt

\* ... or publish returns the last error.
FailsForGood(r, m) ==
    /\ Fails(r, m) /\ ~RetriesLeft(r)
    /\ req' = [req EXCEPT ![r] = "idle"]
    /\ attempt' = [attempt EXCEPT ![r] = 0]

\* time.Sleep is over.
Wake(r) ==
    /\ req[r] = "sleep"
    /\ req' = [req EXCEPT ![r] = "attempt"]
    /\ attempt' = [attempt EXCEPT ![r] = @ + 1]
    /\ UNCHANGED <<posts, pending, unanswered>>

\* The process dies.
AbandonPublish(r, m) ==
    /\ GiveUp(r, m)
    /\ req' = [req EXCEPT ![r] = "idle"]
    /\ attempt' = [attempt EXCEPT ![r] = 0]
==============================================================================
