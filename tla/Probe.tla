-------------------------------- MODULE Probe --------------------------------
(***************************************************************************)
(* The readiness probe: Probe.Run supervises one Check after another, and  *)
(* each Check runs its attempt (dial, channel, two passive declarations) in*)
(* a goroutine of its own that it does not wait for.  Attempts that a Check*)
(* gave up on go on beside the later ones.                                 *)
(*                                                                         *)
(* The broker is external: it is reachable or not, and what the consumer's *)
(* connect has declared so far grows from nothing to the exchange to both. *)
(* An AMQP close is a call like the others: it waits for the broker's reply*)
(* or the loss of the connection, with no deadline of its own.             *)
(***************************************************************************)
EXTENDS Backoff, FiniteSets

CONSTANTS
    Attempts,       \* slots for attempts whose goroutine is alive
    MaxOutages      \* bound on how often the broker goes away

ASSUME AttemptsAssumption == IsFiniteSet(Attempts) /\ Attempts # {}
ASSUME MaxOutagesAssumption == MaxOutages \in Nat

VARIABLES
    (* Run and Check *)
    pc,         \* where the supervising goroutine is
    cancelled,  \* the run context is cancelled
    ready,      \* main's readiness flag, set by onReady
    lost,       \* a loss was logged and no recovery since
    retryDelay, \* the next retry's delay in seconds
    now,        \* the attempt of the current or last Check
    (* the attempts *)
    step,       \* step[k]: where attempt k's goroutine is
    conn,       \* conn[k]: its connection
    dialed,     \* dialed[k]: the buffered channel of that name
    done,       \* done[k]: the buffered channel of that name
    over,       \* over[k]: attemptCtx is done
    aborted,    \* history: Check left k while it was still dialing
    (* the broker *)
    up, topology, outages,
    (* history *)
    streak,     \* failed Checks since the last success, at most 6
    verified       \* verified[k]: k was told that exchange and queue exist

runVars == <<pc, cancelled, ready, lost, retryDelay, now, streak>>
attemptVars == <<step, conn, dialed, done, over, aborted, verified>>
brokerVars == <<up, topology, outages>>
vars == <<runVars, attemptVars, brokerVars>>

InCheck == {"dialing", "declaring", "closing"}

Init ==
    /\ pc = "top" /\ cancelled = FALSE /\ ready = FALSE /\ lost = FALSE
    /\ retryDelay = BackoffInitial /\ streak = 0
    /\ now \in Attempts
    /\ step = [k \in Attempts |-> "ended"]
    /\ conn = [k \in Attempts |-> "none"]
    /\ dialed = [k \in Attempts |-> "empty"]
    /\ done = [k \in Attempts |-> "empty"]
    /\ over = [k \in Attempts |-> FALSE]
    /\ aborted = [k \in Attempts |-> FALSE]
    /\ verified = [k \in Attempts |-> FALSE]
    /\ up = TRUE /\ outages = 0
    \* Durable objects may be there from an earlier process.
    /\ topology \in {"none", "exchange", "both"}

-----------------------------------------------------------------------------
(* Faulty variants, not part of Next.                                      *)

\* CheckCloses without the close: Check leaves it to the goroutine.
ConnectionClosesNot(k) == UNCHANGED conn

\* TimesOut for broken connections only: the select waits for the result.
TimesOutNever(k) ==
    /\ pc = "declaring" /\ now = k /\ conn[k] = "closed"

\* TakesResult from a channel shared by all attempts: it may hold the result
\* of one that an earlier Check gave up on.
TakesAnyResult(k) ==
    /\ pc = "declaring" /\ now = k
    /\ \E j \in Attempts : done[j] = "ok" /\ (j = k \/ aborted[j])

\* AttemptCloses that forgets to send its result.
AttemptClosesMute(k) ==
    /\ step[k] \in {"succeeding", "failing"}
    /\ step' = [step EXCEPT ![k] = "ended"]
    /\ conn' = [conn EXCEPT ![k] = "closed"]
    /\ UNCHANGED <<dialed, done, over, aborted, verified, runVars, brokerVars>>

\* The success branch of Run without the reset of the retry delay.
SucceedsUnreset ==
    /\ ready' = TRUE /\ lost' = FALSE /\ streak' = 0
    /\ pc' = "resting" /\ UNCHANGED retryDelay

\* The success branch of Run without the recovery transition.
SucceedsSilently ==
    /\ ready' = TRUE /\ UNCHANGED lost /\ streak' = 0
    /\ pc' = "resting" /\ retryDelay' = BackoffInitial

-----------------------------------------------------------------------------
(* Run, and the ends of Check.                                             *)

\* The context check; then Check starts its attempt in a free slot.
Top ==
    /\ pc = "top"
    /\ cancelled
    /\ pc' = "stopped"
    /\ UNCHANGED <<cancelled, ready, lost, retryDelay, now, streak,
                   attemptVars, brokerVars>>

StartCheck(k) ==
    /\ pc = "top" /\ ~cancelled
    /\ step[k] = "ended"
    /\ pc' = "dialing"
    /\ now' = k
    /\ step' = [step EXCEPT ![k] = "dial"]
    /\ conn' = [conn EXCEPT ![k] = "none"]
    /\ dialed' = [dialed EXCEPT ![k] = "empty"]
    /\ done' = [done EXCEPT ![k] = "empty"]
    /\ over' = [over EXCEPT ![k] = FALSE]
    /\ aborted' = [aborted EXCEPT ![k] = FALSE]
    /\ verified' = [verified EXCEPT ![k] = FALSE]
    /\ UNCHANGED <<cancelled, ready, lost, retryDelay, streak, brokerVars>>

\* Check returned an error: a ready probe logs the loss once; then the sleep.
Fails ==
    /\ lost' = (lost \/ ready)
    /\ streak' = IF streak < 6 THEN streak + 1 ELSE streak
    /\ pc' = "retrying"
    /\ UNCHANGED <<ready, retryDelay>>

\* Check returned nil: readiness, or a recovery; the retry delay starts over.
Succeeds ==
    /\ ready' = TRUE /\ lost' = FALSE /\ streak' = 0
    /\ pc' = "resting" /\ retryDelay' = BackoffInitial

\* Check's deferred cancel.
EndAttempt(k) == over' = [over EXCEPT ![k] = TRUE]

\* First select: the dial's result ...
CheckDialed(k) ==
    /\ pc = "dialing" /\ now = k /\ dialed[k] = "ok"
    /\ pc' = "declaring"
    /\ UNCHANGED <<cancelled, ready, lost, retryDelay, now, streak,
                   attemptVars, brokerVars>>

CheckDialFailed(k) ==
    /\ pc = "dialing" /\ now = k /\ dialed[k] = "error"
    /\ Fails /\ EndAttempt(k)
    /\ UNCHANGED <<cancelled, now, step, conn, dialed, done, aborted, verified,
                   brokerVars>>

\* ... or the end of the attempt.  Nothing is closed here.
CheckAborts(k) ==
    /\ pc = "dialing" /\ now = k /\ over[k]
    /\ aborted' = [aborted EXCEPT ![k] = TRUE]
    /\ Fails /\ EndAttempt(k)
    /\ UNCHANGED <<cancelled, now, step, conn, dialed, done, verified, brokerVars>>

\* Second select: the attempt's result ...
TakesResult(k) ==
    /\ pc = "declaring" /\ now = k
    /\ done[k] = "ok"

CheckSucceeds(k) ==
    /\ TakesResult(k)
    /\ Succeeds /\ EndAttempt(k)
    /\ UNCHANGED <<cancelled, now, step, conn, dialed, done, aborted, verified,
                   brokerVars>>

CheckFails(k) ==
    /\ pc = "declaring" /\ now = k /\ done[k] = "error"
    /\ Fails /\ EndAttempt(k)
    /\ UNCHANGED <<cancelled, now, step, conn, dialed, done, aborted, verified,
                   brokerVars>>

\* ... or the end of the attempt: Check calls conn.Close ...
TimesOut(k) ==
    /\ pc = "declaring" /\ now = k /\ over[k]

CheckTimesOut(k) ==
    /\ TimesOut(k)
    /\ pc' = "closing"
    /\ UNCHANGED <<cancelled, ready, lost, retryDelay, now, streak,
                   attemptVars, brokerVars>>

\* The close is answered, or the connection is gone: the RPC that the goroutine
\* waits for fails.
ConnectionCloses(k) == conn' = [conn EXCEPT ![k] = "closed"]

\* ... and returns when that does.
CheckCloses(k) ==
    /\ pc = "closing" /\ now = k
    /\ ConnectionCloses(k)
    /\ Fails /\ EndAttempt(k)
    /\ UNCHANGED <<cancelled, now, step, dialed, done, aborted, verified,
                   brokerVars>>

\* The sleeps: the timer, or the context.
RetryElapses ==
    /\ pc = "retrying"
    /\ pc' = "top"
    /\ retryDelay' = NextRetryDelay(retryDelay)
    /\ UNCHANGED <<cancelled, ready, lost, now, streak, attemptVars, brokerVars>>

RestElapses ==
    /\ pc = "resting"
    /\ pc' = "top"
    /\ UNCHANGED <<cancelled, ready, lost, retryDelay, now, streak,
                   attemptVars, brokerVars>>

SleepCancelled ==
    /\ pc \in {"retrying", "resting"} /\ cancelled
    /\ pc' = "stopped"
    /\ UNCHANGED <<cancelled, ready, lost, retryDelay, now, streak,
                   attemptVars, brokerVars>>

-----------------------------------------------------------------------------
(* The attempt's goroutine.                                                *)

\* A dial can succeed when its context is already done: the deadline expires
\* as the handshake ends, or a cancellation comes after the TCP dial.
DialSucceeds(k) ==
    /\ step[k] = "dial" /\ up
    /\ step' = [step EXCEPT ![k] = "channel"]
    /\ conn' = [conn EXCEPT ![k] = "open"]
    /\ dialed' = [dialed EXCEPT ![k] = "ok"]
    /\ UNCHANGED <<done, over, aborted, verified, runVars, brokerVars>>

DialFails(k) ==
    /\ step[k] = "dial"
    /\ step' = [step EXCEPT ![k] = "ended"]
    /\ dialed' = [dialed EXCEPT ![k] = "error"]
    /\ done' = [done EXCEPT ![k] = "error"]
    /\ UNCHANGED <<conn, over, aborted, verified, runVars, brokerVars>>

\* An RPC of checkTopology is answered.
ChannelOpens(k) ==
    /\ step[k] = "channel" /\ conn[k] = "open" /\ up
    /\ step' = [step EXCEPT ![k] = "exchange"]
    /\ UNCHANGED <<conn, dialed, done, over, aborted, verified, runVars, brokerVars>>

ExchangeExists(k) ==
    /\ step[k] = "exchange" /\ conn[k] = "open" /\ up
    /\ topology # "none"
    /\ step' = [step EXCEPT ![k] = "queue"]
    /\ UNCHANGED <<conn, dialed, done, over, aborted, verified, runVars, brokerVars>>

QueueExists(k) ==
    /\ step[k] = "queue" /\ conn[k] = "open" /\ up
    /\ topology = "both"
    /\ step' = [step EXCEPT ![k] = "succeeding"]
    /\ verified' = [verified EXCEPT ![k] = TRUE]
    /\ UNCHANGED <<conn, dialed, done, over, aborted, runVars, brokerVars>>

\* An RPC fails: the object is missing, or the connection is closed or broken.
RpcFails(k) ==
    /\ \/ step[k] \in {"channel", "exchange", "queue"}
          /\ (conn[k] = "closed" \/ ~up)
       \/ step[k] = "exchange" /\ topology = "none"
       \/ step[k] = "queue" /\ topology # "both"
    /\ step' = [step EXCEPT ![k] = "failing"]
    /\ UNCHANGED <<conn, dialed, done, over, aborted, verified, runVars, brokerVars>>

\* The deferred closes of channel and connection return; only then is the
\* result sent.
AttemptCloses(k) ==
    /\ step[k] \in {"succeeding", "failing"}
    /\ step' = [step EXCEPT ![k] = "ended"]
    /\ ConnectionCloses(k)
    /\ done' = [done EXCEPT ![k] = IF step[k] = "succeeding" THEN "ok" ELSE "error"]
    /\ UNCHANGED <<dialed, over, aborted, verified, runVars, brokerVars>>

-----------------------------------------------------------------------------
(* The world.                                                              *)

\* The attempt's timer fires.
AttemptExpires(k) ==
    /\ pc \in InCheck /\ now = k /\ ~over[k]
    /\ over' = [over EXCEPT ![k] = TRUE]
    /\ UNCHANGED <<step, conn, dialed, done, aborted, verified, runVars, brokerVars>>

\* SIGTERM: the attempt's context is a child of the run context.
Terminate ==
    /\ ~cancelled
    /\ cancelled' = TRUE
    /\ over' = [k \in Attempts |-> over[k] \/ (pc \in InCheck /\ now = k)]
    /\ UNCHANGED <<pc, ready, lost, retryDelay, now, streak, step, conn, dialed,
                   done, aborted, verified, brokerVars>>

BrokerGoes ==
    /\ up /\ outages < MaxOutages
    /\ up' = FALSE /\ outages' = outages + 1
    /\ UNCHANGED <<topology, runVars, attemptVars>>

BrokerComes ==
    /\ ~up /\ up' = TRUE
    /\ UNCHANGED <<topology, outages, runVars, attemptVars>>

\* The consumer's connect declares the exchange, then the queue.
ConsumerDeclares ==
    /\ up
    /\ \/ topology = "none" /\ topology' = "exchange"
       \/ topology = "exchange" /\ topology' = "both"
    /\ UNCHANGED <<up, outages, runVars, attemptVars>>

\* Run has returned and every attempt has ended.
Terminated ==
    /\ pc = "stopped" /\ \A k \in Attempts : step[k] = "ended"
    /\ UNCHANGED vars

-----------------------------------------------------------------------------
Check(k) ==
    \/ StartCheck(k) \/ CheckDialed(k) \/ CheckDialFailed(k) \/ CheckAborts(k)
    \/ CheckSucceeds(k) \/ CheckFails(k) \/ CheckTimesOut(k)

\* The steps that wait for no reply of the broker.
RunsOn ==
    \/ Top \/ RetryElapses \/ RestElapses \/ SleepCancelled
    \/ \E k \in Attempts : Check(k)

Supervisor == RunsOn \/ \E k \in Attempts : CheckCloses(k)

Attempt(k) ==
    \/ DialSucceeds(k) \/ DialFails(k) \/ ChannelOpens(k) \/ ExchangeExists(k)
    \/ QueueExists(k) \/ RpcFails(k) \/ AttemptCloses(k)

Next ==
    \/ Supervisor
    \/ \E k \in Attempts : Attempt(k) \/ AttemptExpires(k)
    \/ Terminate \/ BrokerGoes \/ BrokerComes \/ ConsumerDeclares
    \/ Terminated

Spec == Init /\ [][Next]_vars

\* The supervising goroutine and the attempt's timer run.  Nothing is assumed
\* of a broker that heartbeats: it may never answer a declaration or a close.
\* Dials end by their deadline, calls on a closed connection fail, and so does
\* a close while the broker is gone.
Fairness ==
    /\ WF_vars(RunsOn)
    /\ \A k \in Attempts :
          /\ WF_vars(AttemptExpires(k))
          /\ WF_vars(over[k] /\ DialFails(k))
          /\ WF_vars(conn[k] = "closed" /\ (RpcFails(k) \/ AttemptCloses(k)))
          /\ WF_vars((conn[k] = "closed" \/ ~up) /\ CheckCloses(k))

StalledSpec == Spec /\ Fairness

\* A broker that may never answer a declaration, but answers a close.
ClosingSpec == StalledSpec /\ \A k \in Attempts : WF_vars(CheckCloses(k))

-----------------------------------------------------------------------------
TypeOK ==
    /\ pc \in InCheck \cup {"top", "retrying", "resting", "stopped"}
    /\ cancelled \in BOOLEAN /\ ready \in BOOLEAN /\ lost \in BOOLEAN
    /\ retryDelay \in 1..30
    /\ now \in Attempts
    /\ step \in [Attempts -> {"dial", "channel", "exchange", "queue", "succeeding",
                             "failing", "ended"}]
    /\ conn \in [Attempts -> {"none", "open", "closed"}]
    /\ dialed \in [Attempts -> {"empty", "ok", "error"}]
    /\ done \in [Attempts -> {"empty", "ok", "error"}]
    /\ over \in [Attempts -> BOOLEAN]
    /\ aborted \in [Attempts -> BOOLEAN]
    /\ verified \in [Attempts -> BOOLEAN]
    /\ up \in BOOLEAN /\ topology \in {"none", "exchange", "both"}
    /\ outages \in 0..MaxOutages
    /\ streak \in 0..6

\* A Check that succeeds was told, by its own attempt and over one connection
\* that is closed by now, that exchange and queue exist: no result of an
\* attempt given up on earlier makes the service ready or ends a loss.
SuccessIsProven ==
    pc = "resting" => ready /\ verified[now] /\ conn[now] = "closed"

\* A Check leaves a connection open behind it only if it gave up on the dial;
\* one that timed out over a declaration has closed it.
OnlyAbortedDialsLinger ==
    \A k \in Attempts :
        conn[k] = "open" /\ ~(pc \in InCheck /\ now = k) => aborted[k]

\* "connectivity lost" is logged at the first failed Check of a ready probe and
\* "restored" at the next success, over any sequence of failures.
LossTracksChecks == lost <=> ready /\ streak > 0

\* The probe's running delay is the consumer's backoff for as many failures in
\* a row, and a success, at readiness or later, starts it over.
RetryFollowsBackoff ==
    pc = "retrying" => retryDelay = BackoffDelay(streak)

\* What relates an attempt's goroutine, its channels and its connection, and
\* the Check that waits for it.
AttemptsAreConsistent ==
    \A k \in Attempts :
        /\ conn[k] = "open" => step[k] \notin {"dial", "ended"}
        /\ step[k] = "succeeding" => verified[k]
        /\ step[k] = "dial" => conn[k] = "none" /\ dialed[k] = "empty"
        /\ done[k] # "empty" => step[k] = "ended"
        /\ done[k] = "ok" => verified[k] /\ conn[k] = "closed"
        /\ dialed[k] = "ok" => conn[k] # "none"
        /\ dialed[k] = "error" => conn[k] # "open"
        /\ step[k] = "dial" /\ ~(pc \in InCheck /\ now = k) => aborted[k]
        /\ pc \in {"declaring", "closing"} /\ now = k => dialed[k] = "ok"

DelayIsOnSchedule ==
    pc # "stopped" =>
        retryDelay = BackoffDelay(IF pc = "retrying" THEN streak ELSE streak + 1)

\* The inductive invariant of ProbeProofs.
IInv ==
    /\ TypeOK
    /\ SuccessIsProven
    /\ OnlyAbortedDialsLinger
    /\ LossTracksChecks
    /\ AttemptsAreConsistent
    /\ DelayIsOnSchedule
    /\ pc = "retrying" => streak > 0

\* "The dialer cannot outlive the attempt ... so there is nothing to close yet".
AbortLeavesNothingOpen ==
    \A k \in Attempts : aborted[k] => conn[k] # "open"

\* "Each attempt is bounded by a 5s timeout", and "a broker that ignores the
\* close must not extend Check's bound": Check returns, though no declaration be
\* answered.  It does if closes are (ClosingSpec), and not without (StalledSpec).
CheckReturns == pc \in InCheck ~> pc \notin InCheck

\* Shutdown ends Run from wherever it is, a stalled declaration included, if the
\* close that is to end the stall is answered.
ShutdownStopsProbe == cancelled ~> pc = "stopped"

\* From some time on the broker is there and answers, a dial repeated for ever
\* succeeds, the selects' random choices do not pass over a result for ever, the
\* consumer declares its topology, and no attempt is cut off at work.
Served ==
    /\ WF_vars(BrokerComes) /\ WF_vars(ConsumerDeclares)
    /\ \A k \in Attempts : WF_vars(Attempt(k)) /\ SF_vars(DialSucceeds(k))
                         /\ SF_vars(CheckDialed(k)) /\ SF_vars(CheckSucceeds(k))
    /\ <>[][\A k \in Attempts : AttemptExpires(k) => step[k] = "ended"]_vars

\* A probe that is served becomes ready, however many attempts failed or linger
\* from before.
EventuallyReady == Served /\ []~cancelled => <>ready
==============================================================================
