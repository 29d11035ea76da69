------------------------------- MODULE Consumer ------------------------------
(***************************************************************************)
(* The stocker-informer process: Consumer.Run's supervision of one broker  *)
(* session after another, consume's delivery loop, handleDelivery's        *)
(* pipeline with its publish call, settlement, and the shutdown that can   *)
(* interrupt any of it; several replicas of the process on one queue.      *)
(*                                                                         *)
(* A replica is one goroutine, so it has one program counter pc[r].  It    *)
(* stops at every point where the outside can change something the code    *)
(* reads next: a context check, a channel receive, an I/O call.            *)
(*                                                                         *)
(*   top -> connecting -> connected -> loop <-> select -> ended -> backoff *)
(*                                      ^         |                        *)
(*                                      |         v                        *)
(*                                      +--- begin/read/rewrite/publish/   *)
(*                                           settle                        *)
(*   and, once the context is cancelled, drain -> ended -> returned.       *)
(***************************************************************************)
EXTENDS Broker, Publisher, Backoff

CONSTANTS
    RewriterEnabled,    \* OLLAMA_ENABLED: the consumer has a rewriter
    FailureCap,         \* bound on the failure counter (see CountFailure)
    MaxFaults           \* bound on broken channels, crashes and SIGTERMs

ASSUME RewriterAssumption == RewriterEnabled \in BOOLEAN
ASSUME FailureCapAssumption == FailureCap \in Nat \ {0}
ASSUME MaxFaultsAssumption == MaxFaults \in Nat

VARIABLES
    pc,         \* where the replica's goroutine is
    cancelled,  \* SIGTERM arrived: ctx.Err() # nil
    failures,   \* Run's consecutive failure count
    delivered,  \* consume's result: this session delivered something
    cur,        \* the delivery handleDelivery works on
    outcome,    \* what became of it: decided by the pipeline before settle
    verdict,    \* history: the outcome of m when it was acked
    faults      \* faults so far

processVars == <<pc, cancelled, failures, delivered, cur, outcome>>
vars == <<brokerVars, publisherVars, processVars, verdict, faults>>

Sessionless == {"top", "connecting", "backoff", "returned", "down"}
Handling == {"begin", "read", "rewrite", "publish", "settle"}
InSession == {"connected", "loop", "select", "drain", "ended"} \cup Handling
Stopped == {"returned", "down"}

\* Outcomes settled with an ack: decode failed, nothing to publish, publish
\* failed, published.  "interrupted" is work that a shutdown cut short.
Completed == {"poison", "skipped", "failed", "published"}
Outcomes == Completed \cup {"none", "interrupted"}

Init ==
    /\ BrokerInit
    /\ PublisherInit
    /\ pc = [r \in Replicas |-> "top"]
    /\ cancelled = [r \in Replicas |-> FALSE]
    /\ failures = [r \in Replicas |-> 0]
    /\ delivered = [r \in Replicas |-> FALSE]
    /\ cur = [r \in Replicas |-> NoMsg]
    /\ outcome = [r \in Replicas |-> "none"]
    /\ verdict = [m \in Messages |-> "none"]
    /\ faults = 0

Goto(r, from, to) ==
    /\ pc[r] = from
    /\ pc' = [pc EXCEPT ![r] = to]

\* failures++.  The counter stops at FailureCap; backoffDelay is constant from
\* 6 on, so FailureCap >= 6 loses nothing.
CountFailure(n) == IF n < FailureCap THEN n + 1 ELSE n

-----------------------------------------------------------------------------
(* Faulty variants of actions below, each a slip the code could have made. *)
(* They are not part of Next; the properties tell them from the real ones. *)

\* Connected without the close of a session won in a race with shutdown.
ConnectedLeaking(r) ==
    /\ Goto(r, "connected", IF cancelled[r] THEN "returned" ELSE "loop")
    /\ delivered' = [delivered EXCEPT ![r] = FALSE]
    /\ UNCHANGED <<brokerVars, publisherVars, cancelled, failures, cur,
                   outcome, verdict, faults>>

\* SessionEnds without the reset of the failure counter.
SessionEndsUnreset(r) ==
    /\ Goto(r, "ended", IF cancelled[r] THEN "returned" ELSE "backoff")
    /\ CloseChannel(r)
    /\ failures' = [failures EXCEPT ![r] =
                      IF cancelled[r] THEN @ ELSE CountFailure(@)]
    /\ delivered' = [delivered EXCEPT ![r] = FALSE]
    /\ UNCHANGED <<publisherVars, cancelled, cur, outcome, verdict, faults>>

\* SelectDone left out: the loop waits for deliveries only.
SelectDoneNever(r) == pc[r] = "select" /\ FALSE /\ UNCHANGED vars

\* Begin without the return after the nack of a shutdown.
BeginGoesOn(r) ==
    /\ Goto(r, "begin", IF cur[r] \in Poison THEN "settle" ELSE "read")
    /\ IF cancelled[r]
       THEN Nack(r, cur[r]) /\ UNCHANGED buffer
       ELSE UNCHANGED brokerVars
    /\ outcome' = [outcome EXCEPT ![r] =
                     IF cur[r] \in Poison THEN "poison" ELSE @]
    /\ UNCHANGED <<publisherVars, cancelled, failures, delivered, cur, verdict,
                   faults>>

\* Begin with a decode failure that returns without settling.
BeginUnsettled(r) ==
    /\ Goto(r, "begin", IF cancelled[r] THEN "settle"
                        ELSE IF cur[r] \in Poison THEN "loop" ELSE "read")
    /\ outcome' = [outcome EXCEPT ![r] =
                     IF cancelled[r] THEN "interrupted" ELSE @]
    /\ cur' = [cur EXCEPT ![r] =
                 IF ~cancelled[r] /\ @ \in Poison THEN NoMsg ELSE @]
    /\ UNCHANGED <<brokerVars, publisherVars, cancelled, failures, delivered,
                   verdict, faults>>

\* ReadSkips without the settle before the return.
ReadSkipsUnsettled(r) ==
    /\ Goto(r, "read", "loop")
    /\ cur' = [cur EXCEPT ![r] = NoMsg]
    /\ UNCHANGED <<brokerVars, publisherVars, cancelled, failures, delivered,
                   outcome, verdict, faults>>

\* ReadSucceeds with the ack before the publish.
ReadSucceedsAcking(r) ==
    /\ Goto(r, "read", "publish")
    /\ Ack(r, cur[r]) /\ UNCHANGED buffer
    /\ CallPublish(r)
    /\ UNCHANGED <<cancelled, failures, delivered, cur, outcome, verdict,
                   faults>>

\* PublishSucceeds with a 2xx answer without a status ID taken for a failure.
PublishRepeats(r) ==
    /\ Goto(r, "publish", IF RetriesLeft(r) THEN "publish" ELSE "settle")
    /\ req[r] = "inflight"
    /\ req' = [req EXCEPT ![r] = IF RetriesLeft(r) THEN "sleep" ELSE "idle"]
    /\ attempt' = [attempt EXCEPT ![r] = IF RetriesLeft(r) THEN @ ELSE 0]
    /\ posts' = [posts EXCEPT ![cur[r]] = @ + 1]
    /\ outcome' = [outcome EXCEPT ![r] =
                     IF RetriesLeft(r) THEN @ ELSE "published"]
    /\ UNCHANGED <<brokerVars, pending, unanswered, cancelled, failures,
                   delivered, cur, verdict, faults>>

\* Settle without the context check.
SettleAcking(r) ==
    /\ Goto(r, "settle", "loop")
    /\ Ack(r, cur[r])
    /\ verdict' = [verdict EXCEPT ![cur[r]] =
                     IF chan[r] = "open" THEN outcome[r] ELSE @]
    /\ cur' = [cur EXCEPT ![r] = NoMsg]
    /\ outcome' = [outcome EXCEPT ![r] = "none"]
    /\ UNCHANGED <<buffer, publisherVars, cancelled, failures, delivered,
                   faults>>

\* Settle that publishes again when the ack of what was published fails.
SettleRepeats(r) ==
    /\ pc[r] = "settle"
    /\ IF chan[r] # "open" /\ outcome[r] = "published"
       THEN /\ pc' = [pc EXCEPT ![r] = "publish"]
            /\ CallPublish(r)
            /\ outcome' = [outcome EXCEPT ![r] = "none"]
            /\ UNCHANGED <<brokerVars, cur, verdict>>
       ELSE /\ pc' = [pc EXCEPT ![r] = "loop"]
            /\ IF cancelled[r] THEN Nack(r, cur[r]) ELSE Ack(r, cur[r])
            /\ verdict' = [verdict EXCEPT ![cur[r]] =
                             IF ~cancelled[r] /\ chan[r] = "open" THEN outcome[r] ELSE @]
            /\ cur' = [cur EXCEPT ![r] = NoMsg]
            /\ outcome' = [outcome EXCEPT ![r] = "none"]
            /\ UNCHANGED <<buffer, publisherVars>>
    /\ UNCHANGED <<cancelled, failures, delivered, faults>>

-----------------------------------------------------------------------------
(* Run: the supervision loop.                                              *)

Top(r) ==
    /\ Goto(r, "top", IF cancelled[r] THEN "returned" ELSE "connecting")
    /\ UNCHANGED <<brokerVars, publisherVars, cancelled, failures, delivered,
                   cur, outcome, verdict, faults>>

\* Dial, channel, a declaration, QoS or consume failed: whatever was opened is
\* closed again inside connect.
ConnectFails(r) ==
    /\ Goto(r, "connecting", IF cancelled[r] THEN "returned" ELSE "backoff")
    /\ failures' = [failures EXCEPT ![r] =
                      IF cancelled[r] THEN @ ELSE CountFailure(@)]
    /\ UNCHANGED <<brokerVars, publisherVars, cancelled, delivered, cur,
                   outcome, verdict, faults>>

ConnectSucceeds(r) ==
    /\ Goto(r, "connecting", "connected")
    /\ OpenChannel(r)
    /\ UNCHANGED <<publisherVars, cancelled, failures, delivered, cur,
                   outcome, verdict, faults>>

\* The check after connect: a session won in a race with shutdown is closed.
Connected(r) ==
    /\ Goto(r, "connected", IF cancelled[r] THEN "returned" ELSE "loop")
    /\ IF cancelled[r] THEN CloseChannel(r) ELSE UNCHANGED brokerVars
    /\ delivered' = [delivered EXCEPT ![r] = FALSE]
    /\ UNCHANGED <<publisherVars, cancelled, failures, cur, outcome, verdict,
                   faults>>

\* consume returned: the session is closed; shutdown ends Run, a lost session
\* is counted and backed off from.
SessionEnds(r) ==
    /\ Goto(r, "ended", IF cancelled[r] THEN "returned" ELSE "backoff")
    /\ CloseChannel(r)
    /\ failures' = [failures EXCEPT ![r] =
                      IF cancelled[r] THEN @
                      ELSE CountFailure(IF delivered[r] THEN 0 ELSE @)]
    /\ delivered' = [delivered EXCEPT ![r] = FALSE]
    /\ UNCHANGED <<publisherVars, cancelled, cur, outcome, verdict, faults>>

\* sleepContext: the timer fires, or the context ends first.
BackoffElapses(r) ==
    /\ Goto(r, "backoff", "top")
    /\ UNCHANGED <<brokerVars, publisherVars, cancelled, failures, delivered,
                   cur, outcome, verdict, faults>>

BackoffCancelled(r) ==
    /\ cancelled[r]
    /\ Goto(r, "backoff", "returned")
    /\ UNCHANGED <<brokerVars, publisherVars, cancelled, failures, delivered,
                   cur, outcome, verdict, faults>>

-----------------------------------------------------------------------------
(* consume and drainDeliveries.                                            *)

\* The context check at the top of the loop.
LoopHead(r) ==
    /\ Goto(r, "loop", IF cancelled[r] THEN "drain" ELSE "select")
    /\ IF cancelled[r]
       THEN StopPushes(r) /\ UNCHANGED buffer
       ELSE UNCHANGED brokerVars
    /\ UNCHANGED <<publisherVars, cancelled, failures, delivered, cur,
                   outcome, verdict, faults>>

\* The select's first case.  Go picks at random when the context is done too,
\* and the library may still hand over the buffer of a dead channel.
Receive(r, m) ==
    /\ Goto(r, "select", "begin")
    /\ m \in buffer[r]
    /\ buffer' = [buffer EXCEPT ![r] = @ \ {m}]
    /\ cur' = [cur EXCEPT ![r] = m]
    /\ delivered' = [delivered EXCEPT ![r] = TRUE]
    /\ UNCHANGED <<loc, chan, consuming, returned, publisherVars, cancelled,
                   failures, outcome, verdict, faults>>

ReceiveClosed(r) ==
    /\ Goto(r, "select", "ended")
    /\ StreamClosed(r)
    /\ UNCHANGED <<brokerVars, publisherVars, cancelled, failures, delivered,
                   cur, outcome, verdict, faults>>

\* The select's second case.
SelectDone(r) ==
    /\ cancelled[r]
    /\ Goto(r, "select", "drain")
    /\ StopPushes(r)
    /\ UNCHANGED <<buffer, publisherVars, cancelled, failures, delivered, cur,
                   outcome, verdict, faults>>

\* One turn of drainDeliveries.
DrainOne(r, m) ==
    /\ pc[r] = "drain"
    /\ m \in buffer[r]
    /\ buffer' = [buffer EXCEPT ![r] = @ \ {m}]
    /\ Nack(r, m)
    /\ UNCHANGED <<publisherVars, processVars, verdict, faults>>

\* The stream is closed, or its receive is not ready: the library's buffer
\* goroutine may be late, so the default case can win over a full buffer.
DrainDone(r) ==
    /\ Goto(r, "drain", "ended")
    /\ UNCHANGED <<brokerVars, publisherVars, cancelled, failures, delivered,
                   cur, outcome, verdict, faults>>

-----------------------------------------------------------------------------
(* handleDelivery.                                                         *)

\* The context check and decodeStock.
Begin(r) ==
    /\ Goto(r, "begin", IF cancelled[r] \/ cur[r] \in Poison THEN "settle"
                        ELSE "read")
    /\ outcome' = [outcome EXCEPT ![r] =
                     CASE cancelled[r] -> "interrupted"
                       [] ~cancelled[r] /\ cur[r] \in Poison -> "poison"
                       [] OTHER -> @]
    /\ UNCHANGED <<brokerVars, publisherVars, cancelled, failures, delivered,
                   cur, verdict, faults>>

\* ReadSummary found nothing, failed, or returned blank text.
ReadSkips(r) ==
    /\ Goto(r, "read", "settle")
    /\ outcome' = [outcome EXCEPT ![r] =
                     IF cancelled[r] THEN "interrupted" ELSE "skipped"]
    /\ UNCHANGED <<brokerVars, publisherVars, cancelled, failures, delivered,
                   cur, verdict, faults>>

\* ReadSummary returned text.  Without a rewriter, Publish is called next.
ReadSucceeds(r) ==
    /\ Goto(r, "read", IF RewriterEnabled THEN "rewrite" ELSE "publish")
    /\ IF RewriterEnabled THEN UNCHANGED publisherVars ELSE CallPublish(r)
    /\ UNCHANGED <<brokerVars, cancelled, failures, delivered, cur, outcome,
                   verdict, faults>>

\* Rewrite returned a report, blank output or an error: all lead to Publish.
Rewrite(r) ==
    /\ Goto(r, "rewrite", "publish")
    /\ CallPublish(r)
    /\ UNCHANGED <<brokerVars, cancelled, failures, delivered, cur, outcome,
                   verdict, faults>>

\* A request is sent under a live context only.
PublishSends(r) ==
    /\ pc[r] = "publish" /\ ~cancelled[r]
    /\ Send(r)
    /\ UNCHANGED <<brokerVars, processVars, verdict, faults>>

PublishSucceeds(r) ==
    /\ Goto(r, "publish", "settle")
    /\ Answered(r, cur[r])
    /\ outcome' = [outcome EXCEPT ![r] = "published"]
    /\ UNCHANGED <<brokerVars, cancelled, failures, delivered, cur, verdict,
                   faults>>

PublishRetries(r) ==
    /\ pc[r] = "publish"
    /\ req[r] = "attempt" => cancelled[r]
    /\ FailsAndSleeps(r, cur[r])
    /\ UNCHANGED <<brokerVars, processVars, verdict, faults>>

PublishWakes(r) ==
    /\ pc[r] = "publish"
    /\ Wake(r)
    /\ UNCHANGED <<brokerVars, processVars, verdict, faults>>

PublishFails(r) ==
    /\ Goto(r, "publish", "settle")
    /\ req[r] = "attempt" => cancelled[r]
    /\ FailsForGood(r, cur[r])
    /\ outcome' = [outcome EXCEPT ![r] =
                     IF cancelled[r] THEN "interrupted" ELSE "failed"]
    /\ UNCHANGED <<brokerVars, cancelled, failures, delivered, cur, verdict,
                   faults>>

\* settle: nack with requeue under a cancelled context, ack otherwise.  A
\* failed settlement is logged and never retried.
Settle(r) ==
    /\ Goto(r, "settle", "loop")
    /\ IF cancelled[r] THEN Nack(r, cur[r]) ELSE Ack(r, cur[r])
    /\ verdict' = [verdict EXCEPT ![cur[r]] =
                     IF ~cancelled[r] /\ chan[r] = "open" THEN outcome[r]
                     ELSE @]
    /\ cur' = [cur EXCEPT ![r] = NoMsg]
    /\ outcome' = [outcome EXCEPT ![r] = "none"]
    /\ UNCHANGED <<buffer, publisherVars, cancelled, failures, delivered,
                   faults>>

-----------------------------------------------------------------------------
(* The world around the process.  Each of these spends the fault budget.   *)

Fault ==
    /\ faults < MaxFaults
    /\ faults' = faults + 1

ChannelDies(r) ==
    /\ Fault
    /\ LoseChannel(r)
    /\ UNCHANGED <<publisherVars, processVars, verdict>>

ConsumerCancelled(r) ==
    /\ Fault
    /\ CancelByBroker(r)
    /\ UNCHANGED <<publisherVars, processVars, verdict>>

\* SIGTERM or SIGINT: signal.NotifyContext cancels the run context.
Terminate(r) ==
    /\ Fault
    /\ pc[r] \notin Stopped /\ ~cancelled[r]
    /\ cancelled' = [cancelled EXCEPT ![r] = TRUE]
    /\ UNCHANGED <<brokerVars, publisherVars, pc, failures, delivered, cur,
                   outcome, verdict>>

\* The process is killed.
Crash(r) ==
    /\ Fault
    /\ pc[r] \notin Stopped
    /\ pc' = [pc EXCEPT ![r] = "down"]
    /\ DropSocket(r)
    /\ IF cur[r] = NoMsg
       THEN UNCHANGED publisherVars
       ELSE AbandonPublish(r, cur[r])
    /\ cancelled' = [cancelled EXCEPT ![r] = FALSE]
    /\ failures' = [failures EXCEPT ![r] = 0]
    /\ delivered' = [delivered EXCEPT ![r] = FALSE]
    /\ cur' = [cur EXCEPT ![r] = NoMsg]
    /\ outcome' = [outcome EXCEPT ![r] = "none"]
    /\ UNCHANGED verdict

\* Restart=always of the quadlet unit: a new process, a new context.
Restart(r) ==
    /\ pc[r] \in Stopped
    /\ pc' = [pc EXCEPT ![r] = "top"]
    /\ cancelled' = [cancelled EXCEPT ![r] = FALSE]
    /\ failures' = [failures EXCEPT ![r] = 0]
    /\ delivered' = [delivered EXCEPT ![r] = FALSE]
    /\ UNCHANGED <<brokerVars, publisherVars, cur, outcome, verdict, faults>>

BrokerPushes(r, m) ==
    /\ Push(r, m)
    /\ UNCHANGED <<publisherVars, processVars, verdict, faults>>

BrokerReaps(m) ==
    /\ Reap(m)
    /\ UNCHANGED <<publisherVars, processVars, verdict, faults>>

\* The instance is slow: whatever became of the signal meanwhile.
LateStatus(m) ==
    /\ CarryOut(m)
    /\ UNCHANGED <<brokerVars, processVars, verdict, faults>>

\* Every signal is settled, every replica waits in its select: the one state
\* in which nothing more has to happen.
Idle ==
    /\ \A m \in Messages : loc[m] = "gone"
    /\ \A r \in Replicas : pc[r] = "select" /\ chan[r] = "open" /\ consuming[r]
    /\ UNCHANGED vars

-----------------------------------------------------------------------------
Run(r) ==
    \/ Top(r) \/ ConnectFails(r) \/ ConnectSucceeds(r) \/ Connected(r)
    \/ SessionEnds(r) \/ BackoffElapses(r) \/ BackoffCancelled(r)

Consume(r) ==
    \/ LoopHead(r) \/ ReceiveClosed(r) \/ SelectDone(r) \/ DrainDone(r)
    \/ \E m \in Messages : Receive(r, m) \/ DrainOne(r, m)

HandleDelivery(r) ==
    \/ Begin(r) \/ ReadSkips(r) \/ ReadSucceeds(r) \/ Rewrite(r)
    \/ PublishSends(r) \/ PublishSucceeds(r) \/ PublishRetries(r)
    \/ PublishWakes(r) \/ PublishFails(r) \/ Settle(r)

Process(r) == Run(r) \/ Consume(r) \/ HandleDelivery(r)

Environment(r) ==
    \/ ChannelDies(r) \/ ConsumerCancelled(r) \/ Terminate(r) \/ Crash(r)
    \/ Restart(r)
    \/ \E m \in Messages : BrokerPushes(r, m)

Next ==
    \/ \E r \in Replicas : Process(r) \/ Environment(r)
    \/ \E m \in Messages : BrokerReaps(m) \/ LateStatus(m)
    \/ Idle

Spec == Init /\ [][Next]_vars

\* The goroutine keeps running, the process is restarted, the broker delivers
\* and requeues, and a connect repeated for ever succeeds at last.
Fairness ==
    /\ \A r \in Replicas :
          /\ WF_vars(Process(r))
          /\ WF_vars(Restart(r))
          /\ SF_vars(ConnectSucceeds(r))
    /\ \A r \in Replicas, m \in Messages : WF_vars(BrokerPushes(r, m))
    /\ \A m \in Messages : WF_vars(BrokerReaps(m))

LiveSpec == Spec /\ Fairness
==============================================================================
