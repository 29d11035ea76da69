-------------------------- MODULE ConsumerProperties -------------------------
(***************************************************************************)
(* What the runs check of Consumer.tla and ConsumerProofs.tla proves of it.*)
(***************************************************************************)
EXTENDS Consumer

\* Every variable has its type, and the publisher's position and the pipeline
\* agree on who is publishing.
TypeOK ==
    /\ BrokerTypeOK
    /\ PublisherTypeOK
    /\ pc \in [Replicas -> Sessionless \cup InSession]
    /\ cancelled \in [Replicas -> BOOLEAN]
    /\ failures \in [Replicas -> 0..FailureCap]
    /\ delivered \in [Replicas -> BOOLEAN]
    /\ cur \in [Replicas -> Messages \cup {NoMsg}]
    /\ outcome \in [Replicas -> Outcomes]
    /\ verdict \in [Messages -> Outcomes]
    /\ faults \in 0..MaxFaults

\* While a channel is open, everything read from it and not yet settled is
\* still the channel's to settle, and is in the buffer or in hand but not
\* both: settle and drainDeliveries never settle a tag twice (which would cost
\* the channel), whatever exit handleDelivery takes.
DeliveriesAreHeld ==
    \A r \in Replicas :
        chan[r] = "open" =>
            /\ \A m \in buffer[r] : loc[m] = r
            /\ cur[r] # NoMsg => loc[cur[r]] = r /\ cur[r] \notin buffer[r]

\* Outside a session (before connecting, during backoff, after Run returned or
\* a crash) a replica owns no channel, and no signal is kept from the others:
\* every exit of connect, consume and Run releases what it took, the session
\* won in a race with shutdown included.
SessionsAreReleased ==
    \A r \in Replicas :
        /\ pc[r] \in Sessionless => chan[r] = "none"
        /\ chan[r] # "open" => Held(r) = {}

\* Two replicas have the same signal in hand only after one of them lost its
\* channel: with every channel up, competing consumers handle disjoint signals.
ExclusiveHandling ==
    \A r, s \in Replicas :
        r # s /\ cur[r] # NoMsg /\ cur[r] = cur[s] =>
            chan[r] # "open" \/ chan[s] # "open"

\* A signal leaves the queue with a completed outcome and never as work that a
\* shutdown interrupted; "published" means that a status exists; a signal that
\* cannot be decoded is never posted.  So a signal is not lost by whatever
\* shutdown, crash or lost channel meets its handling.
AckedMeansCompleted ==
    \A m \in Messages :
        /\ loc[m] = "gone" <=> verdict[m] # "none"
        /\ verdict[m] \in Completed \cup {"none"}
        /\ verdict[m] = "published" => posts[m] > 0
        /\ verdict[m] # "none" => (verdict[m] = "poison" <=> m \in Poison)
        /\ m \in Poison => posts[m] = 0

\* Where the goroutine is, what it has in hand, where its publish call is and
\* what it has decided fit together; an outcome is decided only on grounds
\* that still hold when the delivery is settled.
PipelineIsConsistent ==
    \A r \in Replicas :
        /\ pc[r] \in Handling <=> cur[r] # NoMsg
        /\ pc[r] = "publish" <=> req[r] # "idle"
        /\ req[r] = "sleep" => RetriesLeft(r)
        /\ pc[r] \in {"read", "rewrite", "publish"} => cur[r] \notin Poison
        /\ pc[r] = "settle" <=> outcome[r] # "none"
        /\ outcome[r] = "interrupted" => cancelled[r]
        /\ outcome[r] = "published" => posts[cur[r]] > 0
        /\ outcome[r] \in Completed =>
              (outcome[r] = "poison" <=> cur[r] \in Poison)

\* The instance has no request left for a signal that cannot be decoded.
OnlyDecodedArePending == \A m \in Poison : pending[m] = 0

\* No delivery of an earlier session is left for the next one to read.
BuffersAreEmptied ==
    \A r \in Replicas : chan[r] = "none" => buffer[r] = {}

\* The inductive invariant of ConsumerProofs.
IInv ==
    /\ TypeOK
    /\ DeliveriesAreHeld
    /\ SessionsAreReleased
    /\ AckedMeansCompleted
    /\ PipelineIsConsistent
    /\ BuffersAreEmptied
    /\ OnlyDecodedArePending

\* Statuses beyond the first come from a redelivery (the ack did not land) or
\* from a request that the client gave up on and the instance carried out:
\* settlement and publish add no duplicates of their own.
DuplicatesAreExplained ==
    \A m \in Messages : posts[m] <= 1 + returned[m] + unanswered[m]

\* One replica sends no request for a signal after its ack: not over a retry,
\* a redelivery, a handler on a dead channel or a restart.  What the instance
\* creates after the ack comes from a request that was given up on before.
AckedStaysUnrequested ==
    \A m \in Messages :
        loc[m] = "gone" =>
            /\ \A r \in Replicas :
                  cur[r] = m /\ req'[r] = "inflight" => req[r] = "inflight"
            /\ posts'[m] - posts[m] = unanswered'[m] - unanswered[m]

NoRequestAfterAck == [][AckedStaysUnrequested]_vars

\* "at-most-once after the ack": a signal that was acked is not posted again.
AckedStaysUnposted ==
    \A m \in Messages : loc[m] = "gone" => posts'[m] = posts[m]

NoPostAfterAck == [][AckedStaysUnposted]_vars

\* The reconnect delay starts at 1s and doubles up to 30s, as the probe's does,
\* over any mix of failed connects and unproductive sessions; the session that
\* delivered something, and only that, brings it back to 1s.
ScheduledBackoff ==
    \A r \in Replicas :
        pc'[r] = "backoff" /\ pc[r] # "backoff" =>
            BackoffDelay(failures'[r]) =
                IF failures[r] = 0 \/ (pc[r] = "ended" /\ delivered[r])
                THEN BackoffInitial
                ELSE NextRetryDelay(BackoffDelay(failures[r]))

BackoffFollowsSchedule == [][ScheduledBackoff]_vars

\* A replica told to stop stops, from wherever it was.
ShutdownCompletes ==
    \A r \in Replicas : cancelled[r] ~> pc[r] \in Stopped

\* The refinement mapping: the broker, the replicas and their sessions are
\* forgotten, and the verdict on a signal is given when the broker takes its ack.
SQ == INSTANCE SignalQueue WITH Messages <- Messages, Poison <- Poison,
                                posts <- posts, verdict <- verdict

\* The service implements the safety part of the abstract queue: a signal is
\* settled once and truthfully, and only decodable signals are posted.
SettlesTruthfully == SQ!Safe

\* ... and every signal is settled in the end, over lost channels, crashes,
\* restarts and the other replica.
SettlesEverySignal == SQ!Spec
==============================================================================
