# stocker-informer: verification models

stocker-informer consumes "summary available" signals from a RabbitMQ queue,
reads each stock's Markdown summary from S3, optionally has Ollama rewrite it,
and posts the text to GoToSocial. This directory holds TLA+ models of it, TLC
configurations that check them on small instances, and proofs that TLAPS checks
for every value of the constants.

## Inventory of the system

| Component | State it keeps | Operations | What is hard | What makes it correct |
| --- | --- | --- | --- | --- |
| Consumer (`internal/rabbitmq/consumer.go`) | failure counter, current session, delivery in hand | `Run`, `connect`, `consume`, `drainDeliveries`, `handleDelivery`, `settle`, `backoffDelay` | shutdown at every step, channels that die under a handler, replicas on one queue, exactly one settlement on each exit | no signal lost, settled once and truthfully, sessions released, shutdown ends, duplicates bounded by redeliveries and unanswered requests |
| Session (`session.go`) | connection, channel, deliveries stream, closed flag | `ack`, `nack`, `cancelConsumer`, `close`, `dialAMQP` | RPCs without deadlines, tags of a dead channel | settlement only on the channel that delivered; `close` releases both |
| Publisher (`messenger/gotosocial_publisher.go`) | attempt number | `publish` | requests that take effect though they look failed, at once or long after; sleeps that ignore the context | at most 3 attempts; no repeat after an answered success |
| Probe (`probe.go`) | ready, lost, retry delay; one goroutine per attempt | `Run`, `Check`, `checkTopology` | attempts that outlive their `Check`, brokers that stop answering | readiness rests on this attempt's own result; `Check` returns; connections are closed |
| Process (`cmd/server/main.go`, quadlet unit) | run context, readiness flag | `run`, `/health` | SIGTERM, kill, restart; probe and consumer start together | a restart resumes what was not settled; `/health` is true; the process becomes ready and exits when told to |
| Summary store (`summarystore/store.go`) | S3 client, timeout | `ReadSummary`, `BuildKey` | a timeout of zero or less means none; answers, deadline and shutdown race | one key per stock; a bounded read |
| Rewriter (`rewriter/ollama.go`) | HTTP client | `Rewrite` | answers that are incomplete, blank, cut or too long; no answer | a report is complete or it is an error; a call ends |
| Configuration (`config/config.go`) | none | `Load` and its validators | integer widths, blank against absent variables | what passes validation is usable by the other components |

Interactions: `main` starts the probe and the HTTP server as goroutines and runs
the consumer on its own; all share one context that SIGTERM cancels. Consumer and
probe share nothing but the broker: the consumer declares the topology, the probe
looks at it over a connection of its own and sets the readiness flag through a
callback. Within the consumer everything is one goroutine: `Run` calls `consume`,
which calls `handleDelivery`, which calls store, rewriter and publisher in turn.
The only concurrency it meets is outside: the broker, the client library, the
instance, other replicas, and the cancellation of its context.

The hazards of this code, each at its line, are listed in `PROJECT.json`.

## Modules

| Module | Models |
| --- | --- |
| `Signals` | parameters shared by the next three: replicas, signals, poison signals |
| `Broker` | RabbitMQ and amqp091-go as the source uses them (external): where each signal is, each replica's channel, prefetch, client buffer; and what `session.go` asks of it |
| `Publisher` | `publish`: attempts, sleeps, the requests it gave up on, and the statuses the instance ends up with |
| `Backoff` | `backoffDelay` and the probe's doubling |
| `Consumer` | the process: supervision, delivery loop, pipeline, settlement, faults, restart; extends the four above |
| `SignalQueue` | abstract: each signal is settled once and truthfully; only decodable ones are posted |
| `ConsumerProperties` | the properties of `Consumer`, and the refinement to `SignalQueue` |
| `Probe` | `Probe.Run`, `Check`, the attempt goroutines, the declared topology, and their properties |
| `Readiness` | the probe (an instance of `Probe`) beside the consumer's `connect`, RPC by RPC, the durable objects both look at, the end of sessions, `/health`, `main`'s exit |
| `Timeouts` | the three timeouts of `config.Load`, in Go's wrapping integers |
| `ObjectKey` | `BuildKey`, `checkSegment` and the two prefix normalisations, with `strings.Split` and `strings.Join` as recursive functions, which the proofs can unfold |
| `Settings` | the other settings and validators of `config.Load`; extends the two above |
| `SummaryStore` | startup (`Load`, `NewWithAPI`) and the consumer's reads; extends `Settings` |
| `Pipeline` | the handling of a signal with its texts: `Rewrite`, the switch on its outcome, the publisher's form; extends `SummaryStore` |
| `MCConsumer`, `MCProbe`, `MCReadiness`, `MCStore` (for `Pipeline`) | small instances for TLC |
| `ConsumerProofs`, `DuplicatesProofs`, `ProbeProofs`, `ReadinessProofs`, `ObjectKeyProofs`, `SummaryStoreProofs`, `PipelineProofs` | proofs for TLAPS |

### Correspondence

`Consumer`: a replica has one program counter, `pc[r]`, that stops wherever the
outside can change what the code reads next: before a context check, at a
channel receive, at an I/O call. Purely local code between two such points is
part of the action before it. `cancelled[r]` is `ctx.Err() != nil`. `cur[r]` is
the delivery in `handleDelivery`, `outcome[r]` what its pipeline has decided when
it calls `settle`. `SessionEnds` is the tail of `Run`'s loop, from the return of
`consume` to the backoff. `connect` is one action with two results, because each
of its failures closes what it opened.

`Broker`: `loc[m]` says where a signal is: `"ready"` in the queue, held by a
replica's channel, `"orphan"` when that channel was lost and the broker has not
noticed, `"gone"` when acked. `buffer[r]` is what the library holds between
socket and `session.deliveries`; after a channel dies the consumer may still
read from it or find the stream closed, as the library's goroutine chooses at
random. A settlement on a channel that is not open changes nothing. The buffer
is a set, so deliveries may be read in any order, the real one included.

`Publisher`: `Fails` covers every failed attempt. A request that was on the wire
when the client gave up on it (the 20 s timeout, a broken connection, a cancelled
wait) or when the process was killed joins `pending`: the instance may carry it out
at any later time, or never (`CarryOut`, the consumer's `LateStatus`), whatever has
become of the signal by then. A request that the instance refused is one it never
carries out. `unanswered` counts the statuses that came about in this way. Under a
cancelled context a request fails without being sent, and the loop sleeps and tries
again regardless.

`Probe`: `pc` is `Run` with `Check` inlined (`"dialing"` and `"declaring"` are
its two selects, `"closing"` its wait in `conn.Close`). A close is an RPC, by `Check`
or by the attempt's deferred calls: it waits for the broker's reply or the loss of
the connection. Each attempt has its goroutine position `step[k]`, its
connection, the two buffered channels `dialed[k]` and `done[k]`, and `over[k]`
for its context. A `Check` that returns leaves its attempt running.

`Readiness`: `at` is the consumer's goroutine, `rpc` which of the six RPCs of `connect`
it waits for, `link` its connection as it really is; the code sees a lost one only
through the error of a call. `exchange`, `queue` and `bound` are what the broker has
durably; the topology the probe of `Probe` sees is made of them, and the consumer's
RPCs are to `Probe` the step `ConsumerDeclares` (checked and proved:
`RefinesProbe`). What happens inside a session is in `Consumer`; here it only ends.

`SummaryStore`: a process is started with one of `Environments` and refuses it or
reads summaries one after the other. `phase` is the call the read is in; S3
answers with anything at any time or never, the deadline fires only if
`timeout > 0`, and the end of the context may or may not win against an answer.
`GetObject` is one call: that the SDK, with the retryer the store leaves at its
default, may repeat a request inside it changes none of its outcomes. `Wrap` is
the conversion to a signed 64-bit count; `Half`, `Second` and `Longest` stand for
2^63, 10^9 and the most seconds that fit. `Wire` is what basic.qos has room for.

`Settings`: an environment is a record with a field for each setting; a URL is a
record of what its validators look at (does it parse, scheme, host, port), a handle
or a host name a text of a few characters, and any other setting one of the classes
its validator tells apart. `Valid` is the conjunction of all checks, because `Load`
makes each of them whatever the others found.

`Pipeline`: `stage` is where `handleDelivery` is after the read, `text`, `rewrite` and
`publishText` are its variables, `status` the form of the status that was created.
A publish is one step with its two results (its attempts are in `Publisher`, what
it leaves behind in `Consumer`), and may still succeed as the context ends.

The modules also define a few *faulty variants* of actions, marked as such, that
no specification uses; each is a slip the code could have made, and each breaks
the property it is paired with in `PROJECT.json`.

## Runs

| Run | Instance | Shows |
| --- | --- | --- |
| `supervisor` | 1 replica, 2 signals (1 poison), prefetch 2, 3 attempts, failure cap 6, 2 faults | type invariant; `DeliveriesAreHeld`, `SessionsAreReleased`, `AckedMeansCompleted`, `DuplicatesAreExplained`; `NoRequestAfterAck`; `BackoffFollowsSchedule`; refinement of `SignalQueue` (safety) |
| `replicas` | 2 replicas, 1 signal, prefetch 1, 1 attempt, no rewriter, 2 faults, with fairness | `ExclusiveHandling`, and the two invariants that handlers on dead channels could break; every signal is settled, though replicas take it from each other |
| `settlement` | as `supervisor`, failure cap 1, with fairness | `ShutdownCompletes`; refinement of `SignalQueue` with liveness: every signal is settled |
| `probe_checks` | 2 attempt slots, 1 outage, any topology at the start; a broker that may never answer a declaration, but answers a close | `SuccessIsProven`, `OnlyAbortedDialsLinger`, `LossTracksChecks`, `RetryFollowsBackoff`; `CheckReturns`, `ShutdownStopsProbe`; and that a probe its broker serves becomes ready (`EventuallyReady`, an implication whose premise is `Served`) |
| `readiness` | 1 attempt slot, 1 outage, any durable objects at the start | `HealthIsTrue`, `SignalsAreRouted`; refinement of `Probe`; `ShutdownExits`; `EventuallyServes`: ready by the process's own declarations, and consuming |
| `pipeline` | 288 environments, 18-bit integers, an S3, an Ollama and a GoToSocial that may never answer | `KeyNamesOneStock`, `TimeoutsAreExact`, `PrefetchIsExact`, `ResultIsTruthful`, `RightTextIsPosted`, `AudienceIsRespected`; `RewriteFailsOpen`, `HandlingEnds`, `ShutdownEndsHandling` |
| `ack_once`, `probe_abort`, `probe_stalls`, `connect_stalls`, `store_deadline`, `store_bucket` | small | counterexamples to statements of the documentation, below |

Deadlock is checked in all of them: `Idle`, `Terminated` and `Exited` are
the only states in which nothing has to happen.

### Bounds

- `MaxFaults` bounds broken channels, broker-side cancels, SIGTERMs and crashes
  together. Two are enough for a fault, or a shutdown, during the recovery from
  another; two replicas need one fault for a handler on a dead
  channel and a second to disturb the replica that took over.
- `replicas` has one signal, which both replicas compete for; two signals give
  prefetch 2 a buffer beside the delivery in hand, and the replica of `supervisor` a choice. The poison signal takes the shortest path,
  the other every other path.
- `FailureCap` stops the failure counter. From 6 on this changes no delay;
  `supervisor` uses 6. The runs that do not look at delays use 1.
- `MaxPublishRetries` is the code's 3, so that up to three requests of one call, and those
  of earlier calls, may be carried out late; it is 1 in `replicas`, where
  what matters is that the two replicas' requests are carried out late. The proofs hold for every number of attempts.
- Probe slots bound the attempts alive at once: one `Check` running while an
  attempt that was given up on lingers. `MaxOutages` bounds broker outages; `probe_stalls`
  has none, since an outage would end the close.
- A second of 10 units in 18-bit integers keeps what matters of 10^9 and 64 bits:
  13107 s is the longest exact timeout, 13108 s wraps to a negative duration, 26215 s
  to a short positive one, 131072 is out of `Atoi`'s range. The caps (65535 for the
  prefetch and a port, 3600 s, 300 s) and the defaults are the code's.
- Each environment of `pipeline` departs from one plain environment in a setting, or
  in two that interact: audience and recipient, recipient and the instance's host,
  audience and `OLLAMA_ENABLED`, the two bounded timeouts. Handles are all texts of at
  most three characters among `@`, a letter and space, and three with a domain;
  identities, prefixes, summaries and answers are chosen for the checks that look
  at them, which look at one or two characters; reports are of one to three
  characters, one of them of two bytes, against caps of 0 to 3.
- `readiness` has one attempt slot because overlapping attempts are the subject of
  `probe_checks`; an outage between any two RPCs is one outage.
- `returned`, `unanswered`, `pending`, `posts` are bounded by the fault budget and the
  number of attempts, not by guards.

### Fairness

- A replica's goroutine keeps running (weak fairness of `Process`): every call
  it makes returns. HTTP calls have timeouts (the S3 read if its setting fits a
  duration, see `store_deadline`); AMQP calls end when the 10 s
  heartbeat gives up on a silent broker. A broker that heartbeats and never
  answers an RPC is the exception, shown by `connect_stalls` and `probe_stalls`.
- `Restart=always` restarts a process that ended.
- The broker delivers ready signals and requeues those of lost channels.
- Strong fairness of `ConnectSucceeds`: a broker that can be reached again and
  again is reached.
- Nothing is assumed of faults, of the answers of S3, Ollama and GoToSocial, or
  of the random choice of a select with the context done.
- `probe_checks` (`ClosingSpec`) assumes of the broker that a dial ends by its deadline,
  that an RPC on a closed connection fails, and that the close `Check` makes is answered
  or its connection is lost; a declaration may stay unanswered. `probe_stalls`
  (`StalledSpec`) does not assume the second half: there only the broker's absence ends a close.
- Nothing is assumed of `LateStatus`: a request given up on may never be carried out.
- `EventuallyReady` is checked as an implication: *if* the broker comes back, answers
  and serves, and neither select passes over a dialed connection or a success for
  ever (`Served`), the probe becomes ready. Nothing in the specification of that run
  grants it.
- `readiness` (`ServedSpec`) assumes that dials and sleeps end and heartbeats find
  lost connections (`HeartbeatSpec`), that the broker comes back, and that what
  waits for an answer gets one or an error. `EventuallyServes` has as its premise that
  from some time on the answers are successes. `connect_stalls` has
  `HeartbeatSpec` alone, without the answers.
- `pipeline` (`PatientSpec`) assumes that timers fire, that a call whose context is
  done returns, that Ollama's client gives up if its timeout is positive, and that a
  publish ends, as each of its attempts has a timeout; nothing of the servers.

## Where documentation and code disagree

1. `README.md:525`: publication is "at-most-once after the ack". Not so even of one
   replica without a fault: a request that hit the client's 20 s timeout may still create
   its status, after the retry succeeded and the signal was acked (`ack_once`). What
   is true of one replica is that it sends nothing more for a signal it has acked
   (proved: `SingleReplicaRequestsBeforeAck`). With two, a replica whose channel died
   while it handled a signal even goes on to send its request after another replica
   has received, published and acked the redelivery: `NoRequestAfterAck` does not hold
   in the instance of `replicas`.
2. `consumer.go:415`: "Backoff sleeps never use time.Sleep, so shutdown is never
   delayed by a retry timer". The publisher's do, and after a cancellation each
   remaining attempt fails at once and is still slept on (in `Consumer`, `PublishRetries`
   and `PublishWakes` go on under a cancelled context). The comment is about the
   consumer's own backoffs, of which it is true, and shutdown does complete
   (`ShutdownCompletes`), so this one has no run.
3. `probe.go:122`: "The dialer cannot outlive the attempt ... there is nothing to
   close yet". A dial that succeeds as the attempt's context ends leaves an open
   connection that `Check` never closes (`probe_abort`). It is the only way
   (proved: `LingeringConnections`), and the attempt's goroutine closes it if
   the broker answers.
4. `README.md:163`: `S3_TIMEOUT_SECONDS` is the timeout of each read. It has no upper
   bound: from 9223372037 on the duration wraps, a negative one means no deadline,
   and a read that S3 never answers stops the pipeline until shutdown
   (`store_deadline`). The bounds on the other two timeouts exclude this (proved:
   `ExactTimeouts`).
5. `store.go:229`: "a definitive object miss". The status alone decides for codes
   the switch does not list, so that a missing bucket (`NoSuchBucket`, 404) is
   logged as a missing summary (`store_bucket`).
6. `README.md:151`: with `RABBITMQ_CONNECT_TIMEOUT_SECONDS` "a broker that accepts TCP
   but stalls cannot hang a connect", and `session.go:122` leaves a broker that stops
   answering to the heartbeat. After the handshake no deadline is set, and heartbeats
   only find connections that are gone: a broker that heartbeats and leaves one of
   the six RPCs unanswered keeps `connect`, and shutdown, for ever (`connect_stalls`).
   With answers or a lost connection, shutdown exits (`ShutdownExits`).
7. `README.md:533`: "Each attempt is bounded by a `5s` timeout", and `probe.go:133`: "a
   broker that ignores the close must not extend Check's bound". `Check` does not wait for
   the attempt's goroutine, but it calls `conn.Close` itself, an RPC without a deadline:
   a broker that heartbeats and answers neither the declaration nor the close keeps
   `Check`, the probe's `Run` and the goroutine waiting for ever (`probe_stalls`). If the
   close is answered, or the connection is lost, `Check` returns and shutdown ends `Run`
   (`CheckReturns` and `ShutdownStopsProbe` in `probe_checks`).
8. `README.md:323` and `:518`: a blank `response` is warned of as "rewrite returned empty
   output". `Rewrite` reports it as an error (`ollama.go:131`), so the switch in
   `handleDelivery` logs "rewrite failed" and its second case is never reached
   (`Pipeline.Warning`). The same text is published either way (`RightTextIsPosted`), so this
   one has no run either.

One more was met and has no run of its own, being about a single input: `README.md:145`
lets a blank `RABBITMQ_URL` use the default, and the comment at `config.go:313` says
that it does "like getEnv does". `getEnv` replaces only an empty value; one of white
space is trimmed afterwards and refused (`Settings.ValidAMQPURL`, `"spaces"`).

Duplicates have one source that the documentation does not name: an attempt that
timed out is retried, and the instance carries out both (`unanswered` in
`DuplicatesAreExplained`).

## Proofs

`ConsumerProofs` assumes only what `Signals`, `Broker`, `Publisher` and `Consumer`
state of their constants: poison signals are signals, `NoMsg` is not one, replicas
are not named like the other values of `loc`, the bounds are positive numbers.

- The inductive invariant `IInv` joins the type invariant and three properties
  (`DeliveriesAreHeld`, `SessionsAreReleased`, `AckedMeansCompleted`) with three facts
  they rest on: `PipelineIsConsistent` (the position of the goroutine determines
  whether it has a delivery, where its publish call is, and what it may have
  decided; an outcome `"published"` means that a status exists, `"interrupted"`
  that the context is cancelled) and `BuffersAreEmptied`. Without the first an
  ack could carry a false outcome; without the second a new session could start
  with deliveries of an old one. A third, `OnlyDecodedArePending`, keeps late statuses
  away from poison signals.
- `TypeCorrectness`, `HeldDeliveries`, `ReleasedSessions`, `TruthfulAcks` and
  `DisjointHandling` follow from it.
- `ImplementsSignalQueue`: every step posts a decodable signal, settles one whose
  verdict was open, or changes nothing that `SignalQueue` sees.
- `BackoffSchedule`: for every `FailureCap` from 6 on, from `DelayDoubles`, the
  equality of the closed form and the doubling, and `BackoffEntries`, which shows
  that only the two sleeps of `Run` enter the backoff.
- `SingleReplicaRequestsBeforeAck`: with `NothingAckedInHand`, which holds because
  only the one replica acks and it drops what it acks. A status that appears after the ack
  is one of `pending`.
- `DuplicatesProofs` proves `ExplainedDuplicates`. A signal waits for a publish in the
  queue, in a replica's buffer or in its hand; each of these places is one status
  still to come. `EveryStatusAccounted`: the statuses a signal has and the places it
  waits in are together at most 1 and its redeliveries and unanswered requests. With
  `IInv` this is inductive: a receive or a settlement moves or removes a place, an
  answered publish turns one into a status, a late status is counted in `unanswered`, and
  only the broker adds a place, which it counts in `returned`. The places are finitely many whatever `Replicas` is, because
  that is part of the invariant.
- `ProbeProofs` proves type correctness and the four other invariants of `probe_checks` for any number of
  slots, from the goroutine's position, its channels and its connection
  (`AttemptsAreConsistent`) and `DelayIsOnSchedule`.
- `ReadinessProofs`: the inductive invariant `RInv` says that how far `connect` has got
  is how far the topology has been declared, at least (behind the third RPC the
  exchange is there, behind the fourth the queue, behind the fifth the binding);
  that an attempt that was told so (`Told`: its result is `"ok"`, or will be once it has
  closed its connection), and readiness, rest on a queue that is still there; and that an open connection has a broker. Type correctness,
  `TrueHealth` and `RoutedSignals` follow; `ConsumerRefinesProbe` shows that each step
  of the process is one of `Probe` or changes nothing the probe sees.
- `ObjectKeyProofs` proves what trimming, splitting, joining and the two prefix
  normalisations make of texts of every length. It needs induction, which it does by
  least counterexample: the lengths for which a claim holds are a set of naturals, and
  if it is not all of them there is a least one missing (`SetInduction`, and
  `RecursionExists` for the recursive functions). `Normal` describes what `normalizePrefix`
  returns: the join of segments that are neither empty nor padded, and that climb only if
  the whole text does (which `BuildKey` refuses); splitting and joining it again gives
  it back. So a second normalisation, which
  `BuildKey` makes, changes nothing (`PrefixNormalizedOnce`), a key falls apart into the
  prefix and the two canonical names (`KeySplits`), and equal keys under one prefix are
  of one stock (`OneStockPerKey`).
- `SummaryStoreProofs` proves type correctness, `ExactTimeouts`, `ExactPrefetch`,
  `TruthfulResults` and `KeysNameOneStock` for every width, every bound within it and
  every set of environments and texts. `KeysNameOneStock` rests on `KeyInv`: the client's
  prefix is normal, and a call in progress asks for a key that `BuildKey` made of the
  trimmed names of a signal. The texts are assumed to be sequences over one set of
  characters (`TextsAssumption`), which says no more than that they are texts. `ExactTimeouts` rests on `WrapExact` (wraparound changes
  nothing within the range) and on `Longest * Second < Half`; `ExactPrefetch` on
  `FitsTheWire`: numbers up to the code's 65535 keep their value in 16 bits; `TruthfulResults`
  assumes that S3 sends the two codes of a missing object with status 404.
- `PipelineProofs`: `ImplementsStore` carries these over to the pipeline
  (`PipelineReads`). `RightTexts` rests on `TextInv`, which follows the texts stage by
  stage: until the rewrite returns the summary is to be published, what was
  returned is what Ollama's answer is worth (`JudgedAsUsable`), and from the choice on
  the text stays; and on three lemmas about texts, proved from the definition of
  trimming with the least element of a set of positions: what `TrimSpace` returns
  neither begins nor ends with a space (`TrimSpaceTrims`), such a text it leaves
  alone (`TrimSpaceKeeps`), and a text is a suffix of what ends with it
  (`SuffixOfConcat`). All that is assumed of the texts is that they are sequences
  over one set of characters that has the at sign and the space.
  `AudienceRespected` joins three invariants: `TextInv` (a status that is there is the
  form of the text that was chosen), `EnvInv` (a process that handles signals passed
  `Load`'s checks, carried over from the reads by `ImplementsStore`), and that nothing is
  read meanwhile. What `normalizeRecipient` accepts has one at sign with something on
  both sides of it (`RecipientNamesUser`), so that the mention has two, the first at its
  beginning, and its domain is the handle's or the instance's (`MentionHasOneUser`).
  `HostsAssumption` says that a host name has no at sign: `url.Parse` splits the user
  off at the last one and refuses an escaped one, and `instanceHostname` takes what it
  returns.

Every invariant that a run checks is also a theorem, and so are the action properties
(`BackoffFollowsSchedule`; `NoRequestAfterAck` for one replica), the refinement
`RefinesProbe` and the safety part of `SettlesTruthfully`.

Only model-checked: everything under fairness (`ShutdownCompletes`,
`SettlesEverySignal`, `CheckReturns`, `ShutdownStopsProbe`, `EventuallyReady`,
`ShutdownExits`, `EventuallyServes`, `RewriteFailsOpen`, `HandlingEnds`,
`ShutdownEndsHandling`), which is beyond the prover.

## Not modelled

Logging and wording, the prompt included; the HTTP health server, whose failure is
only logged (what it answers is `Readiness.Health`); lengths of time (timers fire at
any moment); the order of the queue; the mutex and the idempotence of
`session.close`, because one goroutine uses a session; settings that are passed on
as they are (credentials, region, bucket, system prompt) and `RedactedAMQPURL`, whose
result is only logged; the AWS configuration files that `summarystore.New` may
fail on; letters whose upper case is longer than one character; interfaces, and
deployment files other than the restart policy.

## Plan

1. Lemmas about progress that need no fairness: that every step of `handleDelivery` and
   of `connect` brings its end nearer, with a measure of what is left. Liveness itself
   stays with TLC.
2. `Session`: the mutex and the idempotent close, for callers on several
   goroutines, should the consumer ever get a second one.
3. A producer and unroutable signals in `Broker`, so that `SignalsAreRouted` meets
   the settlement of `Consumer` in one model.
