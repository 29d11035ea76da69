---------------------------- MODULE ConsumerProofs ---------------------------
(***************************************************************************)
(* Proofs about Consumer.tla for every set of replicas and signals, every  *)
(* prefetch limit, number of attempts and fault budget.                    *)
(***************************************************************************)
EXTENDS ConsumerProperties, TLAPS

USE PoisonAssumption, NoMsgAssumption, ReplicaNamesAssumption,
    PrefetchAssumption, RetriesAssumption, RewriterAssumption,
    FailureCapAssumption, MaxFaultsAssumption

(***************************************************************************)
(* Type correctness.                                                       *)
(***************************************************************************)

LEMMA CloseChannelKeepsTypes ==
    ASSUME BrokerTypeOK, NEW r \in Replicas, CloseChannel(r)
    PROVE  BrokerTypeOK'
BY DEF BrokerTypeOK, CloseChannel

LEMMA DropSocketKeepsTypes ==
    ASSUME BrokerTypeOK, NEW r \in Replicas, DropSocket(r)
    PROVE  BrokerTypeOK'
BY DEF BrokerTypeOK, DropSocket

LEMMA GiveUpKeepsTypes ==
    ASSUME TypeOK, NEW r \in Replicas, NEW m \in Messages, GiveUp(r, m)
    PROVE  /\ posts' \in [Messages -> Nat]
           /\ pending' \in [Messages -> Nat]
           /\ unanswered' \in [Messages -> Nat]
BY DEF TypeOK, PublisherTypeOK, GiveUp

\* Steps of the supervision loop.
LEMMA RunKeepsTypes ==
    ASSUME TypeOK, NEW r \in Replicas, Run(r)
    PROVE  TypeOK'
<1> USE DEF TypeOK, BrokerTypeOK, PublisherTypeOK, Sessionless, InSession,
            Handling, Goto, brokerVars, publisherVars
<1>1. CASE Top(r)
  BY <1>1 DEF Top
<1>2. CASE ConnectFails(r)
  BY <1>2 DEF ConnectFails, CountFailure
<1>3. CASE ConnectSucceeds(r)
  BY <1>3 DEF ConnectSucceeds, OpenChannel
<1>4. CASE Connected(r)
  <2>1. BrokerTypeOK'
    BY <1>4, CloseChannelKeepsTypes, Zenon
       DEF Connected, BrokerTypeOK, brokerVars, TypeOK
  <2> QED BY <1>4, <2>1 DEF Connected
<1>5. CASE SessionEnds(r)
  BY <1>5 DEF SessionEnds, CloseChannel, CountFailure
<1>6. CASE BackoffElapses(r)
  BY <1>6 DEF BackoffElapses
<1>7. CASE BackoffCancelled(r)
  BY <1>7 DEF BackoffCancelled
<1> QED BY <1>1, <1>2, <1>3, <1>4, <1>5, <1>6, <1>7 DEF Run

\* Steps of consume and drainDeliveries.
LEMMA ConsumeKeepsTypes ==
    ASSUME TypeOK, NEW r \in Replicas, Consume(r)
    PROVE  TypeOK'
<1> USE DEF TypeOK, BrokerTypeOK, PublisherTypeOK, Sessionless, InSession,
            Handling, Goto, brokerVars, publisherVars
<1>1. CASE LoopHead(r)
  BY <1>1 DEF LoopHead, StopPushes
<1>2. CASE ReceiveClosed(r)
  BY <1>2 DEF ReceiveClosed
<1>3. CASE SelectDone(r)
  BY <1>3 DEF SelectDone, StopPushes
<1>4. CASE DrainDone(r)
  BY <1>4 DEF DrainDone
<1>5. ASSUME NEW m \in Messages, Receive(r, m)
      PROVE  TypeOK'
  BY <1>5 DEF Receive
<1>6. ASSUME NEW m \in Messages, DrainOne(r, m)
      PROVE  TypeOK'
  BY <1>6 DEF DrainOne, Nack, processVars
<1> QED BY <1>1, <1>2, <1>3, <1>4, <1>5, <1>6 DEF Consume

\* Steps of handleDelivery and publish.
LEMMA HandleDeliveryKeepsTypes ==
    ASSUME TypeOK, NEW r \in Replicas, HandleDelivery(r), cur[r] \in Messages,
           req[r] = "sleep" => RetriesLeft(r)
    PROVE  TypeOK'
<1> USE DEF TypeOK, BrokerTypeOK, PublisherTypeOK, Sessionless, InSession,
            Handling, Goto, brokerVars, publisherVars, processVars
<1>1. CASE Begin(r)
  BY <1>1 DEF Begin, Outcomes, Completed
<1>2. CASE ReadSkips(r)
  BY <1>2 DEF ReadSkips, Outcomes, Completed
<1>3. CASE ReadSucceeds(r)
  BY <1>3 DEF ReadSucceeds, CallPublish
<1>4. CASE Rewrite(r)
  BY <1>4 DEF Rewrite, CallPublish
<1>5. CASE PublishSends(r)
  BY <1>5 DEF PublishSends, Send
<1>6. CASE PublishSucceeds(r)
  BY <1>6 DEF PublishSucceeds, Answered, Outcomes, Completed
<1>7. CASE PublishRetries(r)
  BY <1>7 DEF PublishRetries, FailsAndSleeps, Fails, GiveUp
<1>8. CASE PublishWakes(r)
  BY <1>8 DEF PublishWakes, Wake, RetriesLeft
<1>9. CASE PublishFails(r)
  BY <1>9 DEF PublishFails, FailsForGood, Fails, GiveUp, Outcomes,
              Completed
<1>10. CASE Settle(r)
  BY <1>10 DEF Settle, Ack, Nack, Outcomes, Completed
<1> QED BY <1>1, <1>2, <1>3, <1>4, <1>5, <1>6, <1>7, <1>8, <1>9, <1>10
        DEF HandleDelivery

\* Faults, restarts and the broker's pushes.
LEMMA EnvironmentKeepsTypes ==
    ASSUME TypeOK, NEW r \in Replicas, Environment(r)
    PROVE  TypeOK'
<1> USE DEF TypeOK, BrokerTypeOK, PublisherTypeOK, Sessionless, InSession,
            Handling, Stopped, brokerVars, publisherVars, processVars
<1>1. CASE ChannelDies(r)
  BY <1>1 DEF ChannelDies, Fault, LoseChannel
<1>2. CASE ConsumerCancelled(r)
  BY <1>2 DEF ConsumerCancelled, Fault, CancelByBroker
<1>3. CASE Terminate(r)
  BY <1>3 DEF Terminate, Fault
<1>4. CASE Crash(r)
  <2>1. BrokerTypeOK'
    BY <1>4, DropSocketKeepsTypes DEF Crash
  <2>2. PublisherTypeOK'
    <3>1. CASE cur[r] = NoMsg
      BY <1>4, <3>1 DEF Crash
    <3>2. CASE cur[r] # NoMsg
      <4>1. AbandonPublish(r, cur[r]) /\ cur[r] \in Messages
        BY <1>4, <3>2 DEF Crash
      <4>2. GiveUp(r, cur[r])
        BY <4>1 DEF AbandonPublish
      <4> QED BY <4>1, <4>2, GiveUpKeepsTypes DEF AbandonPublish
    <3> QED BY <3>1, <3>2
  <2>3. /\ pc' = [pc EXCEPT ![r] = "down"]
        /\ cancelled' = [cancelled EXCEPT ![r] = FALSE]
        /\ failures' = [failures EXCEPT ![r] = 0]
        /\ delivered' = [delivered EXCEPT ![r] = FALSE]
        /\ cur' = [cur EXCEPT ![r] = NoMsg]
        /\ outcome' = [outcome EXCEPT ![r] = "none"]
        /\ UNCHANGED verdict
        /\ faults < MaxFaults /\ faults' = faults + 1
    BY <1>4 DEF Crash, Fault
  <2> QED BY <2>1, <2>2, <2>3 DEF Outcomes
<1>5. CASE Restart(r)
  BY <1>5 DEF Restart
<1>6. ASSUME NEW m \in Messages, BrokerPushes(r, m)
      PROVE  TypeOK'
  BY <1>6 DEF BrokerPushes, Push
<1> QED BY <1>1, <1>2, <1>3, <1>4, <1>5, <1>6 DEF Environment

(***************************************************************************)
(* Safety.  IInv adds to the properties what makes them inductive: where   *)
(* the pipeline is determines what it has in hand and what it may have     *)
(* decided, and a closed channel leaves no deliveries behind.              *)
(***************************************************************************)

Parts ==
    /\ DeliveriesAreHeld
    /\ SessionsAreReleased
    /\ AckedMeansCompleted
    /\ PipelineIsConsistent
    /\ BuffersAreEmptied
    /\ OnlyDecodedArePending

\* The supervision loop opens channels only where none is open and closes them on
\* every way out.
LEMMA RunKeepsParts ==
    ASSUME IInv, NEW r \in Replicas, Run(r)
    PROVE  Parts'
<1> USE DEF IInv, Parts, TypeOK, BrokerTypeOK, PublisherTypeOK,
            DeliveriesAreHeld, SessionsAreReleased, Held, AckedMeansCompleted,
            PipelineIsConsistent, BuffersAreEmptied, OnlyDecodedArePending,
            Goto, Sessionless, InSession, Handling, Stopped, Completed, Outcomes, RetriesLeft,
            brokerVars, publisherVars, processVars
<1>1. CASE Top(r)
  BY <1>1, SMTT(30) DEF Top
<1>2. CASE ConnectFails(r)
  BY <1>2, SMTT(30) DEF ConnectFails
<1>3. CASE ConnectSucceeds(r)
  BY <1>3, SMTT(30) DEF ConnectSucceeds, OpenChannel
<1>4. CASE Connected(r)
  BY <1>4, SMTT(30) DEF Connected, CloseChannel
<1>5. CASE SessionEnds(r)
  BY <1>5, SMTT(30) DEF SessionEnds, CloseChannel
<1>6. CASE BackoffElapses(r)
  BY <1>6, SMTT(30) DEF BackoffElapses
<1>7. CASE BackoffCancelled(r)
  BY <1>7, SMTT(30) DEF BackoffCancelled
<1> QED BY <1>1, <1>2, <1>3, <1>4, <1>5, <1>6, <1>7 DEF Run

\* The delivery loop moves deliveries from the buffer into the hand or back to the
\* queue, never both.
LEMMA ConsumeKeepsParts ==
    ASSUME IInv, NEW r \in Replicas, Consume(r)
    PROVE  Parts'
<1> USE DEF IInv, Parts, TypeOK, BrokerTypeOK, PublisherTypeOK,
            DeliveriesAreHeld, SessionsAreReleased, Held, AckedMeansCompleted,
            PipelineIsConsistent, BuffersAreEmptied, OnlyDecodedArePending,
            Goto, Sessionless, InSession, Handling, Stopped, Completed, Outcomes, RetriesLeft,
            brokerVars, publisherVars, processVars
<1>1. CASE LoopHead(r)
  BY <1>1, SMTT(30) DEF LoopHead, StopPushes
<1>2. CASE ReceiveClosed(r)
  BY <1>2, SMTT(30) DEF ReceiveClosed
<1>3. CASE SelectDone(r)
  BY <1>3, SMTT(30) DEF SelectDone, StopPushes
<1>4. CASE DrainDone(r)
  BY <1>4, SMTT(30) DEF DrainDone
<1>5. ASSUME NEW m \in Messages, Receive(r, m)
      PROVE  Parts'
  BY <1>5, SMTT(30) DEF Receive
<1>6. ASSUME NEW m \in Messages, DrainOne(r, m)
      PROVE  Parts'
  BY <1>6, SMTT(30) DEF DrainOne, Nack
<1> QED BY <1>1, <1>2, <1>3, <1>4, <1>5, <1>6 DEF Consume

\* The pipeline decides one outcome per delivery and settles it while it is held.
LEMMA HandleDeliveryKeepsParts ==
    ASSUME IInv, NEW r \in Replicas, HandleDelivery(r)
    PROVE  Parts'
<1> USE DEF IInv, Parts, TypeOK, BrokerTypeOK, PublisherTypeOK,
            DeliveriesAreHeld, SessionsAreReleased, Held, AckedMeansCompleted,
            PipelineIsConsistent, BuffersAreEmptied, OnlyDecodedArePending,
            Goto, Sessionless, InSession, Handling, Stopped, Completed, Outcomes, RetriesLeft,
            brokerVars, publisherVars, processVars
<1>1. CASE Begin(r)
  BY <1>1, SMTT(30) DEF Begin
<1>2. CASE ReadSkips(r)
  BY <1>2, SMTT(30) DEF ReadSkips
<1>3. CASE ReadSucceeds(r)
  BY <1>3, SMTT(30) DEF ReadSucceeds, CallPublish
<1>4. CASE Rewrite(r)
  BY <1>4, SMTT(30) DEF Rewrite, CallPublish
<1>5. CASE PublishSends(r)
  BY <1>5, SMTT(30) DEF PublishSends, Send
<1>6. CASE PublishSucceeds(r)
  BY <1>6, SMTT(30) DEF PublishSucceeds, Answered
<1>7. CASE PublishRetries(r)
  BY <1>7, SMTT(30) DEF PublishRetries, FailsAndSleeps, Fails, GiveUp, RetriesLeft
<1>8. CASE PublishWakes(r)
  BY <1>8, SMTT(30) DEF PublishWakes, Wake
<1>9. CASE PublishFails(r)
  BY <1>9, SMTT(30) DEF PublishFails, FailsForGood, Fails, GiveUp
<1>10. CASE Settle(r)
  BY <1>10, SMTT(30) DEF Settle, Ack, Nack
<1> QED BY <1>1, <1>2, <1>3, <1>4, <1>5, <1>6, <1>7, <1>8, <1>9, <1>10 DEF HandleDelivery

\* Faults take every delivery of the channel or process they hit away from it.
LEMMA EnvironmentKeepsParts ==
    ASSUME IInv, NEW r \in Replicas, Environment(r)
    PROVE  Parts'
<1> USE DEF IInv, Parts, TypeOK, BrokerTypeOK, PublisherTypeOK,
            DeliveriesAreHeld, SessionsAreReleased, Held, AckedMeansCompleted,
            PipelineIsConsistent, BuffersAreEmptied, OnlyDecodedArePending,
            Goto, Sessionless, InSession, Handling, Stopped, Completed, Outcomes, RetriesLeft,
            brokerVars, publisherVars, processVars
<1>1. CASE ChannelDies(r)
  BY <1>1, SMTT(30) DEF ChannelDies, LoseChannel
<1>2. CASE ConsumerCancelled(r)
  BY <1>2, SMTT(30) DEF ConsumerCancelled, CancelByBroker
<1>3. CASE Terminate(r)
  BY <1>3, SMTT(30) DEF Terminate
<1>4. CASE Crash(r)
  BY <1>4, SMTT(30) DEF Crash, DropSocket, AbandonPublish, GiveUp
<1>5. CASE Restart(r)
  BY <1>5, SMTT(30) DEF Restart
<1>6. ASSUME NEW m \in Messages, BrokerPushes(r, m)
      PROVE  Parts'
  BY <1>6, SMTT(30) DEF BrokerPushes, Push
<1> QED BY <1>1, <1>2, <1>3, <1>4, <1>5, <1>6 DEF Environment

\* The broker requeues what a lost channel held.
LEMMA ReapKeepsInv ==
    ASSUME IInv, NEW m \in Messages, BrokerReaps(m)
    PROVE  IInv'
<1> USE DEF BrokerReaps, Reap, IInv, TypeOK, BrokerTypeOK, publisherVars,
            processVars
<1>1. TypeOK'
  BY DEF PublisherTypeOK
<1>2. Parts'
  BY SMTT(30) DEF Parts, DeliveriesAreHeld, SessionsAreReleased, Held,
       AckedMeansCompleted, PipelineIsConsistent, BuffersAreEmptied,
       OnlyDecodedArePending, RetriesLeft
<1> QED BY <1>1, <1>2 DEF Parts

\* A late status is of a signal that could be decoded.
LEMMA LateStatusKeepsInv ==
    ASSUME IInv, NEW m \in Messages, LateStatus(m)
    PROVE  IInv'
<1> USE DEF LateStatus, CarryOut, IInv, TypeOK, BrokerTypeOK, PublisherTypeOK,
            brokerVars, processVars
<1>1. TypeOK'
  OBVIOUS
<1>2. m \notin Poison
  BY DEF OnlyDecodedArePending
<1>3. Parts'
  BY <1>2, SMTT(30) DEF Parts, DeliveriesAreHeld, SessionsAreReleased, Held,
       AckedMeansCompleted, PipelineIsConsistent, BuffersAreEmptied,
       OnlyDecodedArePending, RetriesLeft
<1> QED BY <1>1, <1>3 DEF Parts

LEMMA InitEstablishesInv == Init => IInv
<1> SUFFICES ASSUME Init PROVE IInv
  OBVIOUS
<1> USE DEF Init, BrokerInit, PublisherInit, Sessionless, InSession, Handling,
            Outcomes, Completed
<1>1. TypeOK
  BY DEF TypeOK, BrokerTypeOK, PublisherTypeOK
<1>2. Parts
  BY DEF Parts, DeliveriesAreHeld, SessionsAreReleased, Held,
         AckedMeansCompleted, PipelineIsConsistent, BuffersAreEmptied,
         OnlyDecodedArePending
<1> QED BY <1>1, <1>2 DEF IInv, Parts

LEMMA StutterKeepsInv == IInv /\ UNCHANGED vars => IInv'
<1> SUFFICES ASSUME IInv, UNCHANGED vars PROVE IInv'
  OBVIOUS
<1> USE DEF IInv, vars, brokerVars, publisherVars, processVars
<1>1. TypeOK'
  BY DEF TypeOK, BrokerTypeOK, PublisherTypeOK
<1>2. Parts'
  BY DEF Parts, DeliveriesAreHeld, SessionsAreReleased, Held,
         AckedMeansCompleted, PipelineIsConsistent, BuffersAreEmptied,
         OnlyDecodedArePending, RetriesLeft
<1> QED BY <1>1, <1>2 DEF Parts

LEMMA StepKeepsInv == IInv /\ [Next]_vars => IInv'
<1> SUFFICES ASSUME IInv, [Next]_vars PROVE IInv'
  OBVIOUS
<1>1. TypeOK
  BY DEF IInv
<1>2. ASSUME NEW r \in Replicas, Run(r) PROVE IInv'
  BY <1>1, <1>2, RunKeepsTypes, RunKeepsParts DEF IInv, Parts
<1>3. ASSUME NEW r \in Replicas, Consume(r) PROVE IInv'
  BY <1>1, <1>3, ConsumeKeepsTypes, ConsumeKeepsParts DEF IInv, Parts
<1>4. ASSUME NEW r \in Replicas, HandleDelivery(r) PROVE IInv'
  <2>1. pc[r] \in Handling
    BY <1>4 DEF HandleDelivery, Handling, Goto, Begin, ReadSkips, ReadSucceeds,
                Rewrite, PublishSends, PublishSucceeds, PublishRetries,
                PublishWakes, PublishFails, Settle
  <2>2. cur[r] \in Messages /\ (req[r] = "sleep" => RetriesLeft(r))
    BY <1>1, <2>1 DEF IInv, TypeOK, PipelineIsConsistent
  <2> QED BY <1>1, <1>4, <2>2, HandleDeliveryKeepsTypes,
             HandleDeliveryKeepsParts DEF IInv, Parts
<1>5. ASSUME NEW r \in Replicas, Environment(r) PROVE IInv'
  BY <1>1, <1>5, EnvironmentKeepsTypes, EnvironmentKeepsParts DEF IInv, Parts
<1>6. ASSUME NEW m \in Messages, BrokerReaps(m) PROVE IInv'
  BY <1>6, ReapKeepsInv
<1>7. ASSUME NEW m \in Messages, LateStatus(m) PROVE IInv'
  BY <1>7, LateStatusKeepsInv
<1>8. CASE Idle
  BY <1>8, StutterKeepsInv DEF Idle
<1>9. CASE UNCHANGED vars
  BY <1>9, StutterKeepsInv
<1> QED BY <1>2, <1>3, <1>4, <1>5, <1>6, <1>7, <1>8, <1>9 DEF Next, Process

THEOREM Invariance == Spec => []IInv
<1> QED BY InitEstablishesInv, StepKeepsInv, PTL DEF Spec

\* Every variable keeps its type.
THEOREM TypeCorrectness == Spec => []TypeOK
<1>1. IInv => TypeOK
  BY DEF IInv
<1> QED BY <1>1, Invariance, PTL

\* No tag is settled twice or on another channel's behalf.
THEOREM HeldDeliveries == Spec => []DeliveriesAreHeld
<1>1. IInv => DeliveriesAreHeld
  BY DEF IInv
<1> QED BY <1>1, Invariance, PTL

\* No exit of the supervision loop keeps a channel or a signal.
THEOREM ReleasedSessions == Spec => []SessionsAreReleased
<1>1. IInv => SessionsAreReleased
  BY DEF IInv
<1> QED BY <1>1, Invariance, PTL

\* A signal leaves the queue only with a completed outcome that is true of it.
THEOREM TruthfulAcks == Spec => []AckedMeansCompleted
<1>1. IInv => AckedMeansCompleted
  BY DEF IInv
<1> QED BY <1>1, Invariance, PTL

\* Competing replicas with open channels handle disjoint signals.
THEOREM DisjointHandling == Spec => []ExclusiveHandling
<1>1. IInv => ExclusiveHandling
  BY DEF IInv, DeliveriesAreHeld, ExclusiveHandling
<1> QED BY <1>1, Invariance, PTL

(***************************************************************************)
(* The reconnect schedule.                                                 *)
(***************************************************************************)

\* backoffDelay is the doubling of a delay that starts at backoffInitial: its
\* closed form and the probe's running delay are the same sequence.
LEMMA DelayDoubles ==
    ASSUME NEW n \in Nat
    PROVE  BackoffDelay(n + 1) = IF n = 0 THEN BackoffInitial
                                 ELSE NextRetryDelay(BackoffDelay(n))
<1> USE DEF BackoffDelay, NextRetryDelay, BackoffInitial, BackoffMax, Shift
<1>1. CASE n \in 0..2
  BY <1>1
<1>2. CASE n \in 3..5
  BY <1>2
<1>3. CASE n >= 6
  BY <1>3
<1> QED BY <1>1, <1>2, <1>3

\* A counter that stops at 6 or later gives the delays of one that does not.
LEMMA CappedDelayDoubles ==
    ASSUME FailureCap >= 6, NEW n \in 0..FailureCap
    PROVE  BackoffDelay(CountFailure(n)) =
               IF n = 0 THEN BackoffInitial
               ELSE NextRetryDelay(BackoffDelay(n))
<1>1. CASE n < FailureCap
  BY <1>1, DelayDoubles DEF CountFailure
<1>2. CASE n = FailureCap
  BY <1>2 DEF CountFailure, BackoffDelay, NextRetryDelay, BackoffMax
<1> QED BY <1>1, <1>2

\* The two places Run sleeps at are the only ways into the backoff.
LEMMA BackoffEntries ==
    ASSUME IInv, [Next]_vars, NEW r \in Replicas,
           pc'[r] = "backoff", pc[r] # "backoff"
    PROVE  ConnectFails(r) \/ SessionEnds(r)
<1> USE DEF IInv, TypeOK, Goto, processVars
<1>1. ASSUME NEW q \in Replicas, Run(q)
      PROVE  ConnectFails(r) \/ SessionEnds(r)
  <2>1. CASE ConnectFails(q) \/ SessionEnds(q)
    <3>1. q = r
      BY <2>1 DEF ConnectFails, SessionEnds
    <3> QED BY <2>1, <3>1
  <2>2. CASE Top(q) \/ ConnectSucceeds(q) \/ Connected(q)
             \/ BackoffElapses(q) \/ BackoffCancelled(q)
    BY <2>2 DEF Top, ConnectSucceeds, Connected, BackoffElapses,
                BackoffCancelled
  <2> QED BY <1>1, <2>1, <2>2 DEF Run
<1>2. ASSUME NEW q \in Replicas, Consume(q) PROVE FALSE
  BY <1>2 DEF Consume, LoopHead, ReceiveClosed, SelectDone, DrainDone, Receive,
              DrainOne
<1>3. ASSUME NEW q \in Replicas, HandleDelivery(q) PROVE FALSE
  BY <1>3 DEF HandleDelivery, Begin, ReadSkips, ReadSucceeds, Rewrite,
              PublishSends, PublishSucceeds, PublishRetries, PublishWakes,
              PublishFails, Settle
<1>4. ASSUME NEW q \in Replicas, Environment(q) PROVE FALSE
  BY <1>4 DEF Environment, ChannelDies, ConsumerCancelled, Terminate, Crash,
              Restart, BrokerPushes
<1>5. ASSUME NEW m \in Messages, BrokerReaps(m) \/ LateStatus(m) PROVE FALSE
  BY <1>5 DEF BrokerReaps, LateStatus
<1>6. CASE Idle \/ UNCHANGED vars
  BY <1>6 DEF Idle, vars
<1> QED BY <1>1, <1>2, <1>3, <1>4, <1>5, <1>6 DEF Next, Process

\* Every entry into the backoff follows the schedule: it starts at 1s, doubles
\* up to 30s, and starts over after a session that delivered something.
THEOREM BackoffSchedule ==
    ASSUME FailureCap >= 6
    PROVE  Spec => BackoffFollowsSchedule
<1>1. IInv /\ [Next]_vars => [ScheduledBackoff]_vars
  <2> SUFFICES ASSUME IInv, [Next]_vars, NEW r \in Replicas,
                      pc'[r] = "backoff", pc[r] # "backoff"
               PROVE  BackoffDelay(failures'[r]) =
                        IF failures[r] = 0 \/ (pc[r] = "ended" /\ delivered[r])
                        THEN BackoffInitial
                        ELSE NextRetryDelay(BackoffDelay(failures[r]))
    BY DEF ScheduledBackoff
  <2>1. failures \in [Replicas -> 0..FailureCap]
    BY DEF IInv, TypeOK
  <2>2. CASE ConnectFails(r)
    <3>1. pc[r] = "connecting" /\ failures'[r] = CountFailure(failures[r])
      BY <2>1, <2>2 DEF ConnectFails, Goto, IInv, TypeOK
    <3> QED BY <2>1, <3>1, CappedDelayDoubles
  <2>3. CASE SessionEnds(r)
    <3>1. /\ pc[r] = "ended"
          /\ failures'[r] = CountFailure(IF delivered[r] THEN 0
                                         ELSE failures[r])
      BY <2>1, <2>3 DEF SessionEnds, Goto, IInv, TypeOK
    <3>2. CASE delivered[r]
      BY <2>1, <3>1, <3>2, CappedDelayDoubles
    <3>3. CASE ~delivered[r]
      BY <2>1, <3>1, <3>3, CappedDelayDoubles
    <3> QED BY <3>2, <3>3
  <2> QED BY <2>2, <2>3, BackoffEntries
<1> QED BY <1>1, Invariance, PTL DEF Spec, BackoffFollowsSchedule

(***************************************************************************)
(* No request after the ack, for one replica.                              *)
(***************************************************************************)

\* What a replica has in its buffer or in hand has not been acked.  With
\* several replicas this fails: one that lost its channel still handles what
\* another has settled.
NothingAckedInHand ==
    \A r \in Replicas :
        /\ \A m \in buffer[r] : loc[m] # "gone"
        /\ cur[r] # NoMsg => loc[cur[r]] # "gone"

\* Only the one replica acks, and it drops what it acks.
LEMMA NothingAckedStep ==
    ASSUME \A r, q \in Replicas : r = q,
           IInv, NothingAckedInHand, [Next]_vars
    PROVE  NothingAckedInHand'
<1> USE DEF IInv, TypeOK, BrokerTypeOK, NothingAckedInHand, DeliveriesAreHeld,
            SessionsAreReleased, Held, BuffersAreEmptied, Goto, brokerVars,
            processVars
<1>1. ASSUME NEW r \in Replicas, Run(r) PROVE NothingAckedInHand'
  BY <1>1, SMTT(30) DEF Run, Top, ConnectFails, ConnectSucceeds, OpenChannel,
       Connected, SessionEnds, CloseChannel, BackoffElapses, BackoffCancelled
<1>2. ASSUME NEW r \in Replicas, Consume(r) PROVE NothingAckedInHand'
  BY <1>2, SMTT(30) DEF Consume, LoopHead, StopPushes, ReceiveClosed,
       SelectDone, DrainDone, Receive, DrainOne, Nack
<1>3. ASSUME NEW r \in Replicas, HandleDelivery(r) PROVE NothingAckedInHand'
  <2>1. CASE Settle(r)
    BY <2>1, SMTT(30) DEF Settle, Ack, Nack
  <2>2. CASE ~Settle(r)
    BY <1>3, <2>2, SMTT(30) DEF HandleDelivery, Begin, ReadSkips, ReadSucceeds,
         Rewrite, PublishSends, PublishSucceeds, PublishRetries, PublishWakes,
         PublishFails
  <2> QED BY <2>1, <2>2
<1>4. ASSUME NEW r \in Replicas, Environment(r) PROVE NothingAckedInHand'
  <2>1. CASE ChannelDies(r)
    BY <2>1 DEF ChannelDies, LoseChannel
  <2>2. CASE Crash(r)
    BY <2>2 DEF Crash, DropSocket
  <2>3. CASE ConsumerCancelled(r) \/ Terminate(r) \/ Restart(r)
    BY <2>3 DEF ConsumerCancelled, CancelByBroker, Terminate, Restart
  <2>4. ASSUME NEW m \in Messages, BrokerPushes(r, m)
        PROVE  NothingAckedInHand'
    BY <2>4 DEF BrokerPushes, Push
  <2> QED BY <1>4, <2>1, <2>2, <2>3, <2>4 DEF Environment
<1>5. ASSUME NEW m \in Messages, BrokerReaps(m) \/ LateStatus(m)
      PROVE  NothingAckedInHand'
  BY <1>5 DEF BrokerReaps, Reap, LateStatus
<1>6. CASE Idle \/ UNCHANGED vars
  BY <1>6 DEF Idle, vars
<1> QED BY <1>1, <1>2, <1>3, <1>4, <1>5, <1>6 DEF Next, Process

\* A single replica sends no request for a signal after its ack, whatever
\* channels, processes and answers are lost on the way; what the instance creates
\* for an acked signal comes from a request that was given up on before.
THEOREM SingleReplicaRequestsBeforeAck ==
    ASSUME \A r, q \in Replicas : r = q
    PROVE  Spec => NoRequestAfterAck
<1>1. Init => NothingAckedInHand
  BY DEF Init, BrokerInit, NothingAckedInHand
<1>2. IInv /\ NothingAckedInHand /\ [Next]_vars => NothingAckedInHand'
  BY NothingAckedStep
<1>3. IInv /\ NothingAckedInHand /\ [Next]_vars => [AckedStaysUnrequested]_vars
  <2> SUFFICES ASSUME IInv, NothingAckedInHand, Next, NEW m \in Messages,
                      loc[m] = "gone"
               PROVE  /\ \A r \in Replicas : cur[r] # m
                      /\ posts'[m] - posts[m] = unanswered'[m] - unanswered[m]
    BY DEF AckedStaysUnrequested
  <2>1. \A r \in Replicas : cur[r] # m
    BY NoMsgAssumption DEF NothingAckedInHand
  <2> USE <2>1 DEF IInv, TypeOK, PublisherTypeOK, PipelineIsConsistent, Handling,
              publisherVars
  <2> DEFINE Same == posts'[m] - posts[m] = unanswered'[m] - unanswered[m]
  <2>2. ASSUME NEW r \in Replicas, Run(r) PROVE Same
    BY <2>2 DEF Run, Top, ConnectFails, ConnectSucceeds, Connected,
         SessionEnds, BackoffElapses, BackoffCancelled
  <2>3. ASSUME NEW r \in Replicas, Consume(r) PROVE Same
    BY <2>3 DEF Consume, LoopHead, ReceiveClosed, SelectDone, DrainDone,
         Receive, DrainOne
  <2>4. ASSUME NEW r \in Replicas, HandleDelivery(r) PROVE Same
    <3>1. CASE PublishSucceeds(r)
      BY <3>1 DEF PublishSucceeds, Answered, Goto
    <3>2. CASE ~PublishSucceeds(r)
      BY <2>4, <3>2 DEF HandleDelivery, Begin, ReadSkips, ReadSucceeds,
         Rewrite, CallPublish, PublishSends, Send, PublishRetries,
         FailsAndSleeps, PublishWakes, Wake, PublishFails, FailsForGood, Fails,
         GiveUp, Settle
    <3> QED BY <3>1, <3>2
  <2>5. ASSUME NEW r \in Replicas, Environment(r) PROVE Same
    BY <2>5 DEF Environment, ChannelDies, ConsumerCancelled,
         Terminate, Crash, AbandonPublish, GiveUp, Restart, BrokerPushes
  <2>6. ASSUME NEW n \in Messages, BrokerReaps(n) PROVE Same
    BY <2>6 DEF BrokerReaps
  <2>7. ASSUME NEW n \in Messages, LateStatus(n) PROVE Same
    BY <2>7 DEF LateStatus, CarryOut
  <2>8. CASE Idle
    BY <2>8 DEF Idle, vars
  <2> QED BY <2>1, <2>2, <2>3, <2>4, <2>5, <2>6, <2>7, <2>8 DEF Next, Process
<1> QED BY <1>1, <1>2, <1>3, Invariance, PTL DEF Spec, NoRequestAfterAck

(***************************************************************************)
(* The service implements SignalQueue (its safety part).                   *)
(***************************************************************************)

\* Steps of the pipeline post a decodable signal, settle one, or are invisible.
LEMMA HandleDeliverySimulates ==
    ASSUME IInv, NEW r \in Replicas, HandleDelivery(r)
    PROVE  SQ!Next \/ UNCHANGED SQ!vars
<1> USE DEF IInv, TypeOK, PublisherTypeOK, PipelineIsConsistent, Handling,
            Goto, SQ!vars, publisherVars
<1>1. CASE Begin(r) \/ ReadSkips(r) \/ ReadSucceeds(r) \/ Rewrite(r)
           \/ PublishSends(r) \/ PublishRetries(r) \/ PublishWakes(r)
           \/ PublishFails(r)
  BY <1>1 DEF Begin, ReadSkips, ReadSucceeds, Rewrite, CallPublish,
              PublishSends, Send, PublishRetries, FailsAndSleeps, PublishWakes,
              Wake, PublishFails, FailsForGood, Fails, GiveUp
<1>2. CASE PublishSucceeds(r)
  <2>1. /\ cur[r] \in Messages /\ cur[r] \notin Poison
        /\ posts' = [posts EXCEPT ![cur[r]] = @ + 1] /\ verdict' = verdict
    BY <1>2 DEF PublishSucceeds, Answered
  <2> QED BY <2>1 DEF SQ!Next, SQ!Post
<1>3. CASE Settle(r)
  <2>1. CASE ~cancelled[r] /\ chan[r] = "open"
    <3>1. /\ cur[r] \in Messages
          /\ posts' = posts
          /\ verdict' = [verdict EXCEPT ![cur[r]] = outcome[r]]
      BY <1>3, <2>1 DEF Settle
    <3>2. verdict[cur[r]] = "none"
      BY <2>1, <3>1, ReplicaNamesAssumption
         DEF DeliveriesAreHeld, AckedMeansCompleted, BrokerTypeOK
    <3>3. outcome[r] \in Completed
      BY <1>3, <2>1 DEF Settle, Outcomes
    <3>4. /\ outcome[r] = "poison" <=> cur[r] \in Poison
          /\ outcome[r] = "published" => posts[cur[r]] > 0
      BY <3>3
    <3>5. SQ!Settle(cur[r])
      BY <3>1, <3>2, <3>3, <3>4 DEF SQ!Settle, Completed
    <3> QED BY <3>1, <3>5 DEF SQ!Next
  <2>2. CASE cancelled[r] \/ chan[r] # "open"
    <3>1. posts' = posts
      BY <1>3 DEF Settle
    <3>2. verdict' = verdict
      BY <1>3, <2>2 DEF Settle
    <3> QED BY <3>1, <3>2
  <2> QED BY <2>1, <2>2
<1> QED BY <1>1, <1>2, <1>3 DEF HandleDelivery

\* A late status is one more of a decodable signal.
LEMMA LateStatusSimulates ==
    ASSUME IInv, NEW m \in Messages, LateStatus(m)
    PROVE  SQ!Next
<1>1. m \notin Poison
  BY DEF LateStatus, CarryOut, IInv, OnlyDecodedArePending
<1>2. posts' = [posts EXCEPT ![m] = @ + 1] /\ verdict' = verdict
  BY DEF LateStatus, CarryOut
<1> QED BY <1>1, <1>2 DEF SQ!Next, SQ!Post

\* Every behaviour of the replicas is one of the abstract queue: a signal is
\* settled once and truthfully, and only decodable signals are posted.
THEOREM ImplementsSignalQueue == Spec => SettlesTruthfully
<1>1. Init => SQ!Init
  BY DEF Init, PublisherInit, SQ!Init
<1>2. IInv /\ [Next]_vars => [SQ!Next]_(SQ!vars)
  <2> SUFFICES ASSUME IInv, [Next]_vars
               PROVE  SQ!Next \/ UNCHANGED SQ!vars
    OBVIOUS
  <2>1. ASSUME NEW r \in Replicas, Run(r) PROVE UNCHANGED SQ!vars
    BY <2>1 DEF Run, Top, ConnectFails, ConnectSucceeds, Connected,
         SessionEnds, BackoffElapses, BackoffCancelled, SQ!vars, publisherVars
  <2>2. ASSUME NEW r \in Replicas, Consume(r) PROVE UNCHANGED SQ!vars
    BY <2>2 DEF Consume, LoopHead, ReceiveClosed, SelectDone, DrainDone,
         Receive, DrainOne, SQ!vars, publisherVars
  <2>3. ASSUME NEW m \in Messages, BrokerReaps(m) PROVE UNCHANGED SQ!vars
    BY <2>3 DEF BrokerReaps, SQ!vars, publisherVars
  <2>4. ASSUME NEW r \in Replicas, Environment(r) PROVE UNCHANGED SQ!vars
    BY <2>4 DEF Environment, ChannelDies, ConsumerCancelled, Terminate, Crash,
         AbandonPublish, GiveUp, Restart, BrokerPushes, SQ!vars, publisherVars
  <2>5. CASE Idle \/ UNCHANGED vars
    BY <2>5 DEF Idle, vars, SQ!vars, publisherVars
  <2> QED BY <2>1, <2>2, <2>3, <2>4, <2>5, HandleDeliverySimulates,
             LateStatusSimulates DEF Next, Process
<1> QED BY <1>1, <1>2, Invariance, PTL DEF Spec, SettlesTruthfully, SQ!Safe
==============================================================================
