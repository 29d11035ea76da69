-------------------------------- MODULE Broker -------------------------------
(***************************************************************************)
(* RabbitMQ and the amqp091-go client library as internal/rabbitmq uses    *)
(* them: one durable queue, one channel per replica with manual            *)
(* acknowledgements and a prefetch limit, and the library's client-side    *)
(* buffer between the socket and the deliveries stream.                    *)
(*                                                                         *)
(* The broker and the library are external code.  What is modelled is what *)
(* the source relies on: an unsettled delivery belongs to one channel, a   *)
(* settlement on a dead channel has no effect, and the broker requeues     *)
(* whatever a closed or lost channel left unsettled.                       *)
(*                                                                         *)
(* The buffer is a set: it forgets the order of the queue, so the model    *)
(* allows every order in which the deliveries could be read.               *)
(***************************************************************************)
EXTENDS Signals

CONSTANT Prefetch       \* RABBITMQ_PREFETCH: unsettled deliveries per channel

ASSUME PrefetchAssumption == Prefetch \in Nat \ {0}

VARIABLES
    loc,        \* loc[m]: in the queue, held by a replica's channel, lost
                \* with a dead channel the broker has not yet noticed, or acked
    chan,       \* chan[r]: the channel of r's session
    consuming,  \* consuming[r]: the broker pushes deliveries on that channel
    buffer,     \* buffer[r]: deliveries pushed to r and not yet received by it
    returned    \* history: how many times m went back to the queue

brokerVars == <<loc, chan, consuming, buffer, returned>>

Held(r) == {m \in Messages : loc[m] = r}

BrokerTypeOK ==
    /\ loc \in [Messages -> {"ready", "orphan", "gone"} \cup Replicas]
    /\ chan \in [Replicas -> {"none", "open", "dead"}]
    /\ consuming \in [Replicas -> BOOLEAN]
    /\ buffer \in [Replicas -> SUBSET Messages]
    /\ returned \in [Messages -> Nat]

BrokerInit ==
    /\ loc = [m \in Messages |-> "ready"]
    /\ chan = [r \in Replicas |-> "none"]
    /\ consuming = [r \in Replicas |-> FALSE]
    /\ buffer = [r \in Replicas |-> {}]
    /\ returned = [m \in Messages |-> 0]

-----------------------------------------------------------------------------
(* Steps of the broker itself.                                             *)

\* basic.deliver: a ready message goes to a channel below its prefetch limit.
Push(r, m) ==
    /\ chan[r] = "open" /\ consuming[r]
    /\ loc[m] = "ready"
    /\ Cardinality(Held(r)) < Prefetch
    /\ loc' = [loc EXCEPT ![m] = r]
    /\ buffer' = [buffer EXCEPT ![r] = @ \cup {m}]
    /\ UNCHANGED <<chan, consuming, returned>>

\* The broker notices the lost channel and requeues what it held.
Reap(m) ==
    /\ loc[m] = "orphan"
    /\ loc' = [loc EXCEPT ![m] = "ready"]
    /\ returned' = [returned EXCEPT ![m] = @ + 1]
    /\ UNCHANGED <<chan, consuming, buffer>>

\* The connection breaks.  The client may still receive what was buffered.
LoseChannel(r) ==
    /\ chan[r] = "open"
    /\ chan' = [chan EXCEPT ![r] = "dead"]
    /\ consuming' = [consuming EXCEPT ![r] = FALSE]
    /\ loc' = [m \in Messages |-> IF loc[m] = r THEN "orphan" ELSE loc[m]]
    /\ UNCHANGED <<buffer, returned>>

\* basic.cancel sent by the broker (the queue's node moved): pushes stop and
\* the stream ends after the buffer, while the channel stays open.
CancelByBroker(r) ==
    /\ chan[r] = "open" /\ consuming[r]
    /\ consuming' = [consuming EXCEPT ![r] = FALSE]
    /\ UNCHANGED <<loc, chan, buffer, returned>>

-----------------------------------------------------------------------------
(* What a session asks of its channel.                                     *)

\* channel, topology, QoS and basic.consume all succeeded.
OpenChannel(r) ==
    /\ chan' = [chan EXCEPT ![r] = "open"]
    /\ consuming' = [consuming EXCEPT ![r] = TRUE]
    /\ UNCHANGED <<loc, buffer, returned>>

\* session.close: the broker requeues every delivery the channel still held.
CloseChannel(r) ==
    /\ chan' = [chan EXCEPT ![r] = "none"]
    /\ consuming' = [consuming EXCEPT ![r] = FALSE]
    /\ buffer' = [buffer EXCEPT ![r] = {}]
    /\ loc' = [m \in Messages |-> IF loc[m] = r THEN "ready" ELSE loc[m]]
    /\ returned' = [m \in Messages |->
                      IF loc[m] = r THEN returned[m] + 1 ELSE returned[m]]

\* The process dies with its socket: nothing is closed, everything it held is
\* lost until the broker notices.
DropSocket(r) ==
    /\ chan' = [chan EXCEPT ![r] = "none"]
    /\ consuming' = [consuming EXCEPT ![r] = FALSE]
    /\ buffer' = [buffer EXCEPT ![r] = {}]
    /\ loc' = [m \in Messages |-> IF loc[m] = r THEN "orphan" ELSE loc[m]]
    /\ UNCHANGED returned

\* session.cancelConsumer: no more pushes, the channel stays open.
StopPushes(r) ==
    /\ consuming' = [consuming EXCEPT ![r] = FALSE]
    /\ UNCHANGED <<loc, chan, returned>>

\* session.ack: removes the message from the queue, if the channel lives.
Ack(r, m) ==
    /\ loc' = [loc EXCEPT ![m] = IF chan[r] = "open" THEN "gone" ELSE @]
    /\ UNCHANGED <<chan, consuming, returned>>

\* session.nack with requeue: puts it back, if the channel lives.
Nack(r, m) ==
    /\ loc' = [loc EXCEPT ![m] = IF chan[r] = "open" THEN "ready" ELSE @]
    /\ returned' = [returned EXCEPT ![m] =
                      IF chan[r] = "open" THEN @ + 1 ELSE @]
    /\ UNCHANGED <<chan, consuming>>

\* The deliveries stream is closed: the library dropped the buffer of a dead
\* channel, or a cancelled consumer's buffer is drained.
StreamClosed(r) ==
    \/ chan[r] = "dead"
    \/ chan[r] = "open" /\ ~consuming[r] /\ buffer[r] = {}
==============================================================================
