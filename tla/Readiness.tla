------------------------------ MODULE Readiness ------------------------------
(***************************************************************************)
(* The process around the probe: the consumer's connect, RPC by RPC, over a*)
(* connection of its own, the durable objects it declares, the end of its  *)
(* sessions, and main's exit.  The probe is Probe.tla, whose topology is   *)
(* what has been declared here.                                            *)
(*                                                                         *)
(* The broker is external.  It may be unreachable, refuse an RPC, lose the *)
(* connection before or after it carried an RPC out, or go on heartbeating *)
(* and never answer.  Heartbeats only tell that a connection is lost.      *)
(***************************************************************************)
EXTENDS Integers, Sequences

CONSTANTS Attempts, MaxOutages      \* of Probe

VARIABLES
    (* the probe, but for its topology *)
    pc, cancelled, ready, lost, retryDelay, now, streak,
    step, conn, dialed, done, over, aborted, verified, up, outages,
    (* durable objects of the broker *)
    exchange, queue, bound,
    (* Consumer.Run, connect and the session's end *)
    at,         \* where the consumer's goroutine is
    rpc,        \* the RPC of connect it waits for
    link,       \* its connection: "none", "open" or "lost"
    connected,  \* Run's flag of that name
    (* main *)
    exited

objectVars == <<exchange, queue, bound>>
consumerVars == <<at, rpc, link, connected>>
probeVars == <<pc, cancelled, ready, lost, retryDelay, now, streak,
               step, conn, dialed, done, over, aborted, verified, up, outages>>
vars == <<probeVars, objectVars, consumerVars, exited>>

Declared == IF queue THEN "both" ELSE IF exchange THEN "exchange" ELSE "none"

P == INSTANCE Probe WITH topology <- Declared

\* What connect asks of its connection, in order.
Rpcs == <<"Channel", "ExchangeDeclare", "QueueDeclare", "QueueBind", "Qos",
          "Consume">>
Is(name) == Rpcs[rpc] = name

Init ==
    /\ exchange \in BOOLEAN /\ queue \in BOOLEAN /\ bound \in BOOLEAN
    /\ bound => queue
    /\ queue => exchange
    /\ P!Init
    /\ at = "top" /\ rpc = 1 /\ link = "none"
    /\ connected = FALSE /\ exited = FALSE

Goto(from, to) == at = from /\ at' = to

\* A faulty variant: a Run that gives up on the first error of connect.
AfterErrorGivesUp == "returned"

\* Where an error of connect leads: Run asks for the context first.
AfterError == IF cancelled THEN "returned" ELSE "backoff"

-----------------------------------------------------------------------------
(* Faulty variants, not part of Next.                                      *)

\* An RPC's error that is not returned.
RpcFailsOn ==
    /\ Goto("rpc", IF Is("QueueBind") THEN "rpc" ELSE "failing")
    /\ rpc' = IF Is("QueueBind") THEN rpc + 1 ELSE 1
    /\ UNCHANGED <<link, connected, probeVars, objectVars, exited>>

\* The queue declared before its exchange.
CarriedOutEarly ==
    /\ exchange' = (exchange \/ Is("QueueDeclare"))
    /\ queue' = (queue \/ Is("ExchangeDeclare"))
    /\ bound' = (bound \/ Is("QueueBind"))

\* durable=false: the objects go with the broker.
ObjectsSurviveNot == exchange' = FALSE /\ queue' = FALSE /\ bound' = FALSE

\* fail() without the close of the connection.
FailedLeaking ==
    /\ Goto("failing", AfterError)
    /\ UNCHANGED <<rpc, link, connected, probeVars, objectVars, exited>>

\* The select of consume without its second case.
ConsumeCancelledNever == FALSE /\ UNCHANGED vars

-----------------------------------------------------------------------------
(* connect.                                                                *)

Top ==
    /\ Goto("top", IF cancelled THEN "returned" ELSE "dial")
    /\ UNCHANGED <<rpc, link, connected, probeVars, objectVars, exited>>

Dial ==
    /\ up
    /\ Goto("dial", "rpc")
    /\ link' = "open"
    /\ UNCHANGED <<rpc, connected, probeVars, objectVars, exited>>

\* Dial and handshake are bounded by ConnectTimeout.
DialFails ==
    /\ Goto("dial", AfterError)
    /\ UNCHANGED <<rpc, link, connected, probeVars, objectVars, exited>>

CarriedOut ==
    /\ exchange' = (exchange \/ Is("ExchangeDeclare"))
    /\ queue' = (queue \/ Is("QueueDeclare"))
    /\ bound' = (bound \/ Is("QueueBind"))

\* The broker answers the RPC.
Answer ==
    /\ link = "open"
    /\ Goto("rpc", IF rpc < Len(Rpcs) THEN "rpc" ELSE "connected")
    /\ rpc' = IF rpc < Len(Rpcs) THEN rpc + 1 ELSE 1
    /\ CarriedOut
    /\ UNCHANGED <<link, connected, probeVars, exited>>

\* It carries the RPC out, and the connection is lost before the answer.
AnswerLost ==
    /\ at = "rpc" /\ link = "open"
    /\ link' = "lost"
    /\ CarriedOut
    /\ UNCHANGED <<at, rpc, connected, probeVars, exited>>

\* The broker refuses, or the connection is lost.
RpcFails ==
    /\ Goto("rpc", "failing")
    /\ rpc' = 1
    /\ UNCHANGED <<link, connected, probeVars, objectVars, exited>>

\* fail(): channel and connection are closed before the error is returned.
Failed ==
    /\ Goto("failing", AfterError)
    /\ link' = "none"
    /\ UNCHANGED <<rpc, connected, probeVars, objectVars, exited>>

-----------------------------------------------------------------------------
(* The session.                                                            *)

\* Run's check after connect.
Connected ==
    /\ Goto("connected", IF cancelled THEN "leaving" ELSE "consuming")
    /\ connected' = (connected \/ ~cancelled)
    /\ UNCHANGED <<rpc, link, probeVars, objectVars, exited>>

\* The deliveries stream ends: a lost connection, or a cancel by the broker.
SessionEnds ==
    /\ Goto("consuming", IF cancelled THEN "leaving" ELSE "closing")
    /\ UNCHANGED <<rpc, link, connected, probeVars, objectVars, exited>>

\* consume sees the end of the context and calls cancelConsumer ...
ConsumeCancelled ==
    /\ cancelled
    /\ Goto("consuming", "cancelling")
    /\ UNCHANGED <<rpc, link, connected, probeVars, objectVars, exited>>

\* ... which waits for its answer, and drains.
ConsumerCancelled ==
    /\ Goto("cancelling", "leaving")
    /\ UNCHANGED <<rpc, link, connected, probeVars, objectVars, exited>>

\* session.close.
Close ==
    /\ \/ Goto("leaving", "returned")
       \/ Goto("closing", "backoff")
    /\ link' = "none"
    /\ UNCHANGED <<rpc, connected, probeVars, objectVars, exited>>

Backoff ==
    /\ \/ Goto("backoff", "top")
       \/ cancelled /\ Goto("backoff", "returned")
    /\ UNCHANGED <<rpc, link, connected, probeVars, objectVars, exited>>

\* run returns: the process ends, whatever the probe and the server do.
Exit ==
    /\ at = "returned" /\ ~exited
    /\ exited' = TRUE
    /\ UNCHANGED <<probeVars, objectVars, consumerVars>>

-----------------------------------------------------------------------------
(* The probe and the world.                                                *)

Beside == ~exited /\ UNCHANGED <<objectVars, consumerVars, exited>>

Supervisor == Beside /\ P!Supervisor
Attempt(k) == Beside /\ P!Attempt(k)
AttemptExpires(k) == Beside /\ P!AttemptExpires(k)
Terminate == Beside /\ P!Terminate

\* The objects are durable.
ObjectsSurvive == UNCHANGED objectVars

BrokerGoes ==
    /\ up /\ outages < MaxOutages
    /\ up' = FALSE /\ outages' = outages + 1
    /\ ObjectsSurvive
    /\ UNCHANGED <<pc, cancelled, ready, lost, retryDelay, now, streak, step, conn,
                   dialed, done, over, aborted, verified>>
    /\ link' = IF link = "open" THEN "lost" ELSE link
    /\ UNCHANGED <<at, rpc, connected, exited>>

BrokerComes ==
    /\ UNCHANGED <<objectVars, consumerVars, exited>>
    /\ P!BrokerComes

Exited == exited /\ UNCHANGED vars

-----------------------------------------------------------------------------
\* Steps that need no answer: local ones, and what waits on a lost connection.
Alone ==
    \/ Top \/ DialFails \/ Connected \/ ConsumeCancelled \/ Backoff \/ Exit
    \/ link = "lost"
          /\ (RpcFails \/ Failed \/ SessionEnds \/ ConsumerCancelled \/ Close)

\* With those that wait for an answer, or for the error in its place; an open
\* session is never bound to end.
Answered ==
    \/ Alone \/ Dial \/ Answer \/ AnswerLost
    \/ RpcFails \/ Failed \/ ConsumerCancelled \/ Close

Next ==
    \/ Answered \/ SessionEnds
    \/ Supervisor \/ \E k \in Attempts : Attempt(k) \/ AttemptExpires(k)
    \/ Terminate \/ BrokerGoes \/ BrokerComes \/ Exited

Spec == Init /\ [][Next]_vars

\* Dials end by their deadline, sleeps end, and heartbeats find lost
\* connections.
HeartbeatSpec == Spec /\ WF_vars(Alone)

\* The broker comes back, and what waits for an answer gets one or an error.
\* The probe's goroutines and its timer run.
ServedSpec ==
    /\ HeartbeatSpec
    /\ WF_vars(Answered)
    /\ WF_vars(BrokerComes) /\ WF_vars(Supervisor)
    /\ \A k \in Attempts : WF_vars(Attempt(k)) /\ WF_vars(AttemptExpires(k))

\* From some time on the broker serves: what it is asked succeeds, in time.
Served ==
    <>[][/\ ~DialFails /\ ~RpcFails /\ ~AnswerLost
         /\ \A k \in Attempts : ~(P!DialFails(k) /\ up) /\ ~AttemptExpires(k)]_vars

-----------------------------------------------------------------------------
\* GET /health: the status code, or 0 when nobody answers.
Health == IF exited THEN 0 ELSE IF ready THEN 200 ELSE 503

TypeOK ==
    /\ exchange \in BOOLEAN /\ queue \in BOOLEAN /\ bound \in BOOLEAN
    /\ at \in {"top", "dial", "rpc", "failing", "connected", "consuming",
               "closing", "cancelling", "leaving", "backoff", "returned"}
    /\ rpc \in DOMAIN Rpcs
    /\ link \in {"none", "open", "lost"}
    /\ connected \in BOOLEAN /\ exited \in BOOLEAN
    /\ link = "none" <=> at \in {"top", "dial", "backoff", "returned"}

\* connect is what Probe assumes of the consumer: over lost connections,
\* refusals and shutdown it declares the exchange first and the queue after it,
\* and nothing is undone.
RefinesProbe == P!Spec

\* /health says 200 only while exchange and queue are there, over broker
\* outages after the check; and once a consumer has connected, a signal that
\* is published is routed, whatever its later reconnects meet.
HealthIsTrue == Health = 200 => exchange /\ queue
SignalsAreRouted == connected => exchange /\ queue /\ bound

\* Told to stop, the process exits from wherever the consumer is, the probe's
\* Check included, if the broker answers or is lost.
ShutdownExits == cancelled ~> exited

\* "a broker that accepts TCP but stalls cannot hang a connect".
ConnectReturns == at = "rpc" ~> at # "rpc"

\* The service becomes ready by its own declarations, as nobody else makes the
\* objects that the probe looks for, and is found consuming when it is.
EventuallyServes ==
    Served /\ []~cancelled => <>(ready /\ at = "consuming")
==============================================================================
