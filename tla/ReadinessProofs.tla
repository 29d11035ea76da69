--------------------------- MODULE ReadinessProofs ---------------------------
(***************************************************************************)
(* Proofs about Readiness.tla for every number of overlapping attempts and *)
(* of broker outages: what /health says is true, published signals are     *)
(* routed, and the consumer is what Probe.tla assumes of it.               *)
(***************************************************************************)
EXTENDS Readiness, TLAPS

\* The attempt was told that the queue is there: it closes, or has sent its result.
Told(k) == done[k] = "ok" \/ step[k] = "succeeding"

\* How far connect has got is how far the topology has been declared, at least;
\* what the probe was told is still true; and an open connection has a broker.
RInv ==
    /\ TypeOK
    /\ up \in BOOLEAN /\ ready \in BOOLEAN /\ cancelled \in BOOLEAN
    /\ done \in [Attempts -> {"empty", "ok", "error"}]
    /\ DOMAIN step = Attempts
    /\ queue => exchange
    /\ bound => queue
    /\ link = "open" => up
    /\ ready => queue
    /\ \A k \in Attempts : Told(k) => queue
    /\ at # "rpc" => rpc = 1
    /\ at = "rpc" => /\ rpc > 2 => exchange
                     /\ rpc > 3 => queue
                     /\ rpc > 4 => bound
    /\ at = "connected" => bound
    /\ connected => bound

LEMMA RpcsAre ==
    /\ Len(Rpcs) = 6 /\ DOMAIN Rpcs = 1..6
    /\ \A i \in 1..6 : /\ Rpcs[i] = "ExchangeDeclare" <=> i = 2
                       /\ Rpcs[i] = "QueueDeclare" <=> i = 3
                       /\ Rpcs[i] = "QueueBind" <=> i = 4
BY DEF Rpcs

LEMMA InitEstablishesInv == Init => RInv
<1> SUFFICES ASSUME Init PROVE RInv
  OBVIOUS
<1>1. TypeOK
  <2>1. /\ exchange \in BOOLEAN /\ queue \in BOOLEAN /\ bound \in BOOLEAN
        /\ connected \in BOOLEAN /\ exited \in BOOLEAN
        /\ at = "top" /\ rpc = 1 /\ link = "none"
    BY Zenon DEF Init
  <2> QED BY <2>1, RpcsAre DEF TypeOK
<1>2. /\ done = [k \in Attempts |-> "empty"]
      /\ step = [k \in Attempts |-> "ended"] /\ at = "top" /\ rpc = 1
      /\ link = "none" /\ ready = FALSE /\ cancelled = FALSE /\ up = TRUE /\ connected = FALSE
      /\ queue => exchange
      /\ bound => queue
  BY Zenon DEF Init, P!Init
<1>3. /\ up \in BOOLEAN /\ ready \in BOOLEAN /\ cancelled \in BOOLEAN
      /\ ~ready /\ ~connected
  BY <1>2, Zenon
<1> QED BY <1>1, <1>2, <1>3 DEF RInv, Told

\* The consumer's steps.
LEMMA ConsumerKeepsInv ==
    ASSUME RInv, Answered \/ SessionEnds
    PROVE  RInv'
<1> USE RpcsAre DEF RInv, Told, TypeOK, probeVars, objectVars, consumerVars, Goto, Is
<1>1. CASE Top
  BY <1>1 DEF Top
<1>2. CASE Dial
  <2>1. up' = up /\ up
    BY <1>2 DEF Dial
  <2>2. up'
    BY <2>1, Zenon
  <2> QED BY <1>2, <2>2 DEF Dial
<1>3. CASE DialFails
  BY <1>3 DEF DialFails, AfterError
<1>4. CASE Answer
  <2>1. /\ rpc \in 1..6 /\ at = "rpc" /\ link = "open"
        /\ UNCHANGED <<link, connected, exited, ready, up, cancelled, done, step>>
    BY <1>4 DEF Answer
  <2>2. /\ exchange' = (exchange \/ rpc = 2)
        /\ queue' = (queue \/ rpc = 3)
        /\ bound' = (bound \/ rpc = 4)
    <3>1. CarriedOut
      BY <1>4 DEF Answer
    <3> QED BY <3>1, <2>1 DEF CarriedOut
  <2>3. \/ rpc < 6 /\ rpc' = rpc + 1 /\ at' = "rpc"
        \/ rpc = 6 /\ rpc' = 1 /\ at' = "connected"
    BY <1>4, <2>1 DEF Answer
  <2>4. TypeOK'
    BY <2>1, <2>2, <2>3
  <2>5. (queue => exchange)' /\ (bound => queue)'
    BY <2>1, <2>2
  <2>6. (at # "rpc" => rpc = 1)'
    BY <2>3
  <2>7. (at = "rpc" => (rpc > 2 => exchange) /\ (rpc > 3 => queue)
                        /\ (rpc > 4 => bound))'
    <3> SUFFICES ASSUME at' = "rpc" PROVE (/\ rpc > 2 => exchange
                                           /\ rpc > 3 => queue
                                           /\ rpc > 4 => bound)'
      OBVIOUS
    <3>1. rpc' = rpc + 1
      BY <2>3
    <3>2. /\ rpc' > 2 => rpc = 2 \/ rpc > 2
          /\ rpc' > 3 => rpc = 3 \/ rpc > 3
          /\ rpc' > 4 => rpc = 4 \/ rpc > 4
      BY <2>1, <3>1
    <3> QED BY <2>1, <2>2, <3>2, Zenon
  <2>8. (at = "connected" => bound)' /\ (connected => bound)'
    BY <2>1, <2>2, <2>3
  <2>9. (ready => queue)' /\ (\A k \in Attempts : Told(k) => queue)'
    BY <2>1, <2>2 DEF Told
  <2> QED BY <2>1, <2>4, <2>5, <2>6, <2>7, <2>8, <2>9
<1>5. CASE AnswerLost
  BY <1>5 DEF AnswerLost, CarriedOut
<1>6. CASE RpcFails
  BY <1>6 DEF RpcFails
<1>7. CASE Failed
  BY <1>7 DEF Failed, AfterError
<1>8. CASE Connected
  BY <1>8 DEF Connected
<1>9. CASE SessionEnds
  BY <1>9 DEF SessionEnds
<1>10. CASE ConsumeCancelled \/ ConsumerCancelled
  BY <1>10 DEF ConsumeCancelled, ConsumerCancelled
<1>11. CASE Close
  BY <1>11 DEF Close
<1>12. CASE Backoff
  BY <1>12 DEF Backoff
<1>13. CASE Exit
  BY <1>13 DEF Exit
<1> QED BY <1>1, <1>2, <1>3, <1>4, <1>5, <1>6, <1>7, <1>8, <1>9, <1>10, <1>11,
           <1>12, <1>13 DEF Answered, Alone

\* A step of the probe or of the world that leaves objects and consumer alone
\* keeps the invariant if readiness and results come from what is there.
LEMMA BesideKeepsInv ==
    ASSUME RInv,
           UNCHANGED <<objectVars, consumerVars, exited>>,
           up' \in BOOLEAN, ready' \in BOOLEAN, cancelled' \in BOOLEAN,
           up => up',
           done' \in [Attempts -> {"empty", "ok", "error"}],
           DOMAIN step' = Attempts,
           ready' => ready \/ \E k \in Attempts : Told(k),
           \A k \in Attempts : Told(k)' => Told(k) \/ queue
    PROVE  RInv'
<1> USE DEF RInv, objectVars, consumerVars
<1>1. TypeOK'
  BY DEF TypeOK
<1>2. UNCHANGED <<exchange, queue, bound, at, rpc, link, connected>>
  OBVIOUS
<1>3. (link = "open" => up)' /\ (ready => queue)'
  BY <1>2 DEF TypeOK
<1>4. (\A k \in Attempts : Told(k) => queue)'
  BY <1>2
<1> QED BY <1>1, <1>2, <1>3, <1>4

LEMMA SupervisorKeepsInv ==
    ASSUME RInv, Supervisor
    PROVE  RInv'
<1>1. P!Supervisor /\ UNCHANGED <<objectVars, consumerVars, exited>>
  BY Zenon DEF Supervisor, Beside
<1>2. /\ up' = up /\ cancelled' = cancelled
      /\ \/ UNCHANGED <<done, step>>
         \/ \E k \in Attempts : /\ done' = [done EXCEPT ![k] = "empty"]
                                /\ step' = [step EXCEPT ![k] = "dial"]
      /\ \/ ready' = ready
         \/ ready' = TRUE /\ \E k \in Attempts : done[k] = "ok"
  <2> USE DEF P!attemptVars, P!brokerVars, P!Fails, P!Succeeds, P!EndAttempt
  <2>1. CASE P!Top \/ P!RetryElapses \/ P!RestElapses \/ P!SleepCancelled
    BY <2>1 DEF P!Top, P!RetryElapses, P!RestElapses, P!SleepCancelled
  <2>2. ASSUME NEW k \in Attempts, P!StartCheck(k)
        PROVE  /\ done' = [done EXCEPT ![k] = "empty"]
               /\ step' = [step EXCEPT ![k] = "dial"]
               /\ UNCHANGED <<up, cancelled, ready>>
    BY <2>2 DEF P!StartCheck
  <2>3. ASSUME NEW k \in Attempts, P!CheckSucceeds(k)
        PROVE  done[k] = "ok" /\ ready' = TRUE /\ UNCHANGED <<up, cancelled, done, step>>
    BY <2>3 DEF P!CheckSucceeds, P!TakesResult
  <2>4. ASSUME NEW k \in Attempts,
               \/ P!CheckDialed(k) \/ P!CheckDialFailed(k) \/ P!CheckAborts(k)
               \/ P!CheckFails(k) \/ P!CheckTimesOut(k) \/ P!CheckCloses(k)
        PROVE  UNCHANGED <<up, cancelled, ready, done, step>>
    BY <2>4 DEF P!CheckDialed, P!CheckDialFailed, P!CheckAborts, P!CheckFails,
                P!CheckTimesOut, P!TimesOut, P!CheckCloses
  <2> QED BY <1>1, <2>1, <2>2, <2>3, <2>4, Zenon
          DEF P!Supervisor, P!RunsOn, P!Check
<1>3. up' \in BOOLEAN /\ cancelled' \in BOOLEAN /\ ready' \in BOOLEAN
  BY <1>2, Zenon DEF RInv
<1>4. /\ up => up'
      /\ ready' => ready \/ \E k \in Attempts : Told(k)
  BY <1>2, <1>3 DEF RInv, Told
<1>5. /\ done' \in [Attempts -> {"empty", "ok", "error"}]
      /\ DOMAIN step' = Attempts
      /\ \A k \in Attempts : Told(k)' => Told(k)
  BY <1>2 DEF RInv, Told
<1> QED BY <1>1, <1>3, <1>4, <1>5, BesideKeepsInv

LEMMA AttemptKeepsInv ==
    ASSUME RInv, NEW k \in Attempts, Attempt(k) \/ AttemptExpires(k)
    PROVE  RInv'
<1>1. /\ P!Attempt(k) \/ P!AttemptExpires(k)
      /\ UNCHANGED <<objectVars, consumerVars, exited>>
  BY Zenon DEF Attempt, AttemptExpires, Beside
<1>2. /\ up' = up /\ cancelled' = cancelled /\ ready' = ready
      /\ \/ done' = done
         \/ done' = [done EXCEPT ![k] = "error"]
         \/ done' = [done EXCEPT ![k] = "ok"] /\ step[k] = "succeeding"
      /\ \/ step' = step
         \/ \E s : step' = [step EXCEPT ![k] = s] /\ s # "succeeding"
         \/ step' = [step EXCEPT ![k] = "succeeding"] /\ Declared = "both"
  <2> USE DEF P!runVars, P!brokerVars
  <2>1. CASE P!DialSucceeds(k) \/ P!DialFails(k) \/ P!ChannelOpens(k)
    BY <2>1 DEF P!DialSucceeds, P!DialFails, P!ChannelOpens
  <2>2. CASE P!ExchangeExists(k) \/ P!RpcFails(k) \/ P!AttemptExpires(k)
    BY <2>2 DEF P!ExchangeExists, P!RpcFails, P!AttemptExpires
  <2>3. CASE P!QueueExists(k)
    BY <2>3 DEF P!QueueExists
  <2>4. CASE P!AttemptCloses(k)
    <3>1. /\ up' = up /\ cancelled' = cancelled /\ ready' = ready
          /\ step' = [step EXCEPT ![k] = "ended"]
          /\ step[k] \in {"succeeding", "failing"}
          /\ done' = [done EXCEPT
                        ![k] = IF step[k] = "succeeding" THEN "ok" ELSE "error"]
      BY <2>4 DEF P!AttemptCloses
    <3>2. \E s : step' = [step EXCEPT ![k] = s] /\ s # "succeeding"
      <4>1. "ended" # "succeeding"
        OBVIOUS
      <4> QED BY <3>1, <4>1, Zenon
    <3>3. \/ done' = [done EXCEPT ![k] = "error"]
          \/ done' = [done EXCEPT ![k] = "ok"] /\ step[k] = "succeeding"
      <4>1. CASE step[k] = "succeeding"
        BY <3>1, <4>1
      <4>2. CASE step[k] # "succeeding"
        BY <3>1, <4>2
      <4> QED BY <4>1, <4>2
    <3> QED BY <3>1, <3>2, <3>3, Zenon
  <2> QED BY <1>1, <2>1, <2>2, <2>3, <2>4 DEF P!Attempt
<1>3. /\ up' \in BOOLEAN /\ cancelled' \in BOOLEAN /\ ready' \in BOOLEAN
      /\ up => up'
      /\ ready' => ready
  BY <1>2, Zenon DEF RInv
<1>4. /\ done' \in [Attempts -> {"empty", "ok", "error"}]
      /\ DOMAIN step' = Attempts
      /\ \A j \in Attempts : Told(j)' => Told(j) \/ queue
  BY <1>2 DEF RInv, Declared, Told
<1> QED BY <1>1, <1>3, <1>4, BesideKeepsInv

\* Terminate, the broker and the end.
LEMMA WorldKeepsInv ==
    ASSUME RInv, Terminate \/ BrokerGoes \/ BrokerComes \/ Exited \/ UNCHANGED vars
    PROVE  RInv'
<1>1. CASE Terminate
  <2>1. P!Terminate /\ UNCHANGED <<objectVars, consumerVars, exited>>
    BY <1>1, Zenon DEF Terminate, Beside
  <2>2. cancelled' = TRUE /\ UNCHANGED <<up, ready, done, step>>
    BY <2>1 DEF P!Terminate, P!brokerVars
  <2>3. up' \in BOOLEAN /\ cancelled' \in BOOLEAN /\ ready' \in BOOLEAN
    BY <2>2, Zenon DEF RInv
  <2> QED BY <2>1, <2>2, <2>3, BesideKeepsInv DEF RInv, Told
<1>2. CASE BrokerComes
  <2>1. P!BrokerComes /\ UNCHANGED <<objectVars, consumerVars, exited>>
    BY <1>2, Zenon DEF BrokerComes
  <2>2. up' = TRUE /\ UNCHANGED <<cancelled, ready, done, step>>
    BY <2>1 DEF P!BrokerComes, P!runVars, P!attemptVars
  <2>3. up' \in BOOLEAN /\ cancelled' \in BOOLEAN /\ ready' \in BOOLEAN /\ up'
    BY <2>2, Zenon DEF RInv
  <2> QED BY <2>1, <2>2, <2>3, BesideKeepsInv DEF RInv, Told
<1>3. CASE BrokerGoes
  <2>1. /\ link' # "open" /\ link' \in {"none", "open", "lost"}
        /\ link' = "none" <=> link = "none"
    BY <1>3 DEF BrokerGoes, RInv, TypeOK
  <2>2. up' \in BOOLEAN
    BY <1>3, Zenon DEF BrokerGoes
  <2>3. UNCHANGED <<exchange, queue, bound, at, rpc, connected, exited, ready,
                    cancelled, done, step>>
    BY <1>3 DEF BrokerGoes, ObjectsSurvive, objectVars
  <2> QED BY <2>1, <2>2, <2>3 DEF RInv, Told, TypeOK
<1>4. CASE Exited \/ UNCHANGED vars
  BY <1>4 DEF Exited, vars, probeVars, objectVars, consumerVars, RInv, Told, TypeOK
<1> QED BY <1>1, <1>2, <1>3, <1>4

LEMMA Invariance == Spec => []RInv
<1>1. RInv /\ [Next]_vars => RInv'
  BY ConsumerKeepsInv, SupervisorKeepsInv, AttemptKeepsInv, WorldKeepsInv DEF Next
<1> QED BY <1>1, InitEstablishesInv, PTL DEF Spec

\* Type correctness: every variable keeps its type, and the consumer owns a
\* connection exactly from its dial to the close.
THEOREM TypeCorrectness == Spec => []TypeOK
<1>1. RInv => TypeOK
  BY DEF RInv
<1> QED BY <1>1, Invariance, PTL

\* /health says 200 only while the exchange and the queue are there.
THEOREM TrueHealth == Spec => []HealthIsTrue
<1>1. RInv => HealthIsTrue
  BY DEF RInv, HealthIsTrue, Health
<1> QED BY <1>1, Invariance, PTL

\* Once the consumer has connected, a published signal reaches the queue.
THEOREM RoutedSignals == Spec => []SignalsAreRouted
<1>1. RInv => SignalsAreRouted
  BY DEF RInv, SignalsAreRouted
<1> QED BY <1>1, Invariance, PTL

-----------------------------------------------------------------------------
\* A declaration is a step of Probe's consumer, or was carried out before.
LEMMA DeclarationsMap ==
    ASSUME RInv, Answer \/ AnswerLost
    PROVE  P!ConsumerDeclares \/ UNCHANGED P!vars
<1>1. /\ at = "rpc" /\ link = "open" /\ rpc \in 1..6
      /\ CarriedOut
      /\ UNCHANGED probeVars
  BY RpcsAre DEF Answer, AnswerLost, Goto, RInv, TypeOK
<1>2. /\ exchange' = (exchange \/ rpc = 2)
      /\ queue' = (queue \/ rpc = 3)
  BY <1>1, RpcsAre DEF CarriedOut, Is
<1>3. up /\ (queue => exchange) /\ (rpc = 3 => exchange)
  BY <1>1 DEF RInv
<1>4. UNCHANGED <<outages, up, P!runVars, P!attemptVars>>
  BY <1>1 DEF probeVars, P!runVars, P!attemptVars
<1>5. \/ Declared = "none" /\ Declared' = "exchange"
      \/ Declared = "exchange" /\ Declared' = "both"
      \/ Declared' = Declared
  BY <1>2, <1>3 DEF Declared, RInv, TypeOK
<1> QED BY <1>3, <1>4, <1>5 DEF P!ConsumerDeclares, P!vars, P!brokerVars

\* The other steps are the probe's own, the broker's, or none of Probe's.
LEMMA StepsMap ==
    ASSUME RInv, [Next]_vars
    PROVE  [P!Next]_(P!vars)
<1>1. CASE Answer \/ AnswerLost
  BY <1>1, DeclarationsMap DEF P!Next
<1>2. CASE \/ Top \/ Dial \/ DialFails \/ RpcFails \/ Failed \/ Connected
           \/ SessionEnds \/ ConsumeCancelled \/ ConsumerCancelled \/ Close
           \/ Backoff \/ Exit \/ Exited \/ UNCHANGED vars
  <2>1. UNCHANGED <<probeVars, objectVars>>
    BY <1>2 DEF Top, Dial, DialFails, RpcFails, Failed, Connected, SessionEnds,
                ConsumeCancelled, ConsumerCancelled, Close, Backoff, Exit, Exited, vars
  <2> QED BY <2>1 DEF probeVars, objectVars, Declared, P!vars, P!runVars,
                      P!attemptVars, P!brokerVars
<1>3. CASE \/ Supervisor \/ Terminate \/ BrokerComes
           \/ \E k \in Attempts : Attempt(k) \/ AttemptExpires(k)
  BY <1>3, Zenon DEF Supervisor, Attempt, AttemptExpires, Terminate, BrokerComes, P!Next
<1>4. CASE BrokerGoes
  BY <1>4 DEF BrokerGoes, ObjectsSurvive, objectVars, Declared, P!BrokerGoes,
              P!runVars, P!attemptVars, P!Next
<1> QED BY <1>1, <1>2, <1>3, <1>4 DEF Next, Answered, Alone

\* The consumer's connect is what Probe assumes of it: over lost connections,
\* refusals and shutdown, the topology grows from nothing to the exchange to both.
THEOREM ConsumerRefinesProbe == Spec => RefinesProbe
<1>1. Init => P!Init
  BY Zenon DEF Init
<1>2. RInv /\ [Next]_vars => [P!Next]_(P!vars)
  BY StepsMap
<1> QED BY <1>1, <1>2, Invariance, PTL DEF Spec, RefinesProbe, P!Spec
==============================================================================
