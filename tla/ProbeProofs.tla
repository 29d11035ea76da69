----------------------------- MODULE ProbeProofs -----------------------------
(***************************************************************************)
(* Proofs about Probe.tla for every number of overlapping attempts and of  *)
(* broker outages.                                                         *)
(***************************************************************************)
EXTENDS Probe, TLAPS

USE AttemptsAssumption, MaxOutagesAssumption

LEMMA InitEstablishesInv == Init => IInv
<1> SUFFICES ASSUME Init PROVE IInv
  OBVIOUS
<1> USE DEF Init, InCheck, BackoffInitial
<1>1. TypeOK
  <2>1. /\ cancelled \in BOOLEAN /\ ready \in BOOLEAN /\ lost \in BOOLEAN
        /\ up \in BOOLEAN
    BY Zenon
  <2> QED BY <2>1 DEF TypeOK
<1>2. DelayIsOnSchedule
  BY DEF DelayIsOnSchedule, BackoffDelay
<1>3. /\ SuccessIsProven /\ OnlyAbortedDialsLinger
      /\ LossTracksChecks /\ AttemptsAreConsistent
  BY DEF SuccessIsProven, OnlyAbortedDialsLinger, LossTracksChecks,
         AttemptsAreConsistent
<1> QED BY <1>1, <1>2, <1>3 DEF IInv

\* Steps of Run and Check.
LEMMA SupervisorKeepsInv ==
    ASSUME IInv, Supervisor
    PROVE  IInv'
<1> USE DEF IInv, TypeOK, SuccessIsProven, OnlyAbortedDialsLinger,
            LossTracksChecks, AttemptsAreConsistent, DelayIsOnSchedule,
            InCheck, attemptVars, brokerVars
<1> USE DEF BackoffDelay, BackoffInitial, BackoffMax, Shift, NextRetryDelay
<1>1. CASE Top
  BY <1>1 DEF Top
<1>2. CASE RetryElapses
  BY <1>2 DEF RetryElapses
<1>3. CASE RestElapses
  BY <1>3 DEF RestElapses
<1>4. CASE SleepCancelled
  BY <1>4 DEF SleepCancelled
<1>5. ASSUME NEW k \in Attempts, StartCheck(k) PROVE IInv'
  BY <1>5 DEF StartCheck
<1>6. ASSUME NEW k \in Attempts, CheckDialed(k) PROVE IInv'
  BY <1>6 DEF CheckDialed
<1>7. ASSUME NEW k \in Attempts, CheckDialFailed(k) PROVE IInv'
  BY <1>7 DEF CheckDialFailed, Fails, EndAttempt
<1>8. ASSUME NEW k \in Attempts, CheckAborts(k) PROVE IInv'
  BY <1>8 DEF CheckAborts, Fails, EndAttempt
<1>9. ASSUME NEW k \in Attempts, CheckSucceeds(k) PROVE IInv'
  <2> USE <1>9 DEF CheckSucceeds, TakesResult, Succeeds, EndAttempt
  <2>1. cancelled' \in BOOLEAN /\ ready' \in BOOLEAN /\ lost' \in BOOLEAN
    BY Zenon
  <2>2. TypeOK'
    BY <2>1
  <2>3. DelayIsOnSchedule'
    OBVIOUS
  <2>4. SuccessIsProven'
    OBVIOUS
  <2>5. OnlyAbortedDialsLinger' /\ LossTracksChecks' /\ (pc' # "retrying")
    OBVIOUS
  <2>6. AttemptsAreConsistent'
    OBVIOUS
  <2> QED BY <2>2, <2>3, <2>4, <2>5, <2>6
<1>10. ASSUME NEW k \in Attempts, CheckFails(k) PROVE IInv'
  BY <1>10 DEF CheckFails, Fails, EndAttempt
<1>11. ASSUME NEW k \in Attempts, CheckTimesOut(k) PROVE IInv'
  BY <1>11 DEF CheckTimesOut, TimesOut
<1>12. ASSUME NEW k \in Attempts, CheckCloses(k) PROVE IInv'
  BY <1>12 DEF CheckCloses, ConnectionCloses, Fails, EndAttempt
<1> QED BY <1>1, <1>2, <1>3, <1>4, <1>5, <1>6, <1>7, <1>8, <1>9, <1>10, <1>11,
           <1>12 DEF Supervisor, RunsOn, Check

\* Steps of an attempt's goroutine, the timer and the world.
LEMMA AttemptKeepsInv ==
    ASSUME IInv, NEW k \in Attempts, Attempt(k) \/ AttemptExpires(k)
    PROVE  IInv'
<1> USE DEF IInv, TypeOK, SuccessIsProven, OnlyAbortedDialsLinger,
            LossTracksChecks, AttemptsAreConsistent, DelayIsOnSchedule,
            InCheck, runVars, brokerVars
<1>1. CASE DialSucceeds(k)
  BY <1>1 DEF DialSucceeds
<1>2. CASE DialFails(k)
  BY <1>2 DEF DialFails
<1>3. CASE ChannelOpens(k)
  BY <1>3 DEF ChannelOpens
<1>4. CASE ExchangeExists(k)
  BY <1>4 DEF ExchangeExists
<1>5. CASE QueueExists(k)
  BY <1>5 DEF QueueExists
<1>6. CASE RpcFails(k)
  BY <1>6 DEF RpcFails
<1>7. CASE AttemptCloses(k)
  BY <1>7 DEF AttemptCloses, ConnectionCloses
<1>8. CASE AttemptExpires(k)
  BY <1>8 DEF AttemptExpires
<1> QED BY <1>1, <1>2, <1>3, <1>4, <1>5, <1>6, <1>7, <1>8 DEF Attempt

LEMMA WorldKeepsInv ==
    ASSUME IInv,
           \/ Terminate \/ BrokerGoes \/ BrokerComes \/ ConsumerDeclares
           \/ Terminated \/ UNCHANGED vars
    PROVE  IInv'
<1> USE DEF IInv, TypeOK, SuccessIsProven, OnlyAbortedDialsLinger,
            LossTracksChecks, AttemptsAreConsistent, DelayIsOnSchedule,
            InCheck, runVars, attemptVars, brokerVars
<1>1. CASE Terminate
  BY <1>1 DEF Terminate
<1>2. CASE BrokerGoes
  <2>1. up' \in BOOLEAN
    BY <1>2, Zenon DEF BrokerGoes
  <2>2. /\ UNCHANGED <<runVars, attemptVars, topology>>
        /\ outages' \in 0..MaxOutages
    BY <1>2 DEF BrokerGoes
  <2> QED BY <2>1, <2>2
<1>3. CASE BrokerComes
  BY <1>3 DEF BrokerComes
<1>4. CASE ConsumerDeclares
  BY <1>4 DEF ConsumerDeclares
<1>5. CASE Terminated \/ UNCHANGED vars
  BY <1>5 DEF Terminated, vars
<1> QED BY <1>1, <1>2, <1>3, <1>4, <1>5

LEMMA Invariance == Spec => []IInv
<1>1. IInv /\ [Next]_vars => IInv'
  BY SupervisorKeepsInv, AttemptKeepsInv, WorldKeepsInv DEF Next
<1> QED BY <1>1, InitEstablishesInv, PTL DEF Spec

\* Every variable keeps its type: the retry delay and the failure streak stay in
\* their ranges.
THEOREM TypeCorrectness == Spec => []TypeOK
<1>1. IInv => TypeOK
  BY DEF IInv
<1> QED BY <1>1, Invariance, PTL

\* Readiness and recovery rest on the current attempt's own verification.
THEOREM ProvenReadiness == Spec => []SuccessIsProven
<1>1. IInv => SuccessIsProven
  BY DEF IInv
<1> QED BY <1>1, Invariance, PTL

\* The one way for a probe connection to outlive its Check is an aborted dial.
THEOREM LingeringConnections == Spec => []OnlyAbortedDialsLinger
<1>1. IInv => OnlyAbortedDialsLinger
  BY DEF IInv
<1> QED BY <1>1, Invariance, PTL

\* The loss flag is exactly "ready, and the last Check failed".
THEOREM LossTransitions == Spec => []LossTracksChecks
<1>1. IInv => LossTracksChecks
  BY DEF IInv
<1> QED BY <1>1, Invariance, PTL

\* The probe's running delay follows the consumer's closed form.
THEOREM RetrySchedule == Spec => []RetryFollowsBackoff
<1>1. IInv => RetryFollowsBackoff
  BY DEF IInv, DelayIsOnSchedule, RetryFollowsBackoff
<1> QED BY <1>1, Invariance, PTL
==============================================================================
