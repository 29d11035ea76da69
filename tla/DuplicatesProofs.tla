---------------------------- MODULE DuplicatesProofs --------------------------
(***************************************************************************)
(* Where the statuses of a signal come from.  Every place a signal waits in*)
(* on its way to a publish that is seen to succeed (the queue, a replica's *)
(* buffer, its hand) is one status still to come.  Only the broker makes a *)
(* new place, and it counts what it returns; a publish that is answered    *)
(* uses one up.                                                            *)
(***************************************************************************)
EXTENDS ConsumerProofs, FiniteSetTheorems

Queue == <<"queue", "ready">>
Places == {"queue", "buffer", "hand"} \X (Replicas \cup {"ready"})

\* Where m waits for a publish; a hand that has published it is no such place.
Waits(m, kind, r) ==
    \/ kind = "queue" /\ r = "ready" /\ loc[m] = "ready"
    \/ kind = "buffer" /\ r \in Replicas /\ m \in buffer[r]
    \/ kind = "hand" /\ r \in Replicas /\ cur[r] = m /\ outcome[r] # "published"

Waiting(m) == {p \in Places : Waits(m, p[1], p[2])}

\* The statuses there are and those that may still come, unless the broker
\* returns the signal or an answer is lost.
Accounted(m) ==
    /\ IsFiniteSet(Waiting(m))
    /\ posts[m] + Cardinality(Waiting(m)) <= 1 + returned[m] + unanswered[m]

EveryStatusAccounted == \A m \in Messages : Accounted(m)

-----------------------------------------------------------------------------
(* Counting.  After a step the waiting places V of a signal are those of   *)
(* before, W, less some of them, and one more at the most.                 *)

LEMMA FewerPlaces ==
    ASSUME NEW W, NEW V, IsFiniteSet(W), V \subseteq W
    PROVE  /\ IsFiniteSet(V)
           /\ Cardinality(V) \in Nat /\ Cardinality(W) \in Nat
           /\ Cardinality(V) <= Cardinality(W)
BY FS_Subset, FS_CardinalityType

LEMMA OnePlaceMore ==
    ASSUME NEW W, NEW V, NEW p, IsFiniteSet(W), V \subseteq W \cup {p}
    PROVE  /\ IsFiniteSet(V)
           /\ Cardinality(V) \in Nat /\ Cardinality(W) \in Nat
           /\ Cardinality(V) <= Cardinality(W) + 1
<1>1. IsFiniteSet(W \cup {p}) /\ Cardinality(W) \in Nat
      /\ Cardinality(W \cup {p}) <= Cardinality(W) + 1
  BY FS_AddElement, FS_CardinalityType
<1> QED BY <1>1, FewerPlaces

LEMMA OnePlaceLess ==
    ASSUME NEW W, NEW V, NEW p \in W, IsFiniteSet(W), V \subseteq W \ {p}
    PROVE  /\ IsFiniteSet(V)
           /\ Cardinality(V) \in Nat /\ Cardinality(W) \in Nat
           /\ Cardinality(V) <= Cardinality(W) - 1
<1>1. IsFiniteSet(W \ {p}) /\ Cardinality(W) \in Nat
      /\ Cardinality(W \ {p}) = Cardinality(W) - 1
  BY FS_RemoveElement, FS_CardinalityType
<1> QED BY <1>1, FewerPlaces

LEMMA OnePlaceMoved ==
    ASSUME NEW W, NEW V, NEW p \in W, NEW q, IsFiniteSet(W),
           V \subseteq (W \ {p}) \cup {q}
    PROVE  /\ IsFiniteSet(V)
           /\ Cardinality(V) \in Nat /\ Cardinality(W) \in Nat
           /\ Cardinality(V) <= Cardinality(W)
<1>1. IsFiniteSet(W \ {p}) /\ Cardinality(W) \in Nat
      /\ Cardinality(W \ {p}) = Cardinality(W) - 1
  BY FS_RemoveElement, FS_CardinalityType
<1>2. /\ IsFiniteSet(V) /\ Cardinality(V) \in Nat
      /\ Cardinality(V) <= Cardinality(W \ {p}) + 1
  BY <1>1, OnePlaceMore
<1> QED BY <1>1, <1>2

\* So a step keeps the account of a signal if it is one of these.
NoNewPlace(m) ==
    /\ Waiting(m)' \subseteq Waiting(m)
    /\ posts'[m] - unanswered'[m] = posts[m] - unanswered[m]
    /\ returned'[m] >= returned[m]
Moved(m) ==
    /\ \E p \in Waiting(m), q \in Places :
          Waiting(m)' \subseteq (Waiting(m) \ {p}) \cup {q}
    /\ posts'[m] - unanswered'[m] = posts[m] - unanswered[m]
    /\ returned'[m] = returned[m]
Returned(m) ==
    /\ Waiting(m)' \subseteq Waiting(m) \cup {Queue}
    /\ posts'[m] - unanswered'[m] = posts[m] - unanswered[m]
    /\ returned'[m] = returned[m] + 1
SeenPosted(m) ==
    /\ \E p \in Waiting(m) : Waiting(m)' \subseteq Waiting(m) \ {p}
    /\ posts'[m] = posts[m] + 1
    /\ unanswered'[m] = unanswered[m] /\ returned'[m] = returned[m]

AccountedFor(m) == NoNewPlace(m) \/ Moved(m) \/ Returned(m) \/ SeenPosted(m)

LEMMA AccountsAreKept ==
    ASSUME TypeOK, TypeOK', NEW m \in Messages, Accounted(m), AccountedFor(m)
    PROVE  Accounted(m)'
<1> DEFINE W == Waiting(m)
           V == Waiting(m)'
<1>1. /\ posts[m] \in Nat /\ unanswered[m] \in Nat /\ returned[m] \in Nat
      /\ posts'[m] \in Nat /\ unanswered'[m] \in Nat /\ returned'[m] \in Nat
  BY DEF TypeOK, BrokerTypeOK, PublisherTypeOK
<1>2. /\ IsFiniteSet(W)
      /\ posts[m] + Cardinality(W) <= 1 + returned[m] + unanswered[m]
  BY DEF Accounted
<1> HIDE DEF W, V
<1>3. /\ IsFiniteSet(V)
      /\ posts'[m] + Cardinality(V) <= 1 + returned'[m] + unanswered'[m]
  <2>1. CASE NoNewPlace(m)
    <3>1. V \subseteq W
      BY <2>1 DEF NoNewPlace, V, W
    <3> QED BY <1>1, <1>2, <2>1, <3>1, FewerPlaces DEF NoNewPlace
  <2>2. CASE Moved(m)
    <3>1. PICK p \in W, q \in Places : V \subseteq (W \ {p}) \cup {q}
      BY <2>2 DEF Moved, V, W
    <3>2. /\ IsFiniteSet(V) /\ Cardinality(V) \in Nat /\ Cardinality(W) \in Nat
          /\ Cardinality(V) <= Cardinality(W)
      BY <1>2, <3>1, OnePlaceMoved
    <3> QED BY <1>1, <1>2, <2>2, <3>2 DEF Moved
  <2>3. CASE Returned(m)
    <3>1. V \subseteq W \cup {Queue}
      BY <2>3 DEF Returned, V, W
    <3>2. /\ IsFiniteSet(V) /\ Cardinality(V) \in Nat /\ Cardinality(W) \in Nat
          /\ Cardinality(V) <= Cardinality(W) + 1
      BY <1>2, <3>1, OnePlaceMore
    <3> QED BY <1>1, <1>2, <2>3, <3>2 DEF Returned
  <2>4. CASE SeenPosted(m)
    <3>1. PICK p \in W : V \subseteq W \ {p}
      BY <2>4 DEF SeenPosted, V, W
    <3>2. /\ IsFiniteSet(V) /\ Cardinality(V) \in Nat /\ Cardinality(W) \in Nat
          /\ Cardinality(V) <= Cardinality(W) - 1
      BY <1>2, <3>1, OnePlaceLess
    <3> QED BY <1>1, <1>2, <2>4, <3>2 DEF SeenPosted
  <2> QED BY <2>1, <2>2, <2>3, <2>4 DEF AccountedFor
<1> QED BY <1>3 DEF Accounted, V, W

-----------------------------------------------------------------------------
(* Every step accounts for every signal.                                   *)

\* Waiting(m) is as large as its members.
LEMMA PlacesStay ==
    ASSUME NEW m, \A k, q : Waits(m, k, q)' => Waits(m, k, q)
    PROVE  Waiting(m)' \subseteq Waiting(m)
BY DEF Waiting

LEMMA PlacesGrow ==
    ASSUME NEW m,
           \A k, q : Waits(m, k, q)' =>
                        Waits(m, k, q) \/ (k = "queue" /\ q = "ready")
    PROVE  Waiting(m)' \subseteq Waiting(m) \cup {Queue}
BY DEF Waiting, Places, Queue

LEMMA PlacesShrink ==
    ASSUME NEW m, NEW kind \in {"queue", "buffer", "hand"}, NEW r \in Replicas,
           Waits(m, kind, r),
           \A k, q : Waits(m, k, q)' => Waits(m, k, q) /\ ~(k = kind /\ q = r)
    PROVE  \E p \in Waiting(m) : Waiting(m)' \subseteq Waiting(m) \ {p}
<1>1. <<kind, r>> \in Waiting(m)
  BY DEF Waiting, Places
<1>2. Waiting(m)' \subseteq Waiting(m) \ {<<kind, r>>}
  BY DEF Waiting
<1> QED BY <1>1, <1>2

LEMMA PlacesMove ==
    ASSUME NEW m, NEW k1 \in {"queue", "buffer", "hand"},
           NEW q1 \in Replicas \cup {"ready"},
           NEW k2 \in {"queue", "buffer", "hand"}, NEW q2 \in Replicas,
           Waits(m, k1, q1),
           \A k, q : Waits(m, k, q)' =>
                        \/ Waits(m, k, q) /\ ~(k = k1 /\ q = q1)
                        \/ k = k2 /\ q = q2
    PROVE  \E p \in Waiting(m), q \in Places :
              Waiting(m)' \subseteq (Waiting(m) \ {p}) \cup {q}
<1>1. <<k1, q1>> \in Waiting(m) /\ <<k2, q2>> \in Places
  BY DEF Waiting, Places
<1>2. Waiting(m)' \subseteq (Waiting(m) \ {<<k1, q1>>}) \cup {<<k2, q2>>}
  BY DEF Waiting, Places
<1> QED BY <1>1, <1>2

\* What a signal's account rests on.
LEMMA SameAccount ==
    ASSUME TypeOK, NEW m \in Messages,
           UNCHANGED <<loc, buffer, returned, cur, outcome, posts, unanswered>>
    PROVE  NoNewPlace(m)
<1>1. Waiting(m)' \subseteq Waiting(m)
  BY PlacesStay DEF Waits
<1>2. returned[m] \in Nat
  BY DEF TypeOK, BrokerTypeOK
<1> QED BY <1>1, <1>2 DEF NoNewPlace

\* A close returns what the channel held, and drops its buffer.
LEMMA CloseAccounts ==
    ASSUME TypeOK, NEW r \in Replicas, CloseChannel(r),
           UNCHANGED <<cur, outcome, posts, unanswered>>, NEW m \in Messages
    PROVE  AccountedFor(m)
<1> USE DEF TypeOK, BrokerTypeOK
<1>1. \A k, q : Waits(m, k, q)' =>
                   Waits(m, k, q) \/ (k = "queue" /\ q = "ready" /\ loc[m] = r)
  BY DEF CloseChannel, Waits
<1>2. CASE loc[m] = r
  <2>1. Waiting(m)' \subseteq Waiting(m) \cup {Queue}
    BY <1>1, PlacesGrow
  <2> QED BY <1>2, <2>1 DEF CloseChannel, AccountedFor, Returned
<1>3. CASE loc[m] # r
  <2>1. Waiting(m)' \subseteq Waiting(m)
    BY <1>1, <1>3, PlacesStay
  <2> QED BY <1>3, <2>1 DEF CloseChannel, AccountedFor, NoNewPlace
<1> QED BY <1>2, <1>3

\* A nack on a live channel returns its signal, and leaves the others alone.
LEMMA NackAccounts ==
    ASSUME TypeOK, NEW r \in Replicas, NEW n \in Messages, Nack(r, n),
           \A k, q : k # "queue" /\ Waits(n, k, q)' => Waits(n, k, q),
           NEW m \in Messages, m # n => \A k, q : k # "queue" /\ Waits(m, k, q)' => Waits(m, k, q),
           UNCHANGED <<posts, unanswered>>
    PROVE  AccountedFor(m)
<1> USE DEF TypeOK, BrokerTypeOK
<1>1. CASE m = n /\ chan[r] = "open"
  <2>1. Waiting(m)' \subseteq Waiting(m) \cup {Queue}
    BY <1>1, PlacesGrow DEF Waits
  <2> QED BY <1>1, <2>1 DEF Nack, AccountedFor, Returned
<1>2. CASE m # n \/ chan[r] # "open"
  <2>1. loc'[m] = loc[m] /\ returned'[m] = returned[m]
    BY <1>2 DEF Nack
  <2>2. Waiting(m)' \subseteq Waiting(m)
    BY <2>1, PlacesStay DEF Waits
  <2> QED BY <2>1, <2>2 DEF AccountedFor, NoNewPlace
<1> QED BY <1>1, <1>2

\* The supervision loop gives back what its sessions held.
LEMMA RunAccounts ==
    ASSUME IInv, NEW r \in Replicas, Run(r), NEW m \in Messages
    PROVE  AccountedFor(m)
<1> USE DEF IInv, brokerVars, publisherVars
<1>1. CASE CloseChannel(r) /\ UNCHANGED <<cur, outcome, posts, unanswered>>
  BY <1>1, CloseAccounts
<1>2. CASE UNCHANGED <<loc, buffer, returned, cur, outcome, posts, unanswered>>
  BY <1>2, SameAccount DEF AccountedFor
<1>3. CASE Connected(r) \/ SessionEnds(r)
  BY <1>1, <1>2, <1>3 DEF Connected, SessionEnds
<1>4. CASE Top(r) \/ ConnectFails(r) \/ ConnectSucceeds(r)
           \/ BackoffElapses(r) \/ BackoffCancelled(r)
  BY <1>2, <1>4 DEF Top, ConnectFails, ConnectSucceeds, OpenChannel,
                    BackoffElapses, BackoffCancelled
<1> QED BY <1>3, <1>4 DEF Run

\* The loop takes a delivery from its buffer in hand, or hands it back.
LEMMA ConsumeAccounts ==
    ASSUME IInv, NEW r \in Replicas, Consume(r), NEW m \in Messages
    PROVE  AccountedFor(m)
<1> USE DEF IInv, brokerVars, publisherVars, processVars
<1>1. CASE LoopHead(r) \/ ReceiveClosed(r) \/ SelectDone(r) \/ DrainDone(r)
  <2>1. UNCHANGED <<loc, buffer, returned, cur, outcome, posts, unanswered>>
    BY <1>1 DEF LoopHead, StopPushes, ReceiveClosed, SelectDone, DrainDone
  <2> QED BY <2>1, SameAccount DEF AccountedFor
<1>2. ASSUME NEW n \in Messages, Receive(r, n)
      PROVE  AccountedFor(m)
  <2> USE DEF TypeOK, BrokerTypeOK
  <2>1. /\ n \in buffer[r]
        /\ buffer' = [buffer EXCEPT ![r] = @ \ {n}]
        /\ cur' = [cur EXCEPT ![r] = n]
        /\ UNCHANGED <<loc, returned, outcome, posts, unanswered>>
    BY <1>2 DEF Receive
  <2>2. CASE m = n
    <3>1. Waits(m, "buffer", r)
      BY <2>1, <2>2 DEF Waits
    <3>2. \A k, q : Waits(m, k, q)' =>
                       \/ Waits(m, k, q) /\ ~(k = "buffer" /\ q = r)
                       \/ k = "hand" /\ q = r
      BY <2>1, <2>2 DEF Waits
    <3>3. \E p \in Waiting(m), q \in Places :
             Waiting(m)' \subseteq (Waiting(m) \ {p}) \cup {q}
      BY <3>1, <3>2, PlacesMove
    <3> QED BY <2>1, <3>3 DEF AccountedFor, Moved
  <2>3. CASE m # n
    <3>1. Waiting(m)' \subseteq Waiting(m)
      BY <2>1, <2>3, PlacesStay DEF Waits
    <3> QED BY <2>1, <3>1 DEF AccountedFor, NoNewPlace
  <2> QED BY <2>2, <2>3
<1>3. ASSUME NEW n \in Messages, DrainOne(r, n)
      PROVE  AccountedFor(m)
  <2>1. /\ Nack(r, n) /\ buffer' = [buffer EXCEPT ![r] = @ \ {n}]
        /\ UNCHANGED <<cur, outcome, posts, unanswered>>
    BY <1>3 DEF DrainOne
  <2>2. \A x, k, q : k # "queue" /\ Waits(x, k, q)' => Waits(x, k, q)
    BY <2>1 DEF TypeOK, BrokerTypeOK, Waits
  <2> QED BY <2>1, <2>2, NackAccounts
<1> QED BY <1>1, <1>2, <1>3 DEF Consume

\* A publish that is answered uses up the hand it is in; one that failed leaves the
\* account alone.
LEMMA HandleDeliveryAccounts ==
    ASSUME IInv, NEW r \in Replicas, HandleDelivery(r), NEW m \in Messages
    PROVE  AccountedFor(m)
<1> USE DEF IInv, TypeOK, BrokerTypeOK, PublisherTypeOK, brokerVars,
            publisherVars, processVars, Goto
<1>1. CASE ReadSucceeds(r) \/ Rewrite(r) \/ PublishSends(r) \/ PublishWakes(r)
  <2>1. UNCHANGED <<loc, buffer, returned, cur, outcome, posts, unanswered>>
    BY <1>1 DEF ReadSucceeds, Rewrite, CallPublish, PublishSends, Send,
                PublishWakes, Wake
  <2> QED BY <2>1, SameAccount DEF AccountedFor
<1>2. CASE Begin(r) \/ ReadSkips(r) \/ PublishRetries(r) \/ PublishFails(r)
  <2>1. /\ UNCHANGED <<loc, buffer, returned, cur>>
        /\ \/ outcome' = outcome
           \/ outcome[r] # "published" /\ \E o : outcome' = [outcome EXCEPT ![r] = o]
    BY <1>2 DEF Begin, ReadSkips, PublishRetries, PublishFails,
                PipelineIsConsistent
  <2>2. UNCHANGED <<posts, unanswered>>
    BY <1>2 DEF Begin, ReadSkips, PublishRetries, FailsAndSleeps, PublishFails,
                FailsForGood, Fails, GiveUp
  <2>3. Waiting(m)' \subseteq Waiting(m)
    BY <2>1, PlacesStay DEF Waits
  <2> QED BY <2>1, <2>2, <2>3 DEF AccountedFor, NoNewPlace
<1>3. CASE PublishSucceeds(r)
  <2>1. /\ cur[r] \in Messages /\ outcome[r] = "none"
        /\ posts' = [posts EXCEPT ![cur[r]] = @ + 1]
        /\ outcome' = [outcome EXCEPT ![r] = "published"]
        /\ UNCHANGED <<loc, buffer, returned, cur, unanswered>>
    BY <1>3 DEF PublishSucceeds, Answered, PipelineIsConsistent, Handling
  <2>2. CASE m = cur[r]
    <3>1. Waits(m, "hand", r)
      BY <2>1, <2>2 DEF Waits
    <3>2. \A k, q : Waits(m, k, q)' => Waits(m, k, q) /\ ~(k = "hand" /\ q = r)
      BY <2>1 DEF Waits
    <3>3. \E p \in Waiting(m) : Waiting(m)' \subseteq Waiting(m) \ {p}
      BY <3>1, <3>2, PlacesShrink
    <3> QED BY <2>1, <2>2, <3>3 DEF AccountedFor, SeenPosted
  <2>3. CASE m # cur[r]
    <3>1. Waiting(m)' \subseteq Waiting(m)
      BY <2>1, PlacesStay DEF Waits
    <3> QED BY <2>1, <2>3, <3>1 DEF AccountedFor, NoNewPlace
  <2> QED BY <2>2, <2>3
<1>4. CASE Settle(r)
  <2>1. /\ cur[r] \in Messages
        /\ Nack(r, cur[r]) \/ Ack(r, cur[r])
        /\ cur' = [cur EXCEPT ![r] = NoMsg]
        /\ outcome' = [outcome EXCEPT ![r] = "none"]
        /\ UNCHANGED <<buffer, posts, unanswered>>
    BY <1>4 DEF Settle, PipelineIsConsistent, Handling
  <2>2. \A x \in Messages : \A k, q :
           k # "queue" /\ Waits(x, k, q)' => Waits(x, k, q)
    BY <2>1, NoMsgAssumption DEF Waits
  <2>3. CASE Nack(r, cur[r])
    BY <2>1, <2>2, <2>3, NackAccounts
  <2>4. CASE Ack(r, cur[r])
    <3>1. returned' = returned /\ (loc'[m] = "ready" => loc[m] = "ready")
      BY <2>1, <2>4 DEF Ack
    <3>2. \A k, q : Waits(m, k, q)' => Waits(m, k, q)
      BY <2>2, <3>1 DEF Waits
    <3>3. Waiting(m)' \subseteq Waiting(m)
      BY <3>2, PlacesStay
    <3> QED BY <2>1, <3>1, <3>3 DEF AccountedFor, NoNewPlace
  <2> QED BY <2>1, <2>3, <2>4
<1> QED BY <1>1, <1>2, <1>3, <1>4 DEF HandleDelivery

\* A push moves a signal from the queue into a buffer; a crash drops what the
\* replica had.
LEMMA EnvironmentAccounts ==
    ASSUME IInv, NEW r \in Replicas, Environment(r), NEW m \in Messages
    PROVE  AccountedFor(m)
<1> USE DEF IInv, TypeOK, BrokerTypeOK, PublisherTypeOK, brokerVars,
            publisherVars, processVars
<1>1. CASE ConsumerCancelled(r) \/ Terminate(r) \/ Restart(r)
  <2>1. UNCHANGED <<loc, buffer, returned, cur, outcome, posts, unanswered>>
    BY <1>1 DEF ConsumerCancelled, CancelByBroker, Terminate, Restart
  <2> QED BY <2>1, SameAccount DEF AccountedFor
<1>2. CASE ChannelDies(r)
  <2>1. /\ loc'[m] = "ready" => loc[m] = "ready"
        /\ UNCHANGED <<buffer, returned, cur, outcome, posts, unanswered>>
    BY <1>2 DEF ChannelDies, LoseChannel
  <2>2. Waiting(m)' \subseteq Waiting(m)
    BY <2>1, PlacesStay DEF Waits
  <2> QED BY <2>1, <2>2 DEF AccountedFor, NoNewPlace
<1>3. CASE Crash(r)
  <2>1. /\ loc'[m] = "ready" => loc[m] = "ready"
        /\ returned' = returned
        /\ buffer' = [buffer EXCEPT ![r] = {}]
        /\ cur' = [cur EXCEPT ![r] = NoMsg]
        /\ outcome' = [outcome EXCEPT ![r] = "none"]
    BY <1>3 DEF Crash, DropSocket
  <2>2. Waiting(m)' \subseteq Waiting(m)
    BY <2>1, PlacesStay, NoMsgAssumption DEF Waits
  <2>3. posts'[m] - unanswered'[m] = posts[m] - unanswered[m]
    BY <1>3 DEF Crash, AbandonPublish, GiveUp
  <2> QED BY <2>1, <2>2, <2>3 DEF AccountedFor, NoNewPlace
<1>4. ASSUME NEW n \in Messages, BrokerPushes(r, n)
      PROVE  AccountedFor(m)
  <2>1. /\ loc[n] = "ready" /\ loc' = [loc EXCEPT ![n] = r]
        /\ buffer' = [buffer EXCEPT ![r] = @ \cup {n}]
        /\ r # "ready"
        /\ UNCHANGED <<returned, cur, outcome, posts, unanswered>>
    BY <1>4, ReplicaNamesAssumption DEF BrokerPushes, Push
  <2>2. CASE m = n
    <3>1. Waits(m, "queue", "ready")
      BY <2>1, <2>2 DEF Waits
    <3>2. \A k, q : Waits(m, k, q)' =>
                       \/ Waits(m, k, q) /\ ~(k = "queue" /\ q = "ready")
                       \/ k = "buffer" /\ q = r
      BY <2>1, <2>2 DEF Waits
    <3>3. \E p \in Waiting(m), q \in Places :
             Waiting(m)' \subseteq (Waiting(m) \ {p}) \cup {q}
      BY <3>1, <3>2, PlacesMove
    <3> QED BY <2>1, <3>3 DEF AccountedFor, Moved
  <2>3. CASE m # n
    <3>1. Waiting(m)' \subseteq Waiting(m)
      BY <2>1, <2>3, PlacesStay DEF Waits
    <3> QED BY <2>1, <3>1 DEF AccountedFor, NoNewPlace
  <2> QED BY <2>2, <2>3
<1> QED BY <1>1, <1>2, <1>3, <1>4 DEF Environment

\* The broker puts back what a lost channel held, and counts it.
LEMMA ReapAccounts ==
    ASSUME IInv, NEW n \in Messages, BrokerReaps(n), NEW m \in Messages
    PROVE  AccountedFor(m)
<1> USE DEF IInv, TypeOK, BrokerTypeOK
<1>1. /\ loc' = [loc EXCEPT ![n] = "ready"]
      /\ returned' = [returned EXCEPT ![n] = @ + 1]
      /\ UNCHANGED <<buffer, cur, outcome, posts, unanswered>>
  BY DEF BrokerReaps, Reap, publisherVars, processVars
<1>2. CASE m = n
  <2>1. Waiting(m)' \subseteq Waiting(m) \cup {Queue}
    BY <1>1, PlacesGrow DEF Waits
  <2> QED BY <1>1, <1>2, <2>1 DEF AccountedFor, Returned
<1>3. CASE m # n
  <2>1. Waiting(m)' \subseteq Waiting(m)
    BY <1>1, <1>3, PlacesStay DEF Waits
  <2> QED BY <1>1, <1>3, <2>1 DEF AccountedFor, NoNewPlace
<1> QED BY <1>2, <1>3

\* A status of a request that nobody waits for is counted as such.
LEMMA LateStatusAccounts ==
    ASSUME IInv, NEW n \in Messages, LateStatus(n), NEW m \in Messages
    PROVE  AccountedFor(m)
<1> USE DEF IInv, TypeOK, BrokerTypeOK, PublisherTypeOK, LateStatus, CarryOut,
            brokerVars, processVars
<1>1. Waiting(m)' \subseteq Waiting(m)
  BY PlacesStay DEF Waits
<1>2. posts'[m] - unanswered'[m] = posts[m] - unanswered[m]
  OBVIOUS
<1> QED BY <1>1, <1>2 DEF AccountedFor, NoNewPlace

LEMMA EveryStepAccounts ==
    ASSUME IInv, [Next]_vars, NEW m \in Messages
    PROVE  AccountedFor(m)
<1>1. ASSUME NEW r \in Replicas, Process(r) \/ Environment(r)
      PROVE  AccountedFor(m)
  BY <1>1, RunAccounts, ConsumeAccounts, HandleDeliveryAccounts,
     EnvironmentAccounts DEF Process
<1>2. ASSUME NEW n \in Messages, BrokerReaps(n) PROVE AccountedFor(m)
  BY <1>2, ReapAccounts
<1>3. ASSUME NEW n \in Messages, LateStatus(n) PROVE AccountedFor(m)
  BY <1>3, LateStatusAccounts
<1>4. CASE Idle \/ UNCHANGED vars
  <2>1. UNCHANGED <<loc, buffer, returned, cur, outcome, posts, unanswered>>
    BY <1>4 DEF Idle, vars, brokerVars, publisherVars, processVars
  <2> QED BY <2>1, SameAccount DEF IInv, AccountedFor
<1> QED BY <1>1, <1>2, <1>3, <1>4 DEF Next

LEMMA InitAccounts == Init => EveryStatusAccounted
<1> SUFFICES ASSUME Init, NEW m \in Messages PROVE Accounted(m)
  BY DEF EveryStatusAccounted
<1>1. /\ loc[m] = "ready" /\ posts[m] = 0 /\ returned[m] = 0
      /\ unanswered[m] = 0
      /\ \A r \in Replicas : buffer[r] = {} /\ cur[r] = NoMsg
  BY DEF Init, BrokerInit, PublisherInit
<1>2. Waiting(m) \subseteq {Queue}
  BY <1>1, NoMsgAssumption DEF Waiting, Waits, Places, Queue
<1>3. IsFiniteSet({Queue}) /\ Cardinality({Queue}) = 1
  BY FS_Singleton
<1>4. /\ IsFiniteSet(Waiting(m)) /\ Cardinality(Waiting(m)) \in Nat
      /\ Cardinality(Waiting(m)) <= 1
  BY <1>2, <1>3, FewerPlaces
<1> QED BY <1>1, <1>4 DEF Accounted

LEMMA AccountsInvariance == Spec => []EveryStatusAccounted
<1>1. IInv /\ IInv' /\ EveryStatusAccounted /\ [Next]_vars => EveryStatusAccounted'
  <2> SUFFICES ASSUME IInv, IInv', EveryStatusAccounted, [Next]_vars,
                      NEW m \in Messages
               PROVE  Accounted(m)'
    BY DEF EveryStatusAccounted
  <2>1. Accounted(m) /\ AccountedFor(m)
    BY EveryStepAccounts DEF EveryStatusAccounted
  <2> QED BY <2>1, AccountsAreKept DEF IInv
<1> QED BY <1>1, InitAccounts, Invariance, PTL DEF Spec

\* A status beyond a signal's first is explained by a redelivery or by an attempt
\* whose answer was lost, for any replicas, prefetch, attempts and faults: neither
\* settle nor drainDeliveries nor publish adds a duplicate of its own.
THEOREM ExplainedDuplicates == Spec => []DuplicatesAreExplained
<1>1. TypeOK /\ EveryStatusAccounted => DuplicatesAreExplained
  <2> SUFFICES ASSUME TypeOK, EveryStatusAccounted, NEW m \in Messages
               PROVE  posts[m] <= 1 + returned[m] + unanswered[m]
    BY DEF DuplicatesAreExplained
  <2>1. /\ posts[m] \in Nat /\ returned[m] \in Nat /\ unanswered[m] \in Nat
        /\ Cardinality(Waiting(m)) \in Nat
        /\ posts[m] + Cardinality(Waiting(m)) <= 1 + returned[m] + unanswered[m]
    BY FS_CardinalityType DEF TypeOK, BrokerTypeOK, PublisherTypeOK,
       EveryStatusAccounted, Accounted
  <2> QED BY <2>1
<1> QED BY <1>1, TypeCorrectness, AccountsInvariance, PTL
==============================================================================
