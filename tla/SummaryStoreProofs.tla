-------------------------- MODULE SummaryStoreProofs -------------------------
(***************************************************************************)
(* Proofs about SummaryStore for every width of an integer and every bound.*)
(***************************************************************************)
EXTENDS SummaryStore, ObjectKeyProofs

\* Wraparound stays in the range of a duration ...
LEMMA WrapRange ==
    ASSUME NEW n \in Int, Half > 0
    PROVE  Wrap(n) \in -Half .. Half - 1
BY WidthAssumption DEF Wrap

\* ... and changes nothing in it.
LEMMA WrapExact ==
    ASSUME NEW n \in Int, -Half <= n, n < Half
    PROVE  Wrap(n) = n
<1>1. n + Half \in 0 .. 2 * Half - 1
  BY WidthAssumption
<1>2. (n + Half) % (2 * Half) = n + Half
  BY <1>1, WidthAssumption
<1> QED BY <1>2, WidthAssumption DEF Wrap

\* Up to Longest seconds, the product with time.Second is exact and positive.
LEMMA ProductExact ==
    ASSUME NEW s \in Int, s > 0, s <= Longest
    PROVE  Exact(Duration(s), s)
<1>1. s * Second > 0 /\ s * Second <= Longest * Second
  BY WidthAssumption
<1>2. Duration(s) = s * Second
  BY <1>1, WrapExact, WidthAssumption DEF Duration
<1> QED BY <1>1, <1>2 DEF Exact


\* The range is not empty.
LEMMA HalfPositive == Half > 0
BY WidthAssumption

\* A setting that passes a variable's bounds is between 1 and its maximum.
LEMMA AcceptedInRange ==
    ASSUME NEW s \in Setting, NEW max \in Int, NEW default \in 1..max,
           Accepted(s, max)
    PROVE  Seconds(s, default) \in 1..max
BY DEF Accepted, AtLeastOne, Atoi, Setting, Seconds

-----------------------------------------------------------------------------
\* Type correctness: the values a read and the configuration keep, and that no
\* call is made without a key.
THEOREM TypeCorrectness == Spec => []TypeOK
<1>1. Init => TypeOK
  <2>1. 0 \in -Half .. Half - 1
    BY WidthAssumption, HalfPositive
  <2> SUFFICES ASSUME Init PROVE TypeOK
    OBVIOUS
  <2>2. others \in [ollama : -Half .. Half - 1, connect : -Half .. Half - 1]
    BY <2>1 DEF Init
  <2>3. ~InCall
    BY DEF Init, InCall
  <2>4. phase \in {"loading", "refused", "idle", "get", "body", "returned"}
        /\ result \in {"none", "invalid", "ok", "notfound", "ctx", "error"}
    BY DEF Init
  <2> QED BY <2>1, <2>2, <2>3, <2>4, EnvironmentsAssumption DEF Init, TypeOK
<1>2. TypeOK /\ [Next]_vars => TypeOK'
  <2> SUFFICES ASSUME TypeOK, [Next]_vars PROVE TypeOK'
    OBVIOUS
  <2> USE DEF TypeOK, InCall, clientVars, readVars
  <2>1. ASSUME Load PROVE TypeOK'
    <3>1. env.s3 \in Setting /\ env.ollama \in Setting /\ env.connect \in Setting
      BY EnvironmentsAssumption
    <3>2. /\ Accepted(env.ollama, MaxOllama) /\ Accepted(env.connect, MaxConnect)
          /\ AtLeastOne(env.s3)
      BY <2>1 DEF Load, Valid
    <3>3. /\ Seconds(env.s3, DefaultS3) \in Int
          /\ Seconds(env.ollama, DefaultOllama) \in Int
          /\ Seconds(env.connect, DefaultConnect) \in Int
      BY <3>1, CapAssumption, WidthAssumption DEF Seconds, Setting
    <3>4. \A n \in Int : Duration(n) \in -Half .. Half - 1
      BY WrapRange, HalfPositive, WidthAssumption DEF Duration
    <3>5. /\ S3Timeout(env.s3) \in -Half .. Half - 1
          /\ OllamaTimeout(env.ollama) \in -Half .. Half - 1
          /\ ConnectTimeout(env.connect) \in -Half .. Half - 1
      BY <3>3, <3>4 DEF S3Timeout, OllamaTimeout, ConnectTimeout
    <3> QED BY <2>1, <3>5 DEF Load
  <2>2. ASSUME LoadFails PROVE TypeOK'
    BY <2>2 DEF LoadFails
  <2>3. ASSUME NEW exchange \in Texts, NEW symbol \in Texts,
               ReadSummary(exchange, symbol)
        PROVE  TypeOK'
    BY <2>3 DEF ReadSummary
  <2>4. ASSUME NEW a \in Answers \cup {Body, Broken, Cut}, InCall, Return(a)
        PROVE  TypeOK'
    <3>1. Classify(a) \in {"ok", "notfound", "ctx", "error"}
      BY DEF Classify
    <3> QED BY <2>4, <3>1 DEF Return
  <2>5. ASSUME GetFails \/ BodyRead \/ ReadBreaks \/ ReadCut PROVE TypeOK'
    BY <2>5, <2>4 DEF GetFails, BodyRead, ReadBreaks, ReadCut
  <2>6. ASSUME GetSucceeds PROVE TypeOK'
    BY <2>6 DEF GetSucceeds
  <2>7. ASSUME DeadlineExpires PROVE TypeOK'
    BY <2>7 DEF DeadlineExpires
  <2>8. ASSUME NextSignal PROVE TypeOK'
    BY <2>8 DEF NextSignal
  <2>9. ASSUME Terminate PROVE TypeOK'
    BY <2>9 DEF Terminate
  <2>10. ASSUME Terminated \/ UNCHANGED vars PROVE TypeOK'
    BY <2>10 DEF Terminated, vars
  <2> QED
    BY <2>1, <2>2, <2>3, <2>5, <2>6, <2>7, <2>8, <2>9, <2>10 DEF Next
<1> QED BY <1>1, <1>2, PTL DEF Spec

-----------------------------------------------------------------------------
\* Whatever is written in the environment, a service that starts has the
\* Ollama and connect timeouts it was given, and the S3 timeout if it fits.
THEOREM ExactTimeouts == Spec => []TimeoutsAreExact
<1> DEFINE Inv == env \in Environments /\ TimeoutsAreExact
<1>1. Init => Inv
  BY DEF Init, TimeoutsAreExact
<1>2. Inv /\ [Next]_vars => Inv'
  <2> SUFFICES ASSUME Inv, [Next]_vars PROVE Inv'
    OBVIOUS
  <2>1. CASE Load
    <3>1. env.s3 \in Setting /\ env.ollama \in Setting /\ env.connect \in Setting
      BY EnvironmentsAssumption
    <3>2. /\ Accepted(env.ollama, MaxOllama) /\ Accepted(env.connect, MaxConnect)
          /\ AtLeastOne(env.s3)
      BY <2>1 DEF Load, Valid
    <3>3. Exact(OllamaTimeout(env.ollama), Seconds(env.ollama, DefaultOllama))
      <4>1. Seconds(env.ollama, DefaultOllama) \in 1..MaxOllama
        BY <3>1, <3>2, AcceptedInRange, CapAssumption, WidthAssumption
      <4> QED BY <4>1, ProductExact, CapAssumption, WidthAssumption
                 DEF OllamaTimeout
    <3>4. Exact(ConnectTimeout(env.connect), Seconds(env.connect, DefaultConnect))
      <4>1. Seconds(env.connect, DefaultConnect) \in 1..MaxConnect
        BY <3>1, <3>2, AcceptedInRange, CapAssumption, WidthAssumption
      <4> QED BY <4>1, ProductExact, CapAssumption, WidthAssumption
                 DEF ConnectTimeout
    <3>5. S3Fits => Exact(S3Timeout(env.s3), S3Seconds)
      <4> SUFFICES ASSUME S3Fits PROVE Exact(S3Timeout(env.s3), S3Seconds)
        OBVIOUS
      <4>1. S3Seconds = Seconds(env.s3, DefaultS3)
        BY DEF S3Seconds, Seconds
      <4>2. S3Seconds \in Int /\ S3Seconds > 0
        BY <3>1, <3>2, CapAssumption, WidthAssumption
           DEF S3Seconds, AtLeastOne, Atoi, Setting
      <4>3. S3Seconds <= Longest
        BY DEF S3Fits
      <4>4. Exact(Duration(S3Seconds), S3Seconds)
        BY <4>2, <4>3, ProductExact
      <4> QED BY <4>1, <4>4 DEF S3Timeout
    <3>6. /\ env' = env /\ timeout' = S3Timeout(env.s3)
          /\ others'.ollama = OllamaTimeout(env.ollama)
          /\ others'.connect = ConnectTimeout(env.connect)
      BY <2>1 DEF Load
    <3> QED BY <3>3, <3>4, <3>5, <3>6
               DEF TimeoutsAreExact, S3Fits, S3Seconds
  <2>2. CASE ~Load
    <3>1. /\ UNCHANGED clientVars
          /\ phase' \notin {"loading", "refused"} =>
                phase \notin {"loading", "refused"}
      BY <2>2 DEF Next, LoadFails, ReadSummary, GetFails, GetSucceeds, BodyRead,
                  ReadBreaks, ReadCut, Return, DeadlineExpires, NextSignal,
                  Terminate, Terminated, vars, InCall
    <3> QED BY <3>1 DEF clientVars, TimeoutsAreExact, S3Fits, S3Seconds
  <2> QED BY <2>1, <2>2
<1> QED BY <1>1, <1>2, PTL DEF Spec

-----------------------------------------------------------------------------
\* A prefetch up to the cap keeps its value in 16 bits.
LEMMA FitsTheWire ==
    ASSUME NEW n \in 1..maxRabbitMQPrefetch
    PROVE  Wire(n) = n /\ n > 0
<1>1. n \in Int /\ 0 < n /\ n < 65536
  BY DEF maxRabbitMQPrefetch
<1> QED BY <1>1 DEF Wire

\* No prefetch that starts the service is cut by the 16 bits of basic.qos.
THEOREM ExactPrefetch == Spec => []PrefetchIsExact
<1> DEFINE Inv == env \in Environments /\ PrefetchIsExact
<1>1. Init => Inv
  BY DEF Init, PrefetchIsExact
<1>2. Inv /\ [Next]_vars => Inv'
  <2> SUFFICES ASSUME Inv, [Next]_vars PROVE Inv'
    OBVIOUS
  <2>1. CASE Load
    <3>1. env.prefetch \in Setting /\ Accepted(env.prefetch, maxRabbitMQPrefetch)
      BY <2>1, EnvironmentsAssumption DEF Load, Valid, AcceptedPrefetch
    <3>2. Prefetch(env) \in 1..maxRabbitMQPrefetch
      <4>1. maxRabbitMQPrefetch \in Int
            /\ defaultRabbitMQPrefetch \in 1..maxRabbitMQPrefetch
        BY DEF maxRabbitMQPrefetch, defaultRabbitMQPrefetch
      <4> QED BY <3>1, <4>1, AcceptedInRange DEF Prefetch
    <3>3. Wire(Prefetch(env)) = Prefetch(env) /\ Prefetch(env) > 0
      <4>1. ASSUME NEW n \in 1..maxRabbitMQPrefetch PROVE Wire(n) = n /\ n > 0
        BY FitsTheWire
      <4> QED BY <3>2, <4>1
    <3>4. env' = env
      BY <2>1 DEF Load, clientVars
    <3> QED BY <3>3, <3>4 DEF PrefetchIsExact, Prefetch
  <2>2. CASE ~Load
    <3>1. /\ UNCHANGED clientVars
          /\ phase' \notin {"loading", "refused"} =>
                phase \notin {"loading", "refused"}
      BY <2>2 DEF Next, LoadFails, ReadSummary, GetFails, GetSucceeds, BodyRead,
                  ReadBreaks, ReadCut, Return, DeadlineExpires, NextSignal,
                  Terminate, Terminated, vars, InCall
    <3> QED BY <3>1 DEF clientVars, PrefetchIsExact
  <2> QED BY <2>1, <2>2
<1> QED BY <1>1, <1>2, PTL DEF Spec

-----------------------------------------------------------------------------
\* A summary that was read is returned, nothing else is taken for one or for a
\* miss, and the context is blamed only if it is done.
THEOREM TruthfulResults == Spec => []ResultIsTruthful
<1> DEFINE Inv == /\ ResultIsTruthful
                  /\ phase \in {"loading", "refused", "idle"} => answer = None
<1>1. Init => Inv
  BY DEF Init, ResultIsTruthful
<1>2. Inv /\ [Next]_vars => Inv'
  <2> SUFFICES ASSUME Inv, [Next]_vars PROVE Inv'
    OBVIOUS
  <2>1. ASSUME Load \/ LoadFails \/ GetSucceeds \/ DeadlineExpires PROVE Inv'
    BY <2>1 DEF Load, LoadFails, GetSucceeds, DeadlineExpires, InCall,
                ResultIsTruthful
  <2>2. ASSUME NEW exchange \in Texts, NEW symbol \in Texts,
               ReadSummary(exchange, symbol)
        PROVE  Inv'
    <3>1. answer' = None
          /\ (phase' = "get" \/ (phase' = "returned" /\ result' = "invalid"))
      BY <2>2 DEF ReadSummary
    <3> QED BY <3>1 DEF ResultIsTruthful, None, Body, Cut, Broken
  <2>3. ASSUME NEW a \in Answers \cup {Body, Broken, Cut}, Return(a)
        PROVE  Inv'
    <3>1. /\ phase' = "returned" /\ answer' = a /\ result' = Classify(a)
          /\ Done' = Done
      BY <2>3 DEF Return, Done
    <3>2. a = Body => Classify(a) = "ok"
      BY DEF Classify
    <3>3. a \in {Cut, Broken} => Classify(a) \in {"ctx", "error"}
      BY DEF Classify, IsNotFound, Body, Cut, Broken
    <3>4. Classify(a) = "notfound" => a.status = 404
      BY AnswersAssumption DEF Classify, IsNotFound, Body, Cut, Broken
    <3>5. Classify(a) = "ctx" => Done
      BY DEF Classify
    <3> QED BY <3>1, <3>2, <3>3, <3>4, <3>5 DEF ResultIsTruthful
  <2>4. ASSUME GetFails \/ BodyRead \/ ReadBreaks \/ ReadCut PROVE Inv'
    BY <2>4, <2>3 DEF GetFails, BodyRead, ReadBreaks, ReadCut
  <2>5. ASSUME NextSignal PROVE Inv'
    BY <2>5 DEF NextSignal, ResultIsTruthful
  <2>6. ASSUME Terminate \/ Terminated \/ UNCHANGED vars PROVE Inv'
    BY <2>6 DEF Terminate, Terminated, vars, clientVars, readVars,
                ResultIsTruthful, Done
  <2> QED BY <2>1, <2>2, <2>4, <2>5, <2>6 DEF Next
<1> QED BY <1>1, <1>2, PTL DEF Spec

-----------------------------------------------------------------------------
(* Keys.                                                                   *)

\* What keys are written with.
Alphabet == Characters \cup {"/", "A", "summary.md"}

LEMMA AlphabetHoldsTexts ==
    /\ \A t \in Seq(Characters) : t \in Seq(Alphabet)
    /\ {"/", "A"} \subseteq Alphabet /\ FileName \in Seq(Alphabet)
    /\ <<>> \in Seq(Alphabet)
<1>1. \A S, T : S \subseteq T => \A t \in Seq(S) : t \in Seq(T)
  OBVIOUS
<1>2. \A c \in Alphabet : <<c>> \in Seq(Alphabet)
  OBVIOUS
<1>3. Characters \subseteq Alphabet /\ {"/", "A", "summary.md"} \subseteq Alphabet
  BY DEF Alphabet
<1>4. FileName \in Seq(Alphabet)
  BY <1>2, <1>3 DEF FileName
<1>5. <<>> \in Seq(Alphabet)
  OBVIOUS
<1> HIDE DEF Alphabet
<1> QED BY <1>1, <1>3, <1>4, <1>5

\* The prefix is as normalizePrefix leaves it, and what is read is the key of the
\* trimmed names of a signal.
KeyInv ==
    /\ env \in Environments
    /\ prefix \in Seq(Alphabet) /\ Normal(prefix)
    /\ InCall =>
          \E exchange, symbol \in Texts :
             /\ stock = DecodeStock(exchange, symbol)
             /\ key = BuildKey(prefix, stock[1], stock[2]) /\ key # NoKey

LEMMA KeyInvStep == KeyInv /\ [Next]_vars => KeyInv'
<1> SUFFICES ASSUME KeyInv, [Next]_vars PROVE KeyInv'
  OBVIOUS
<1>1. CASE Load
  <2>1. env' = env /\ prefix' = StorePrefix(ConfigPrefix(env.prefix)) /\ ~InCall'
    BY <1>1 DEF Load, InCall
  <2>2. env.prefix \in Seq(Alphabet)
    BY TextsAssumption, AlphabetHoldsTexts DEF KeyInv
  <2>3. "/" \in Alphabet
    BY AlphabetHoldsTexts
  <2>4. ConfigPrefix(env.prefix) \in Seq(Alphabet)
    BY <2>2, <2>3, ConfigPrefixType
  <2>5. prefix' \in Seq(Alphabet) /\ Normal(prefix')
    BY <2>1, <2>3, <2>4, StorePrefixNormal
  <2> QED BY <2>1, <2>5 DEF KeyInv, Normal, Trimmed
<1>2. ASSUME NEW exchange \in Texts, NEW symbol \in Texts,
             ReadSummary(exchange, symbol)
      PROVE  KeyInv'
  <2>1. /\ env' = env /\ prefix' = prefix
        /\ stock' = DecodeStock(exchange, symbol)
        /\ key' = BuildKey(prefix, stock'[1], stock'[2])
        /\ InCall' => key' # NoKey
    BY <1>2 DEF ReadSummary, clientVars, InCall
  <2> QED BY <2>1 DEF KeyInv, Normal, Trimmed, DecodeStock
<1>3. CASE ~Load /\ ~(\E exchange, symbol \in Texts : ReadSummary(exchange, symbol))
  <2>1. /\ env' = env /\ prefix' = prefix
        /\ InCall' => InCall /\ stock' = stock /\ key' = key
    BY <1>3 DEF Next, LoadFails, GetFails, GetSucceeds, BodyRead, ReadBreaks,
                ReadCut, Return, DeadlineExpires, NextSignal, Terminate,
                Terminated, vars, clientVars, readVars, InCall
  <2> QED BY <2>1 DEF KeyInv, Normal, Trimmed, DecodeStock
<1> QED BY <1>1, <1>2, <1>3

\* Whatever prefix, exchange and symbol the process is given, the key of a read
\* falls apart into the prefix's segments and the canonical names of the stock.
THEOREM KeysNameOneStock == Spec => []KeyNamesOneStock
<1>1. Init => KeyInv
  <2>1. <<>> \in Seq(Alphabet) /\ Normal(<<>>)
    BY AlphabetHoldsTexts, NormalEmpty
  <2> QED BY <2>1 DEF Init, KeyInv, InCall, Normal, Trimmed
<1>2. KeyInv => KeyNamesOneStock
  <2> SUFFICES ASSUME KeyInv, InCall PROVE KeyNamesOneStock
    BY DEF KeyNamesOneStock
  <2>1. PICK exchange \in Texts, symbol \in Texts :
           /\ stock = DecodeStock(exchange, symbol)
           /\ key = BuildKey(prefix, stock[1], stock[2]) /\ key # NoKey
    BY DEF KeyInv
  <2> DEFINE e == stock[1]
             s == stock[2]
             parts == Split(key)
             canonical == [i \in {1, 2} |-> ToUpper(stock[i])]
  <2>2. /\ exchange \in Seq(Alphabet) /\ symbol \in Seq(Alphabet)
        /\ e = TrimSpace(exchange) /\ s = TrimSpace(symbol)
    BY <2>1, TextsAssumption, AlphabetHoldsTexts DEF DecodeStock
  <2>3. canonical[1] = ToUpper(e) /\ canonical[2] = ToUpper(s)
    OBVIOUS
  <2>4. prefix \in Seq(Alphabet) /\ Normal(prefix)
        /\ key = BuildKey(prefix, e, s) /\ key # NoKey
    BY <2>1 DEF KeyInv
  <2> HIDE DEF e, s
  <2>5. e \in Seq(Alphabet) /\ Trimmed(e) /\ s \in Seq(Alphabet) /\ Trimmed(s)
    BY <2>2, TrimSpaceTrims
  <2>6. {"/", "A"} \subseteq Alphabet /\ FileName \in Seq(Alphabet)
    BY AlphabetHoldsTexts
  <2>7. /\ parts = KeySegments(prefix, ToUpper(e), ToUpper(s), FileName)
        /\ \A i \in DOMAIN parts : Clean(parts[i])
    BY <2>4, <2>5, <2>6, SegmentsOfKey
  <2>8. ASSUME NEW i \in DOMAIN parts
        PROVE  /\ parts[i] # <<>> /\ parts[i] = TrimSpace(parts[i])
               /\ ~HasDots(parts[i])
    BY <2>7 DEF Clean
  <2>9. parts = (IF prefix = <<>> THEN <<>> ELSE Split(prefix))
                  \o <<canonical[1], canonical[2], FileName>>
    BY <2>3, <2>7, Zenon DEF KeySegments, Segments
  <2> HIDE DEF parts, canonical
  <2> QED BY <2>8, <2>9 DEF KeyNamesOneStock, parts, canonical
<1> QED BY <1>1, <1>2, KeyInvStep, PTL DEF Spec
==============================================================================
