----------------------------- MODULE PipelineProofs --------------------------
(***************************************************************************)
(* Proofs about Pipeline: it implements SummaryStore, and which text is    *)
(* published to whom.                                                      *)
(***************************************************************************)
EXTENDS Pipeline, SummaryStoreProofs

-----------------------------------------------------------------------------
LEMMA CharacterIsText ==
    <<"@">> \in Seq(Characters) /\ <<" ">> \in Seq(Characters) /\ <<>> \in Seq(Characters)
<1>1. \A S : \A c \in S : <<c>> \in Seq(S)
  OBVIOUS
<1>2. "@" \in Characters /\ " " \in Characters
  BY CharactersAssumption
<1>3. <<>> \in Seq(Characters)
  OBVIOUS
<1> QED BY <1>1, <1>2, <1>3, Zenon

LEMMA RecipientIsText ==
    ASSUME NEW raw \in Seq(Characters), NEW host \in Seq(Characters)
    PROVE  NormalizeRecipient(raw, host) \in Seq(Characters)
<1> DEFINE t == TrimSpace(raw)
           handle == IF t # <<>> /\ Head(t) = "@" THEN Tail(t) ELSE t
<1>1. t \in Seq(Characters)
  BY TrimSpaceTrims
<1>2. NormalizeRecipient(raw, host) \in {<<>>, handle, (handle \o <<"@">>) \o host}
  BY Zenon DEF NormalizeRecipient, NoRecipient
<1> HIDE DEF t
<1>3. handle \in Seq(Characters)
  <2>1. t # <<>> => Tail(t) \in Seq(Characters)
    BY <1>1, HeadTailProperties
  <2> QED BY <1>1, <2>1
<1> HIDE DEF handle
<1>4. <<"@">> \in Seq(Characters) /\ <<>> \in Seq(Characters)
  BY CharacterIsText
<1>5. (handle \o <<"@">>) \o host \in Seq(Characters)
  <2>1. handle \o <<"@">> \in Seq(Characters)
    BY <1>3, <1>4, ConcatProperties
  <2> QED BY <2>1, ConcatProperties
<1> QED BY <1>2, <1>3, <1>4, <1>5

-----------------------------------------------------------------------------
\* The pipeline reads as SummaryStore specifies, so that what is proved of the
\* reads holds in the pipeline: every step is one of the reads' or leaves their
\* variables alone.
THEOREM ImplementsStore == PipelineSpec => Spec
<1>1. PipelineInit => Init
  BY DEF PipelineInit
<1>2. [PipelineNext]_pipelineVars => [Next]_vars
  <2> SUFFICES ASSUME [PipelineNext]_pipelineVars PROVE [Next]_vars
    OBVIOUS
  <2>1. CASE Read
    BY <2>1 DEF Read, Reading, Next
  <2>2. CASE Handle
    BY <2>2 DEF Handle, ReadFailed, ReadOK, Choose, Publish, PublishFails,
                Settle, Next
  <2>3. CASE (\E r \in Responses : RewriteAnswered(r)) \/ RewriteFails
    BY <2>3 DEF RewriteAnswered, RewriteFails
  <2>4. CASE PipelineTerminate \/ PipelineTerminated
    BY <2>4 DEF PipelineTerminate, PipelineTerminated, Reading, Next
  <2>5. CASE UNCHANGED pipelineVars
    BY <2>5 DEF pipelineVars
  <2> QED BY <2>1, <2>2, <2>3, <2>4, <2>5 DEF PipelineNext
<1> QED BY <1>1, <1>2, PTL DEF PipelineSpec, Spec

\* So the results of reads are truthful while the signals are handled, their keys
\* name one stock, and the timeouts and the prefetch are exact.
THEOREM PipelineReads ==
    PipelineSpec => [](/\ ResultIsTruthful /\ KeyNamesOneStock
                       /\ TimeoutsAreExact /\ PrefetchIsExact)
BY ImplementsStore, TruthfulResults, KeysNameOneStock, ExactTimeouts, ExactPrefetch,
   PTL

-----------------------------------------------------------------------------
(* The texts of a signal, stage by stage.                                  *)

Chosen ==
    publishText = IF Usable(response) THEN TrimSpace(response.text) ELSE text

\* Until the rewrite returns, the summary is to be published; what it returned is
\* what Ollama's answer was worth; and from the choice on the text stays.
TextInv ==
    /\ text \in Seq(Characters) /\ Trimmed(text)
    /\ publishText \in Seq(Characters) /\ Trimmed(publishText)
    /\ rewrite.report \in Seq(Characters) /\ Trimmed(rewrite.report)
    /\ stage = "read" => NoWork
    /\ stage \in {"rewrite", "rewritten"} => text # <<>> /\ publishText = text
    /\ stage = "rewrite" => response = NoResponse
    /\ stage = "rewritten" =>
          /\ rewrite.failed <=> ~Usable(response)
          /\ ~rewrite.failed =>
                rewrite.report = TrimSpace(response.text) /\ rewrite.report # <<>>
    /\ stage = "publish" => Chosen /\ publishText # <<>>
    /\ stage \in {"read", "rewrite", "rewritten", "publish"} => status = NoStatus
    /\ stage = "settle" /\ Posted =>
          Chosen /\ publishText # <<>> /\ status = Form(publishText)
    /\ stage \in {"read", "rewrite", "rewritten", "publish", "settle"}
    /\ env \in Environments

\* Most of TextInv is about variables that most actions leave alone.
LEMMA TextInvStutters ==
    ASSUME TextInv, UNCHANGED <<env, stage, workVars>>
    PROVE  TextInv'
<1>1. /\ env' = env /\ stage' = stage /\ text' = text /\ rewrite' = rewrite
      /\ publishText' = publishText /\ status' = status /\ response' = response
  BY DEF workVars
<1>2. Usable(response)' <=> Usable(response)
  BY <1>1 DEF Usable
<1>3. Form(publishText)' = Form(publishText)
  BY <1>1 DEF Form
<1>4. Posted' <=> Posted
  BY <1>1 DEF Posted
<1>5. NoWork' <=> NoWork
  BY <1>1 DEF NoWork
<1>6. Chosen' <=> Chosen
  BY <1>1, <1>2 DEF Chosen
<1>7. /\ Trimmed(text)' <=> Trimmed(text)
      /\ Trimmed(publishText)' <=> Trimmed(publishText)
      /\ Trimmed(rewrite.report)' <=> Trimmed(rewrite.report)
  BY <1>1 DEF Trimmed
<1> QED BY <1>1, <1>2, <1>3, <1>4, <1>5, <1>6, <1>7 DEF TextInv

LEMMA NoResponseIsUseless == ~Usable(NoResponse)
BY DEF Usable, NoResponse

LEMMA BlankIsTrimmed == <<>> \in Seq(Characters) /\ Trimmed(<<>>)
BY CharacterIsText DEF Trimmed

\* Rewrite fails for the answers that are not usable and returns the others' text.
LEMMA JudgedAsUsable ==
    ASSUME NEW r \in Responses
    PROVE  /\ Judged(r).failed <=> ~Usable(r)
           /\ Judged(r).report \in Seq(Characters) /\ Trimmed(Judged(r).report)
           /\ Usable(r) => /\ Judged(r).report = TrimSpace(r.text)
                           /\ Judged(r).report # <<>>
<1> DEFINE ink == TrimSpace(r.text)
<1>1. ink \in Seq(Characters) /\ Trimmed(ink)
  BY CharactersAssumption, TrimSpaceTrims
<1>2. Usable(r) <=> /\ r.status \in 200..299 /\ r.decodes /\ r.done
                    /\ r.reason # "length" /\ ink # <<>> /\ WithinCap(ink)
  BY DEF Usable, WithinCap, MaxOutputChars, Seconds
<1>3. Judged(r) = IF Usable(r) THEN [failed |-> FALSE, report |-> ink] ELSE Error
  BY <1>2 DEF Judged
<1> HIDE DEF ink
<1>4. Usable(r) => ~Judged(r).failed /\ Judged(r).report = ink
  BY <1>3
<1>5. ~Usable(r) => Judged(r).failed /\ Judged(r).report = <<>>
  BY <1>3 DEF Error
<1>6. Usable(r) => ink # <<>>
  BY <1>2
<1> QED BY <1>1, <1>4, <1>5, <1>6, BlankIsTrimmed DEF ink

LEMMA TextInvStep == TextInv /\ [PipelineNext]_pipelineVars => TextInv'
<1> SUFFICES ASSUME TextInv, [PipelineNext]_pipelineVars PROVE TextInv'
  OBVIOUS
<1>1. CASE Read \/ PipelineTerminate \/ PipelineTerminated \/ UNCHANGED pipelineVars
  <2>1. UNCHANGED <<env, stage, workVars>>
    BY <1>1 DEF Read, Reading, PipelineTerminate, PipelineTerminated, Load,
       LoadFails, ReadSummary, GetFails, GetSucceeds, BodyRead, ReadBreaks, ReadCut,
       Return, DeadlineExpires, Terminate, Terminated, clientVars, vars, pipelineVars
  <2> QED BY <2>1, TextInvStutters
<1>2. CASE ReadFailed
  <2>1. /\ stage = "read" /\ stage' = "settle" /\ env' = env /\ UNCHANGED workVars
        /\ status = NoStatus
    BY <1>2 DEF ReadFailed, NextSignal, clientVars, TextInv, NoWork
  <2> QED BY <2>1 DEF TextInv, workVars, Posted, Trimmed
<1>3. CASE ReadOK
  <2>1. /\ stage = "read" /\ stage' \in {"settle", "rewrite", "publish"}
        /\ env' = env /\ UNCHANGED <<rewrite, status, response>>
        /\ publishText' = text'
        /\ stage' # "settle" => text' # <<>>
    BY <1>3 DEF ReadOK, NextSignal, clientVars
  <2>2. text' \in Seq(Characters) /\ Trimmed(text')
    BY <1>3, CharactersAssumption, TrimSpaceTrims DEF ReadOK
  <2>3. status = NoStatus /\ response = NoResponse
    BY <2>1 DEF TextInv, NoWork
  <2>4. Chosen'
    <3>1. response'.status = 0
      BY <2>1, <2>3 DEF NoResponse
    <3>2. ~Usable(response)'
      BY <3>1 DEF Usable
    <3> QED BY <2>1, <3>1 DEF Chosen, Usable
  <2>5. ~Posted'
    BY <2>1, <2>3 DEF Posted
  <2>6. /\ rewrite'.report \in Seq(Characters) /\ Trimmed(rewrite'.report)
        /\ status' = NoStatus /\ response' = NoResponse /\ env' \in Environments
    BY <2>1, <2>3 DEF TextInv
  <2>7. /\ publishText' \in Seq(Characters) /\ Trimmed(publishText')
        /\ stage' \in {"settle", "rewrite", "publish"}
        /\ stage' # "settle" => text' # <<>> /\ publishText' # <<>>
    BY <2>1, <2>2, Zenon
  <2> QED BY <2>1, <2>2, <2>4, <2>5, <2>6, <2>7 DEF TextInv, Trimmed
<1>4. ASSUME NEW r \in Responses, RewriteAnswered(r) PROVE TextInv'
  <2>1. /\ stage = "rewrite" /\ stage' = "rewritten" /\ env' = env
        /\ rewrite' = Judged(r) /\ response' = r
        /\ UNCHANGED <<text, publishText, status>>
    BY <1>4 DEF RewriteAnswered, vars, clientVars
  <2>2. Usable(response)' <=> Usable(r)
    BY <2>1 DEF Usable
  <2> QED BY <2>1, <2>2, JudgedAsUsable DEF TextInv, Trimmed
<1>5. CASE RewriteFails
  <2>1. /\ stage = "rewrite" /\ stage' = "rewritten" /\ env' = env
        /\ rewrite' = Error /\ UNCHANGED <<text, publishText, status, response>>
    BY <1>5 DEF RewriteFails, vars, clientVars
  <2>2. ~Usable(response)'
    BY <2>1, NoResponseIsUseless DEF TextInv, Usable
  <2>3. rewrite'.failed /\ rewrite'.report = <<>>
    BY <2>1 DEF Error
  <2> QED BY <2>1, <2>2, <2>3, BlankIsTrimmed DEF TextInv, Trimmed
<1>6. CASE Choose
  <2>1. /\ stage = "rewritten" /\ stage' = "publish" /\ env' = env
        /\ UNCHANGED <<text, rewrite, status, response>>
    BY <1>6 DEF Choose, Warning, vars, clientVars
  <2>2. rewrite.failed => publishText' = text
    BY <1>6, <2>1 DEF Choose, Warning, TextInv
  <2>3. ~rewrite.failed => publishText' = rewrite.report
    BY <1>6, <2>1, TrimSpaceKeeps DEF Choose, Warning, TextInv
  <2>4. Usable(response)' <=> ~rewrite.failed
    BY <2>1 DEF TextInv, Usable
  <2>5. Chosen' /\ publishText' # <<>>
    BY <2>1, <2>2, <2>3, <2>4 DEF Chosen, TextInv
  <2>6. publishText' \in {text, rewrite.report}
    BY <2>2, <2>3
  <2> QED BY <2>1, <2>5, <2>6 DEF TextInv, Trimmed
<1>7. CASE Publish
  <2>1. /\ stage = "publish" /\ stage' = "settle" /\ env' = env
        /\ status' = Form(publishText)
        /\ UNCHANGED <<text, rewrite, publishText, response>>
    BY <1>7 DEF Publish, vars, clientVars
  <2>2. Form(publishText)' = Form(publishText)
    BY <2>1 DEF Form
  <2>3. Chosen'
    BY <2>1 DEF TextInv, Chosen, Usable
  <2> QED BY <2>1, <2>2, <2>3 DEF TextInv, Trimmed
<1>8. CASE PublishFails
  <2>1. /\ stage = "publish" /\ stage' = "settle" /\ env' = env /\ UNCHANGED workVars
    BY <1>8 DEF PublishFails, vars, clientVars
  <2> QED BY <2>1 DEF TextInv, workVars, Posted, Trimmed
<1>9. CASE Settle
  <2>1. stage' = "read" /\ env' = env /\ NoWork'
    BY <1>9 DEF Settle, vars, clientVars, NoWork
  <2> QED BY <2>1, BlankIsTrimmed DEF TextInv, NoWork, Trimmed, Error
<1> QED BY <1>1, <1>2, <1>3, <1>4, <1>5, <1>6, <1>7, <1>8, <1>9
           DEF PipelineNext, Handle

LEMMA TextInvariant == PipelineSpec => []TextInv
<1>1. PipelineInit => TextInv
  BY BlankIsTrimmed DEF PipelineInit, Init, TextInv, NoWork, Error
<1> QED BY <1>1, TextInvStep, PTL DEF PipelineSpec

-----------------------------------------------------------------------------
\* Whatever Ollama answers or fails to, what is posted is its complete report or
\* else the summary, trimmed and never blank.
THEOREM RightTexts == PipelineSpec => []RightTextIsPosted
<1>1. TextInv => RightTextIsPosted
  <2> SUFFICES ASSUME TextInv, Posted PROVE RightTextIsPosted
    BY DEF RightTextIsPosted
  <2>1. stage = "settle"
    BY DEF TextInv, Posted
  <2>2. /\ Chosen /\ publishText # <<>> /\ status = Form(publishText)
        /\ publishText \in Seq(Characters) /\ Trimmed(publishText)
    BY <2>1 DEF TextInv
  <2>3. publishText = TrimSpace(publishText)
    BY <2>2, TrimSpaceKeeps
  <2>4. CASE Audience(env) # "direct"
    <3>1. status.body = publishText
      BY <2>2, <2>4 DEF Form
    <3>2. <<>> \o publishText = publishText
      BY <2>2, ConcatEmptySeq
    <3>3. IsSuffix(publishText, status.body)
      BY <2>2, <3>1, <3>2, SuffixOfConcat, CharacterIsText
    <3> QED BY <2>2, <2>3, <3>1, <3>3 DEF RightTextIsPosted, Chosen
  <2>5. CASE Audience(env) = "direct"
    <3> DEFINE mention == <<"@">> \o Recipient(env) \o <<" ">>
    <3>1. mention \in Seq(Characters)
      <4>1. Recipient(env) \in Seq(Characters)
        <5>1. InstanceHost(env) \in Seq(Characters)
          BY CharactersAssumption, CharacterIsText DEF InstanceHost, TextInv
        <5> QED BY <5>1, CharactersAssumption, RecipientIsText
                DEF Recipient, TextInv
      <4>2. <<"@">> \o Recipient(env) \in Seq(Characters)
        BY <4>1, CharacterIsText, ConcatProperties
      <4> QED BY <4>2, CharacterIsText, ConcatProperties
    <3>2. status.body = mention \o publishText
      BY <2>2, <2>5 DEF Form
    <3> HIDE DEF mention
    <3>3. IsSuffix(publishText, status.body)
      BY <2>2, <3>1, <3>2, SuffixOfConcat
    <3>4. env.audience = "direct"
      BY <2>5 DEF Audience
    <3> QED BY <2>2, <2>3, <3>3, <3>4 DEF RightTextIsPosted, Chosen
  <2> QED BY <2>4, <2>5
<1> QED BY <1>1, TextInvariant, PTL

-----------------------------------------------------------------------------
(* The recipient and the audience.                                         *)

\* The places of the "@" signs.
Ats(t) == {i \in 1..Len(t) : t[i] = "@"}

\* A user, an "@" and a domain, which is the host or ends the text it is from.
UserAtDomain(r, k, host, raw) ==
    /\ 1 < k /\ k < Len(r)
    /\ \A i \in 1..Len(r) : r[i] = "@" <=> i = k
    /\ \/ SubSeq(r, k + 1, Len(r)) = host
       \/ IsSuffix(<<"@">> \o SubSeq(r, k + 1, Len(r)), raw)

\* A handle without a domain gets the host.
LEMMA HandleAtHost ==
    ASSUME NEW S, "@" \in S, NEW h \in Seq(S), NEW host \in Seq(S \ {"@"}),
           h # <<>>, host # <<>>, Ats(h) = {}, NEW raw
    PROVE  UserAtDomain(h \o <<"@">> \o host, Len(h) + 1, host, raw)
<1> DEFINE k == Len(h) + 1
           r == (h \o <<"@">>) \o host
<1>1. /\ <<"@">> \in Seq(S) /\ host \in Seq(S)
      /\ Len(h) \in Nat /\ Len(host) \in Nat /\ Len(h) >= 1 /\ Len(host) >= 1
      /\ \A i \in 1..Len(host) : host[i] # "@"
  <2>1. \A i \in 1..Len(host) : host[i] \in S \ {"@"}
    BY ElementOfSeq
  <2>2. host \in Seq(S) /\ <<"@">> \in Seq(S)
    OBVIOUS
  <2> QED BY <2>1, <2>2, LenProperties, EmptySeq
<1>2. h \o <<"@">> = Append(h, "@")
  BY AppendIsConcat
<1>3. /\ h \o <<"@">> \in Seq(S) /\ Len(h \o <<"@">>) = k
      /\ (h \o <<"@">>)[k] = "@"
      /\ \A i \in 1..Len(h) : (h \o <<"@">>)[i] = h[i]
  BY <1>2, AppendProperties
<1> DEFINE g == h \o <<"@">>
<1> HIDE DEF g
<1>4. /\ r = g \o host
      /\ r \in Seq(S) /\ Len(r) = Len(g) + Len(host)
      /\ \A i \in 1 .. Len(g) + Len(host) :
            r[i] = IF i <= Len(g) THEN g[i] ELSE host[i - Len(g)]
  BY <1>1, <1>3, ConcatProperties DEF g
<1> HIDE DEF r
<1>5. /\ Len(g) = k /\ g[k] = "@" /\ \A i \in 1..Len(h) : g[i] # "@"
  BY <1>3 DEF g, Ats
<1>6. 1 < k /\ k < Len(r) /\ Len(r) = k + Len(host)
  BY <1>1, <1>4, <1>5
<1>7. ASSUME NEW i \in 1..Len(r) PROVE r[i] = "@" <=> i = k
  <2>1. CASE i <= k
    <3>1. r[i] = g[i] /\ (i = k \/ i \in 1..Len(h))
      BY <1>1, <1>4, <1>5, <2>1
    <3>2. ~(k \in 1..Len(h))
      BY <1>1
    <3> QED BY <1>5, <3>1, <3>2
  <2>2. CASE i > k
    <3>1. r[i] = host[i - k] /\ i - k \in 1..Len(host) /\ i # k
      BY <1>1, <1>4, <1>5, <1>6, <2>2
    <3> QED BY <1>1, <3>1
  <2> QED BY <1>1, <2>1, <2>2
<1>8. SubSeq(r, k + 1, Len(r)) = host
  <2>1. ASSUME NEW i \in 1..Len(host) PROVE r[(k + 1) + i - 1] = host[i]
    <3>1. (k + 1) + i - 1 = k + i /\ k + i \in 1 .. k + Len(host) /\ ~(k + i <= k)
          /\ (k + i) - k = i
      BY <1>1
    <3> QED BY <1>4, <1>5, <3>1
  <2>2. SubSeq(r, k + 1, Len(r)) = [i \in 1..Len(host) |-> r[(k + 1) + i - 1]]
    BY <1>1, <1>6
  <2>3. host = [i \in 1..Len(host) |-> host[i]]
    BY LenProperties
  <2> QED BY <2>1, <2>2, <2>3
<1> QED BY <1>6, <1>7, <1>8 DEF UserAtDomain, r

\* A handle with one domain stays; what begins at its "@" ends the text.
LEMMA HandleWithDomain ==
    ASSUME NEW S, "@" \in S, NEW t \in Seq(S), NEW h \in Seq(S), NEW n \in Nat,
           Len(t) = n + Len(h), \A i \in 1..Len(h) : t[n + i] = h[i],
           NEW k \in 1..Len(h), Ats(h) = {k}, 1 < k, k < Len(h), NEW host
    PROVE  UserAtDomain(h, k, host, t)
<1> DEFINE d == SubSeq(h, k + 1, Len(h))
           e == <<"@">> \o d
<1>1. Len(h) \in Nat /\ k \in Nat /\ \A i \in 1..Len(h) : h[i] \in S
  BY LenProperties, ElementOfSeq
<1>2. \A i \in 1..Len(h) : h[i] = "@" <=> i = k
  BY DEF Ats
<1>3. /\ d \in Seq(S) /\ Len(d) = Len(h) - k
      /\ \A i \in 1 .. Len(h) - k : d[i] = h[k + i]
  <2>1. d = [i \in 1 .. Len(h) - k |-> h[k + i]]
    <3>1. d = [i \in 1 .. Len(h) - (k + 1) + 1 |-> h[(k + 1) + i - 1]]
      BY <1>1
    <3>2. Len(h) - (k + 1) + 1 = Len(h) - k
          /\ \A i \in 1 .. Len(h) - k : (k + 1) + i - 1 = k + i
      BY <1>1
    <3> QED BY <3>1, <3>2
  <2>2. \A i \in 1 .. Len(h) - k : h[k + i] \in S
    BY <1>1
  <2> HIDE DEF d
  <2> QED BY <1>1, <2>1, <2>2
<1> HIDE DEF d
<1> DEFINE o == <<"@">>
<1>4. o \in Seq(S) /\ Len(o) = 1 /\ o[1] = "@"
  OBVIOUS
<1> HIDE DEF o
<1>5. /\ e \in Seq(S) /\ Len(e) = 1 + (Len(h) - k)
      /\ \A i \in 1 .. 1 + (Len(h) - k) : e[i] = IF i <= 1 THEN o[i] ELSE d[i - 1]
  <2>1. e = o \o d
    BY DEF o
  <2> HIDE DEF e
  <2>2. /\ o \o d \in Seq(S) /\ Len(o \o d) = Len(o) + Len(d)
        /\ \A i \in 1 .. Len(o) + Len(d) :
              (o \o d)[i] = IF i <= Len(o) THEN o[i] ELSE d[i - Len(o)]
    <3>1. \A a, b \in Seq(S) :
             /\ a \o b \in Seq(S) /\ Len(a \o b) = Len(a) + Len(b)
             /\ \A i \in 1 .. Len(a) + Len(b) :
                   (a \o b)[i] = IF i <= Len(a) THEN a[i] ELSE b[i - Len(a)]
      BY ConcatProperties
    <3>2. o \in Seq(S) /\ d \in Seq(S)
      BY <1>3, <1>4
    <3> QED BY <3>1, <3>2, Zenon
  <2> QED BY <1>3, <1>4, <2>1, <2>2
<1> HIDE DEF e
<1>6. ASSUME NEW i \in 1..Len(e) PROVE e[i] = h[(k - 1) + i]
  <2>1. CASE i = 1
    BY <1>1, <1>2, <1>4, <1>5, <2>1
  <2>2. CASE i # 1
    <3>1. i - 1 \in 1 .. Len(h) - k /\ k + (i - 1) = (k - 1) + i /\ ~(i <= 1)
      BY <1>1, <1>5, <2>2
    <3> QED BY <1>3, <1>5, <3>1
  <2> QED BY <2>1, <2>2
<1> DEFINE m == n + (k - 1)
<1>7. m \in Nat /\ Len(t) = m + Len(e)
  <2>1. Len(h) \in Nat /\ Len(e) = 1 + (Len(h) - k)
    BY <1>1, <1>5
  <2>2. n + Len(h) = (n + (k - 1)) + (1 + (Len(h) - k)) /\ n + (k - 1) \in Nat
    BY <1>1, <2>1
  <2> QED BY <2>1, <2>2
<1>8. ASSUME NEW i \in 1..Len(e) PROVE t[m + i] = e[i]
  <2>1. (k - 1) + i \in 1..Len(h) /\ m + i = n + ((k - 1) + i)
    BY <1>1, <1>5
  <2> HIDE DEF m
  <2> QED BY <1>6, <2>1
<1> HIDE DEF m
<1>9. IsSuffix(e, t)
  BY <1>5, <1>7, <1>8, EndIsSuffix
<1> QED BY <1>2, <1>9 DEF UserAtDomain, e, d

\* What normalizeRecipient accepts names one user at one domain.
LEMMA RecipientNamesUser ==
    ASSUME NEW S, "@" \in S, NEW raw \in Seq(S), NEW host \in Seq(S \ {"@"}),
           NormalizeRecipient(raw, host) # NoRecipient
    PROVE  \E k \in Nat :
              UserAtDomain(NormalizeRecipient(raw, host), k, host, TrimSpace(raw))
<1> DEFINE t == TrimSpace(raw)
           h == IF t # <<>> /\ Head(t) = "@" THEN Tail(t) ELSE t
           r == NormalizeRecipient(raw, host)
<1>1. t \in Seq(S)
  BY TrimSpaceTrims
<1>2. h \in Seq(S)
  <2>1. t # <<>> => Tail(t) \in Seq(S)
    BY <1>1, HeadTailProperties
  <2> HIDE DEF t
  <2> QED BY <1>1, <2>1
<1>3. /\ h # <<>> /\ ~(Cardinality(Ats(h)) > 1)
      /\ Ats(h) # {} => Ats(h) \cap {1, Len(h)} = {}
      /\ Ats(h) = {} => host # <<>>
      /\ r = IF Ats(h) = {} THEN h \o <<"@">> \o host ELSE h
  <2>1. {i \in DOMAIN h : h[i] = "@"} = Ats(h)
    <3>1. DOMAIN h = 1..Len(h)
      BY <1>2, LenProperties
    <3> HIDE DEF h
    <3> QED BY <3>1 DEF Ats
  <2>2. r = LET ats == {i \in DOMAIN h : h[i] = "@"}
            IN  IF \/ h = <<>> \/ Cardinality(ats) > 1
                   \/ ats # {} /\ ats \cap {1, Len(h)} # {}
                   \/ ats = {} /\ host = <<>>
                THEN NoRecipient
                ELSE IF ats = {} THEN h \o <<"@">> \o host ELSE h
    BY Zenon DEF NormalizeRecipient
  <2>3. r # NoRecipient
    OBVIOUS
  <2> HIDE DEF h, r
  <2> QED BY <2>1, <2>2, <2>3, Zenon
<1>4. \E n \in Nat : Len(t) = n + Len(h) /\ \A i \in 1..Len(h) : t[n + i] = h[i]
  <2>1. CASE t # <<>> /\ Head(t) = "@"
    <3>1. h = Tail(t)
      BY <2>1
    <3> HIDE DEF t, h
    <3>2. Len(t) \in Nat /\ Len(t) >= 1
      BY <1>1, <2>1, LenProperties, EmptySeq
    <3>3. Len(h) = Len(t) - 1 /\ \A i \in 1..Len(h) : t[1 + i] = h[i]
      BY <1>1, <2>1, <3>1, <3>2, HeadTailProperties
    <3> QED BY <3>2, <3>3
  <2>2. CASE ~(t # <<>> /\ Head(t) = "@")
    <3>1. h = t
      BY <2>2
    <3> HIDE DEF t, h
    <3>2. Len(t) \in Nat
      BY <1>1, LenProperties
    <3>3. Len(t) = 0 + Len(h) /\ \A i \in 1..Len(h) : t[0 + i] = h[i]
      BY <3>1, <3>2
    <3> QED BY <3>3
  <2> QED BY <2>1, <2>2
<1> HIDE DEF t, h, r
<1>5. CASE Ats(h) = {}
  <2>1. r = h \o <<"@">> \o host
    BY <1>3, <1>5
  <2>2. UserAtDomain(h \o <<"@">> \o host, Len(h) + 1, host, t)
    BY <1>2, <1>3, <1>5, HandleAtHost
  <2>3. Len(h) + 1 \in Nat
    BY <1>2, LenProperties
  <2> QED BY <2>1, <2>2, <2>3 DEF r, t
<1>6. CASE Ats(h) # {}
  <2>1. Len(h) \in Nat /\ IsFiniteSet(1..Len(h)) /\ Ats(h) \in SUBSET (1..Len(h))
    BY <1>2, LenProperties, FS_Interval DEF Ats
  <2>2. IsFiniteSet(Ats(h))
    BY <2>1, FS_Subset
  <2>3. Cardinality(Ats(h)) = 1
    BY <1>3, <1>6, <2>2, FS_CardinalityType, FS_EmptySet
  <2>4. PICK k : Ats(h) = {k}
    BY <2>2, <2>3, FS_Singleton
  <2>5. k \in 1..Len(h) /\ k # 1 /\ k # Len(h)
    BY <1>3, <2>1, <2>4
  <2>6. k \in Nat /\ 1 < k /\ k < Len(h)
    BY <2>1, <2>5
  <2>7. PICK n \in Nat : Len(t) = n + Len(h) /\ \A i \in 1..Len(h) : t[n + i] = h[i]
    BY <1>4
  <2>8. UserAtDomain(h, k, host, t)
    BY <1>1, <1>2, <2>4, <2>5, <2>6, <2>7, HandleWithDomain
  <2>9. r = h
    BY <1>3, <1>6
  <2> QED BY <2>6, <2>8, <2>9 DEF r, t
<1> QED BY <1>5, <1>6

\* The mention that a direct status begins with, and what ends it.
LEMMA MentionHasOneUser ==
    ASSUME NEW S, "@" \in S, NEW z \in S, z # "@", NEW r \in Seq(S), NEW k \in Nat,
           1 < k, k < Len(r), \A i \in 1..Len(r) : r[i] = "@" <=> i = k
    PROVE  LET m == <<"@">> \o r \o <<z>>
               ats == {i \in DOMAIN m : m[i] = "@"}
               d == SubSeq(r, k + 1, Len(r))
           IN  /\ m \in Seq(S)
               /\ Cardinality(ats) = 2 /\ Min(ats) = 1 /\ Max(ats) > 2
               /\ SubSeq(m, Max(ats) + 1, Len(m) - 1) = d /\ d # <<>>
<1> DEFINE f == <<"@">> \o r
           m == f \o <<z>>
           n == Len(r)
           d == SubSeq(r, k + 1, n)
<1>1. /\ <<"@">> \in Seq(S) /\ Len(<<"@">>) = 1 /\ <<"@">>[1] = "@"
      /\ <<z>> \in Seq(S) /\ Len(<<z>>) = 1 /\ <<z>>[1] = z
  OBVIOUS
<1>2. n \in Nat /\ 1 < k /\ k < n /\ \A i \in 1..n : r[i] = "@" <=> i = k
  BY LenProperties
<1>3. /\ f \in Seq(S) /\ Len(f) = 1 + n /\ f[1] = "@"
      /\ \A i \in 1..n : f[1 + i] = r[i]
  <2>1. /\ f \in Seq(S) /\ Len(f) = Len(<<"@">>) + Len(r)
        /\ \A i \in 1 .. Len(<<"@">>) + Len(r) :
              f[i] = IF i <= Len(<<"@">>) THEN <<"@">>[i] ELSE r[i - Len(<<"@">>)]
    BY <1>1, ConcatProperties
  <2> HIDE DEF f
  <2>2. \A i \in 1..n : 1 + i \in 1 .. 1 + n /\ ~(1 + i <= 1) /\ (1 + i) - 1 = i
    BY <1>2
  <2> QED BY <1>1, <1>2, <2>1, <2>2
<1> HIDE DEF f
<1>4. /\ m \in Seq(S) /\ Len(m) = n + 2 /\ m[1] = "@" /\ m[n + 2] = z
      /\ \A i \in 1..n : m[1 + i] = r[i]
  <2>1. /\ m \in Seq(S) /\ Len(m) = Len(f) + Len(<<z>>)
        /\ \A i \in 1 .. Len(f) + Len(<<z>>) :
              m[i] = IF i <= Len(f) THEN f[i] ELSE <<z>>[i - Len(f)]
    BY <1>1, <1>3, ConcatProperties
  <2> HIDE DEF m
  <2>2. /\ m \in Seq(S) /\ Len(m) = n + 2
        /\ \A i \in 1 .. n + 2 : m[i] = IF i <= 1 + n THEN f[i] ELSE <<z>>[i - (1 + n)]
    <3>1. Len(f) + Len(<<z>>) = n + 2 /\ Len(f) = 1 + n
      BY <1>1, <1>2, <1>3
    <3> QED BY <2>1, <3>1
  <2>3. m[1] = "@"
    <3>1. 1 \in 1 .. n + 2 /\ 1 <= 1 + n
      BY <1>2
    <3> QED BY <1>3, <2>2, <3>1
  <2>4. m[n + 2] = z
    <3>1. n + 2 \in 1 .. n + 2 /\ ~(n + 2 <= 1 + n) /\ (n + 2) - (1 + n) = 1
      BY <1>2
    <3>2. m[n + 2] = <<z>>[(n + 2) - (1 + n)]
      BY <2>2, <3>1
    <3> QED BY <1>1, <3>1, <3>2
  <2>5. ASSUME NEW i \in 1..n PROVE m[1 + i] = r[i]
    <3>1. 1 + i \in 1 .. n + 2 /\ 1 + i <= 1 + n
      BY <1>2
    <3> QED BY <1>3, <2>2, <3>1
  <2> QED BY <2>2, <2>3, <2>4, <2>5
<1> HIDE DEF m
<1>5. {i \in DOMAIN m : m[i] = "@"} = {1, k + 1}
  <2>1. DOMAIN m = 1 .. n + 2
    BY <1>4, LenProperties
  <2>2. ASSUME NEW i \in 1 .. n + 2 PROVE m[i] = "@" <=> i = 1 \/ i = k + 1
    <3>1. CASE i = 1
      BY <1>4, <3>1
    <3>2. CASE i = n + 2
      BY <1>2, <1>4, <3>2
    <3>3. CASE i # 1 /\ i # n + 2
      <4>1. i - 1 \in 1..n /\ 1 + (i - 1) = i /\ (i - 1 = k <=> i = k + 1)
        BY <1>2, <3>3
      <4>2. m[i] = r[i - 1]
        BY <1>4, <4>1
      <4> QED BY <1>2, <3>3, <4>1, <4>2
    <3> QED BY <3>1, <3>2, <3>3
  <2>3. 1 \in 1 .. n + 2 /\ k + 1 \in 1 .. n + 2
    BY <1>2
  <2> QED BY <2>1, <2>2, <2>3
<1>6. Cardinality({1, k + 1}) = 2
  <2>1. IsFiniteSet({1}) /\ Cardinality({1}) = 1
    BY FS_Singleton
  <2>2. k + 1 \notin {1} /\ {1} \cup {k + 1} = {1, k + 1}
    BY <1>2
  <2>3. Cardinality({1} \cup {k + 1}) = Cardinality({1}) + 1
    BY <2>1, <2>2, FS_AddElement
  <2>4. 1 + 1 = 2
    OBVIOUS
  <2> QED BY <2>1, <2>2, <2>3, <2>4, Zenon
<1>7. Min({1, k + 1}) = 1 /\ Max({1, k + 1}) = k + 1
  <2> DEFINE P == {1, k + 1}
  <2>1. P \in SUBSET (1 .. n + 2) /\ P # {} /\ n + 2 \in Nat
    BY <1>2
  <2> HIDE DEF P
  <2>2. /\ Min(P) \in P /\ \A i \in P : Min(P) <= i
        /\ Max(P) \in P /\ \A i \in P : Max(P) >= i
    BY <2>1, FirstPosition, LastPosition
  <2>3. \A i : i \in P <=> i = 1 \/ i = k + 1
    BY DEF P
  <2>4. 1 \in P /\ k + 1 \in P
    BY <2>3
  <2>5. Min(P) <= 1 /\ Max(P) >= k + 1
    BY <2>2, <2>4
  <2>6. (Min(P) = 1 \/ Min(P) = k + 1) /\ (Max(P) = 1 \/ Max(P) = k + 1)
    BY <2>2, <2>3
  <2>7. Min(P) = 1 /\ Max(P) = k + 1
    BY <1>2, <2>5, <2>6
  <2> QED BY <2>7 DEF P
<1>8. SubSeq(m, (k + 1) + 1, Len(m) - 1) = d
  <2>1. SubSeq(m, (k + 1) + 1, Len(m) - 1) = [i \in 1 .. n - k |-> m[(k + 1) + i]]
    <3>1. SubSeq(m, (k + 1) + 1, Len(m) - 1)
            = [i \in 1 .. (Len(m) - 1) - ((k + 1) + 1) + 1 |->
                  m[((k + 1) + 1) + i - 1]]
      BY <1>2, <1>4
    <3>2. (Len(m) - 1) - ((k + 1) + 1) + 1 = n - k
          /\ \A i \in 1 .. n - k : ((k + 1) + 1) + i - 1 = (k + 1) + i
      BY <1>2, <1>4
    <3> QED BY <3>1, <3>2
  <2>2. d = [i \in 1 .. n - k |-> r[k + i]]
    <3>1. d = [i \in 1 .. n - (k + 1) + 1 |-> r[(k + 1) + i - 1]]
      BY <1>2
    <3>2. n - (k + 1) + 1 = n - k
          /\ \A i \in 1 .. n - k : (k + 1) + i - 1 = k + i
      BY <1>2
    <3> QED BY <3>1, <3>2
  <2>3. ASSUME NEW i \in 1 .. n - k PROVE m[(k + 1) + i] = r[k + i]
    <3>1. k + i \in 1..n /\ (k + 1) + i = 1 + (k + i)
      BY <1>2
    <3> QED BY <1>4, <3>1
  <2> HIDE DEF d
  <2> QED BY <2>1, <2>2, <2>3
<1>9. d # <<>>
  <2>1. Len(d) = n - k
    BY <1>2
  <2> HIDE DEF d
  <2>2. Len(d) # 0
    BY <1>2, <2>1
  <2> QED BY <2>2
<1>10. k + 1 > 2
  BY <1>2
<1> HIDE DEF d
<1> QED BY <1>4, <1>5, <1>6, <1>7, <1>8, <1>9, <1>10 DEF m, f, d

\* Type correctness: besides what SummaryStore keeps, the texts are texts, a signal
\* is handled only while no read runs, and nothing of it is left when the next
\* one is read.
THEOREM PipelineTypes == PipelineSpec => []PipelineTypeOK
<1> DEFINE Inv == /\ rewrite.failed \in BOOLEAN
                  /\ status.visibility \in {"none", "public", "direct"}
                  /\ stage # "read" => phase = "idle"
<1>1. PipelineInit => Inv
  BY DEF PipelineInit, NoWork, Error, NoStatus
<1>2. Inv /\ [PipelineNext]_pipelineVars => Inv'
  <2> SUFFICES ASSUME Inv, [PipelineNext]_pipelineVars PROVE Inv'
    OBVIOUS
  <2>1. CASE Read \/ PipelineTerminated
    BY <2>1 DEF Read, Reading, PipelineTerminated, workVars
  <2>2. CASE PipelineTerminate
    BY <2>2 DEF PipelineTerminate, Terminate, workVars
  <2>3. CASE ReadFailed \/ ReadOK
    BY <2>3 DEF ReadFailed, ReadOK, NextSignal, workVars
  <2>4. ASSUME NEW r \in Responses, RewriteAnswered(r) PROVE Inv'
    <3>1. Judged(r).failed \in BOOLEAN
      BY DEF Judged, Error
    <3>2. /\ rewrite' = Judged(r) /\ stage = "rewrite" /\ stage' = "rewritten"
          /\ phase' = phase /\ status' = status
      BY <2>4 DEF RewriteAnswered, vars
    <3>3. rewrite'.failed \in BOOLEAN
      BY <3>1, <3>2, Zenon
    <3> QED BY <3>2, <3>3
  <2>5. CASE RewriteFails
    BY <2>5 DEF RewriteFails, Error, vars
  <2>6. CASE Choose \/ PublishFails \/ UNCHANGED pipelineVars
    <3>1. /\ rewrite' = rewrite /\ status' = status /\ phase' = phase
          /\ stage' # "read" => stage # "read"
      BY <2>6 DEF Choose, Warning, PublishFails, vars, workVars, pipelineVars
    <3>2. rewrite'.failed \in BOOLEAN
      BY <3>1, Zenon
    <3> QED BY <3>1, <3>2
  <2>7. CASE Publish
    <3>1. Form(publishText).visibility \in {"public", "direct"}
      BY DEF Form
    <3> QED BY <2>7, <3>1 DEF Publish, vars
  <2>8. CASE Settle
    BY <2>8 DEF Settle, Error, NoStatus
  <2> QED BY <2>1, <2>2, <2>3, <2>4, <2>5, <2>6, <2>7, <2>8
         DEF PipelineNext, Handle
<1>3. TypeOK /\ Inv /\ TextInv => PipelineTypeOK
  BY DEF TextInv, PipelineTypeOK
<1> QED BY <1>1, <1>2, <1>3, ImplementsStore, TypeCorrectness, TextInvariant, PTL
        DEF PipelineSpec

-----------------------------------------------------------------------------
\* A service that handles signals has passed the checks of config.Load.
EnvInv == env \in Environments /\ (phase \notin {"loading", "refused"} => Valid(env))

LEMMA EnvInvariant == Spec => []EnvInv
<1>1. Init => EnvInv
  BY DEF Init, EnvInv
<1>2. EnvInv /\ [Next]_vars => EnvInv'
  <2> SUFFICES ASSUME EnvInv, [Next]_vars PROVE EnvInv'
    OBVIOUS
  <2>1. env' = env
    BY DEF Next, Load, LoadFails, ReadSummary, GetFails, GetSucceeds, BodyRead,
           ReadBreaks, ReadCut, Return, DeadlineExpires, NextSignal, Terminate,
           Terminated, vars, clientVars
  <2>2. Valid(env)' <=> Valid(env)
    BY <2>1 DEF Valid
  <2>3. CASE Load \/ LoadFails
    BY <2>1, <2>2, <2>3 DEF Load, LoadFails, EnvInv
  <2>4. CASE ~Load /\ ~LoadFails
    <3>1. phase' \notin {"loading", "refused"} => phase \notin {"loading", "refused"}
      BY <2>4 DEF Next, ReadSummary, GetFails, GetSucceeds, BodyRead, ReadBreaks,
         ReadCut, Return, DeadlineExpires, NextSignal, Terminate, Terminated,
         vars, InCall
    <3> QED BY <2>1, <2>2, <3>1 DEF EnvInv
  <2> QED BY <2>3, <2>4
<1> QED BY <1>1, <1>2, PTL DEF Spec

\* The mention of a recipient that passed the checks names one user.
LEMMA MentionOfRecipient ==
    ASSUME env \in Environments, Recipient(env) # NoRecipient
    PROVE  LET mention == <<"@">> \o Recipient(env) \o <<" ">>
           IN  mention \in Seq(Characters) /\ MentionsOneUser(mention)
<1> DEFINE r == Recipient(env)
           host == InstanceHost(env)
           mention == <<"@">> \o r \o <<" ">>
<1>1. env.recipient \in Seq(Characters) /\ env.instance.host \in Seq(Characters \ {"@"})
  BY CharactersAssumption, HostsAssumption
<1>2. host \in Seq(Characters \ {"@"})
  <2>1. <<>> \in Seq(Characters \ {"@"})
    OBVIOUS
  <2> QED BY <1>1, <2>1 DEF InstanceHost
<1>3. "@" \in Characters /\ " " \in Characters
  BY CharactersAssumption
<1>4. " " # "@"
  BY Zenon
<1>5. r = NormalizeRecipient(env.recipient, host) /\ r # NoRecipient
  BY DEF Recipient
<1>6. host \in Seq(Characters)
  <2>1. \A S, T : S \subseteq T => \A t \in Seq(S) : t \in Seq(T)
    OBVIOUS
  <2>2. Characters \ {"@"} \subseteq Characters
    OBVIOUS
  <2> HIDE DEF host
  <2> QED BY <1>2, <2>1, <2>2, Zenon
<1>7. r \in Seq(Characters)
  BY <1>1, <1>5, <1>6, RecipientIsText
<1> HIDE DEF r, host
<1>8. PICK k \in Nat : UserAtDomain(r, k, host, TrimSpace(env.recipient))
  BY <1>1, <1>2, <1>3, <1>5, RecipientNamesUser
<1> DEFINE ats == {i \in DOMAIN mention : mention[i] = "@"}
           d == SubSeq(r, k + 1, Len(r))
<1>9. /\ mention \in Seq(Characters)
      /\ Cardinality(ats) = 2 /\ Min(ats) = 1 /\ Max(ats) > 2
      /\ SubSeq(mention, Max(ats) + 1, Len(mention) - 1) = d /\ d # <<>>
  <2>1. 1 < k /\ k < Len(r) /\ \A i \in 1..Len(r) : r[i] = "@" <=> i = k
    BY <1>8 DEF UserAtDomain
  <2>2. \A z \in Characters : z # "@" =>
           LET m == <<"@">> \o r \o <<z>>
               as == {i \in DOMAIN m : m[i] = "@"}
           IN  /\ m \in Seq(Characters)
               /\ Cardinality(as) = 2 /\ Min(as) = 1 /\ Max(as) > 2
               /\ SubSeq(m, Max(as) + 1, Len(m) - 1) = d /\ d # <<>>
    BY <1>3, <1>7, <2>1, MentionHasOneUser
  <2> QED BY <1>3, <1>4, <2>2, Zenon
<1>10. d = host \/ IsSuffix(<<"@">> \o d, TrimSpace(env.recipient))
  BY <1>8 DEF UserAtDomain
<1> HIDE DEF d
<1> QED BY <1>9, <1>10, Zenon DEF MentionsOneUser, host, r

\* Whatever the service is started with and whatever it has to say, a status for one person
\* is direct and mentions one user at one domain, and no other status is direct.
THEOREM AudienceRespected == PipelineSpec => []AudienceIsRespected
<1> DEFINE Settled == stage # "read" => phase = "idle"
<1>1. PipelineTypeOK => Settled
  BY DEF PipelineTypeOK
<1>2. TextInv /\ EnvInv /\ Settled => AudienceIsRespected
  <2> SUFFICES ASSUME TextInv, EnvInv, Settled, Posted PROVE AudienceIsRespected
    BY DEF AudienceIsRespected
  <2>1. stage = "settle"
    BY DEF TextInv, Posted
  <2>2. status = Form(publishText) /\ publishText \in Seq(Characters)
    BY <2>1 DEF TextInv
  <2>3. env \in Environments /\ Valid(env)
    BY <2>1 DEF EnvInv
  <2>4. /\ Audience(env) = "direct" <=> env.audience = "direct"
        /\ Audience(env) = "local" <=> env.audience = "local"
    BY DEF Audience
  <2>5. CASE Audience(env) = "direct"
    <3> DEFINE mention == <<"@">> \o Recipient(env) \o <<" ">>
    <3>1. Recipient(env) # NoRecipient
      BY <2>3, <2>5 DEF Valid
    <3>2. mention \in Seq(Characters) /\ MentionsOneUser(mention)
      BY <2>3, <3>1, MentionOfRecipient
    <3>3. status = [body |-> mention \o publishText, visibility |-> "direct",
                    localOnly |-> FALSE]
      BY <2>2, <2>5, Zenon DEF Form
    <3> HIDE DEF mention
    <3>4. status.body = mention \o publishText /\ status.visibility = "direct"
          /\ ~status.localOnly
      BY <3>3
    <3>5. SubSeq(status.body, 1, Len(status.body) - Len(publishText)) = mention
      BY <2>2, <3>2, <3>4, BeginningOfConcat
    <3>6. MentionsOneUser(SubSeq(status.body, 1,
                                 Len(status.body) - Len(publishText)))
      BY <3>2, <3>5, Zenon
    <3>7. env.audience = "direct" /\ env.audience # "local"
      BY <2>4, <2>5
    <3> QED BY <3>4, <3>6, <3>7, Zenon DEF AudienceIsRespected
  <2>6. CASE Audience(env) # "direct"
    <3>1. status = [body |-> publishText, visibility |-> "public",
                    localOnly |-> Audience(env) = "local"]
      BY <2>2, <2>6, Zenon DEF Form
    <3>2. status.visibility = "public" /\ status.localOnly = (Audience(env) = "local")
      BY <3>1
    <3>3. status.visibility # "direct" /\ env.audience # "direct"
      BY <2>4, <2>6, <3>2
    <3>4. status.localOnly <=> env.audience = "local"
      BY <2>4, <3>2, Zenon
    <3> QED BY <3>3, <3>4, Zenon DEF AudienceIsRespected
  <2> QED BY <2>5, <2>6
<1> HIDE DEF Settled
<1> QED BY <1>1, <1>2, ImplementsStore, EnvInvariant, TextInvariant, PipelineTypes, PTL
==============================================================================
