------------------------------- MODULE Pipeline ------------------------------
(***************************************************************************)
(* The handling of a signal from its read (SummaryStore.tla) to its posted *)
(* status: the rewrite and the judgement of its answer, the choice of the  *)
(* text, and the form that goes to GoToSocial.  What Consumer.tla abstracts*)
(* to outcomes is here with its texts; settlement and the attempts of a    *)
(* publish are there.                                                      *)
(*                                                                         *)
(* A text is a sequence of characters, as in ObjectKey.tla.  Ollama and    *)
(* GoToSocial are external and may never answer.                           *)
(***************************************************************************)
EXTENDS SummaryStore

CONSTANTS
    Summaries,      \* the bodies of summary objects
    Responses       \* Ollama's: [status, decodes, done, reason, text]

ASSUME CharactersAssumption ==
    /\ {"@", " "} \subseteq Characters
    /\ Summaries \subseteq Seq(Characters)
    /\ \A r \in Responses : r.text \in Seq(Characters)
    /\ \A e \in Environments :
          e.recipient \in Seq(Characters) /\ e.instance.host \in Seq(Characters)

\* url.Parse ends the user's part of an address at its last "@" and refuses an
\* escaped one: no host has any.
ASSUME HostsAssumption ==
    \A e \in Environments : e.instance.host \in Seq(Characters \ {"@"})

VARIABLES
    stage,          \* "read", "rewrite", "rewritten", "publish" or "settle"
    text,           \* handleDelivery's text: the trimmed summary
    rewrite,        \* what Rewrite returned: [failed, report]
    publishText,    \* what is to be published
    status,         \* the form of the status that was created
    response        \* history: the answer of Ollama

workVars == <<text, rewrite, publishText, status, response>>
pipelineVars == <<vars, stage, workVars>>

NoResponse == [status |-> 0, decodes |-> FALSE, done |-> FALSE,
               reason |-> "none", text |-> <<>>]
NoStatus == [body |-> <<>>, visibility |-> "none", localOnly |-> FALSE]
Error == [failed |-> TRUE, report |-> <<>>]

NoWork ==
    /\ text = <<>> /\ publishText = <<>>
    /\ rewrite = Error /\ response = NoResponse
    /\ status = NoStatus

PipelineInit == Init /\ stage = "read" /\ NoWork

-----------------------------------------------------------------------------
\* A step of SummaryStore.
Reading(step) == stage = "read" /\ step /\ UNCHANGED <<stage, workVars>>

\* Those that lead to the return of ReadSummary.
Read ==
    \/ Reading(Load) \/ Reading(LoadFails)
    \/ \E exchange, symbol \in Texts : Reading(ReadSummary(exchange, symbol))
    \/ Reading(GetFails) \/ Reading(GetSucceeds) \/ Reading(BodyRead)
    \/ Reading(ReadBreaks) \/ Reading(ReadCut) \/ Reading(DeadlineExpires)

ReadFailed ==
    /\ stage = "read" /\ result # "ok"
    /\ NextSignal
    /\ stage' = "settle"
    /\ UNCHANGED workVars

\* The summary is trimmed.  A blank one is not published, and without a rewriter
\* it is published as it is.
ReadOK ==
    /\ stage = "read" /\ result = "ok"
    /\ NextSignal
    /\ \E summary \in Summaries : text' = TrimSpace(summary)
    /\ publishText' = text'
    /\ stage' = IF text' = <<>> THEN "settle"
                ELSE IF OllamaEnabled(env) THEN "rewrite" ELSE "publish"
    /\ UNCHANGED <<rewrite, status, response>>

-----------------------------------------------------------------------------
(* Rewrite.                                                                *)

\* Faulty variant: the cap counts bytes; "e'" has two.
WithinCapBytes(report) ==
    \/ MaxOutputChars(env) = 0
    \/ Len(report) + Cardinality({i \in DOMAIN report : report[i] = "e'"})
          <= MaxOutputChars(env)

\* OLLAMA_MAX_OUTPUT_CHARS, in runes; 0 is no cap.
WithinCap(report) ==
    MaxOutputChars(env) > 0 => Len(report) <= MaxOutputChars(env)

\* What Rewrite returns for an answer.
Judged(r) ==
    LET report == TrimSpace(r.text)
    IN  IF /\ r.status \in 200..299
           /\ r.decodes /\ r.done /\ r.reason # "length"
           /\ report # <<>> /\ WithinCap(report)
        THEN [failed |-> FALSE, report |-> report]
        ELSE Error

RewriteAnswered(r) ==
    /\ stage = "rewrite"
    /\ stage' = "rewritten"
    /\ rewrite' = Judged(r) /\ response' = r
    /\ UNCHANGED <<vars, text, publishText, status>>

\* The call fails: no connection, the client's timeout, or the context.
RewriteFails ==
    /\ stage = "rewrite"
    /\ stage' = "rewritten"
    /\ rewrite' = Error
    /\ UNCHANGED <<vars, text, publishText, status, response>>

\* Faulty variant: a client without a timeout.
CallEndsUntimed == cancelled

\* What ends the call if Ollama does not: http.Client's timeout is one if > 0.
CallEnds == others.ollama > 0 \/ cancelled

\* What the switch over the rewrite's outcome warns of.
Warning ==
    IF rewrite.failed THEN "rewrite failed"
    ELSE IF TrimSpace(rewrite.report) = <<>> THEN "rewrite returned empty output"
    ELSE "none"

\* With a warning the summary is published, without one the report.
Choose ==
    /\ stage = "rewritten"
    /\ stage' = "publish"
    /\ publishText' = IF Warning # "none" THEN publishText
                      ELSE TrimSpace(rewrite.report)
    /\ UNCHANGED <<vars, text, rewrite, status, response>>

-----------------------------------------------------------------------------
(* Publish.                                                                *)

\* The status and its visibility, by audience.
Form(body) ==
    IF Audience(env) = "direct"
    THEN [body |-> <<"@">> \o Recipient(env) \o <<" ">> \o body,
          visibility |-> "direct", localOnly |-> FALSE]
    ELSE [body |-> body,
          visibility |-> "public", localOnly |-> Audience(env) = "local"]

Publish ==
    /\ stage = "publish"
    /\ stage' = "settle"
    /\ status' = Form(publishText)
    /\ UNCHANGED <<vars, text, rewrite, publishText, response>>

\* All attempts failed.
PublishFails ==
    /\ stage = "publish"
    /\ stage' = "settle"
    /\ UNCHANGED <<vars, workVars>>

Settle ==
    /\ stage = "settle"
    /\ stage' = "read"
    /\ text' = <<>> /\ publishText' = <<>> /\ rewrite' = Error
    /\ status' = NoStatus /\ response' = NoResponse
    /\ UNCHANGED vars

-----------------------------------------------------------------------------
PipelineTerminate == Terminate /\ UNCHANGED <<stage, workVars>>
PipelineTerminated == Reading(Terminated)

Handle ==
    \/ ReadFailed \/ ReadOK \/ Choose \/ Publish \/ PublishFails \/ Settle

PipelineNext ==
    \/ Read \/ Handle
    \/ (\E r \in Responses : RewriteAnswered(r)) \/ RewriteFails
    \/ PipelineTerminate \/ PipelineTerminated

PipelineSpec == PipelineInit /\ [][PipelineNext]_pipelineVars

\* Timers fire and calls whose context is done return; a publish ends, as each
\* of its attempts has a timeout.  Nothing is assumed of S3, Ollama and GoToSocial.
PatientSpec ==
    /\ PipelineSpec
    /\ WF_pipelineVars(Reading(DeadlineExpires))
    /\ WF_pipelineVars(Reading(ReadCut))
    /\ WF_pipelineVars(CallEnds /\ RewriteFails)
    /\ WF_pipelineVars(Handle)

-----------------------------------------------------------------------------
PipelineTypeOK ==
    /\ TypeOK
    /\ stage \in {"read", "rewrite", "rewritten", "publish", "settle"}
    /\ rewrite.failed \in BOOLEAN /\ rewrite.report \in Seq(Characters)
    /\ text \in Seq(Characters) /\ publishText \in Seq(Characters)
    /\ status.visibility \in {"none", "public", "direct"}
    /\ stage # "read" => phase = "idle"
    /\ stage = "read" => NoWork

\* What is posted is the report if Ollama completed one, it is not blank and it
\* is no longer than allowed, and the summary otherwise: trimmed, never blank,
\* whatever the rewrite met; a direct status has its mention before it.
Usable(r) ==
    /\ r.status \in 200..299 /\ r.decodes /\ r.done /\ r.reason # "length"
    /\ LET ink == TrimSpace(r.text)
       IN  /\ ink # <<>>
           /\ env.chars.kind # "blank" /\ env.chars.value > 0 =>
                 Len(ink) <= env.chars.value

Posted == status # NoStatus

RightTextIsPosted ==
    Posted =>
        LET body == IF Usable(response) THEN TrimSpace(response.text) ELSE text
        IN  /\ body # <<>> /\ body = TrimSpace(body)
            /\ IsSuffix(body, status.body)
            /\ env.audience # "direct" => status.body = body

\* A status for one person is direct and begins with the mention of a user at a
\* domain, which the handle names or is the instance's; no other status is
\* direct, and only a local one stays on the instance.
MentionsOneUser(mention) ==
    LET ats == {i \in DOMAIN mention : mention[i] = "@"}
        domain == SubSeq(mention, Max(ats) + 1, Len(mention) - 1)
    IN  /\ Cardinality(ats) = 2 /\ Min(ats) = 1 /\ Max(ats) > 2
        /\ domain # <<>>
        /\ \/ domain = InstanceHost(env)
           \/ IsSuffix(<<"@">> \o domain, TrimSpace(env.recipient))

AudienceIsRespected ==
    Posted =>
        /\ status.visibility = "direct" <=> env.audience = "direct"
        /\ status.localOnly <=> env.audience = "local"
        /\ env.audience = "direct" =>
              MentionsOneUser(SubSeq(status.body, 1,
                                     Len(status.body) - Len(publishText)))

\* A rewrite never costs a publish, though Ollama never answers.
RewriteFailsOpen == stage \in {"rewrite", "rewritten"} ~> stage = "publish"

\* Though S3, Ollama and GoToSocial never answer, a signal that is read is settled
\* if the S3 timeout fits a duration ...
HandlingEnds == InCall /\ S3Fits ~> stage = "settle"

\* ... and shutdown ends the handling of every signal.
ShutdownEndsHandling == cancelled ~> (phase = "idle" /\ stage = "read")
==============================================================================
