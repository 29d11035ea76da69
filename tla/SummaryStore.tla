----------------------------- MODULE SummaryStore ----------------------------
(***************************************************************************)
(* From the environment to a summary: config.Load and summarystore.New at  *)
(* startup, then the consumer's reads, one at a time, each ended by S3, by *)
(* its own deadline or by shutdown.  S3 may never answer, and every answer *)
(* may come after the context is done.                                     *)
(***************************************************************************)
EXTENDS Settings

CONSTANTS
    Characters,     \* of texts
    Environments,   \* what the process may be started with
    Texts,          \* the exchange and symbol fields of signals
    Answers         \* the errors of GetObject: [code, status]

ASSUME EnvironmentsAssumption ==
    \A e \in Environments :
        /\ e.s3 \in Setting /\ e.ollama \in Setting /\ e.connect \in Setting
        /\ e.prefetch \in Setting

ASSUME TextsAssumption ==
    /\ Texts \subseteq Seq(Characters)
    /\ \A e \in Environments : e.prefix \in Seq(Characters)

\* S3 sends the codes of a missing object with status 404.
ASSUME AnswersAssumption ==
    \A a \in Answers : a.code \in {"NoSuchKey", "NotFound"} => a.status = 404

VARIABLES
    env,        \* the environment of the process
    phase,      \* "loading", "refused", "idle", "get", "body", "returned"
    prefix,     \* Client.prefix
    timeout,    \* S3Config.Timeout, Client.timeout
    others,     \* the timeouts of Ollama and of the broker's dialer
    stock,      \* <<exchange, symbol>> of the read
    key,        \* its key
    expired,    \* the read's deadline has passed
    cancelled,  \* the run context is done
    answer,     \* how GetObject and the body's read ended
    result      \* what ReadSummary returned

clientVars == <<env, prefix, timeout, others>>
readVars == <<stock, key>>
vars == <<clientVars, phase, readVars, expired, cancelled, answer, result>>

None == [code |-> "none", status |-> 0]

\* Endings that are no answer of S3.
Body == [code |-> "body", status |-> 200]
Cut == [code |-> "cut", status |-> 0]
Broken == [code |-> "broken", status |-> 0]

InCall == phase \in {"get", "body"}
Done == expired \/ cancelled

Init ==
    /\ env \in Environments
    /\ phase = "loading"
    /\ prefix = <<>> /\ timeout = 0
    /\ others = [ollama |-> 0, connect |-> 0]
    /\ stock = <<>> /\ key = NoKey
    /\ expired = FALSE /\ cancelled = FALSE
    /\ answer = None /\ result = "none"

-----------------------------------------------------------------------------
LoadFails ==
    /\ phase = "loading" /\ ~Valid(env)
    /\ phase' = "refused"
    /\ UNCHANGED <<clientVars, readVars, expired, cancelled, answer, result>>

Load ==
    /\ phase = "loading" /\ Valid(env)
    /\ phase' = "idle"
    /\ prefix' = StorePrefix(ConfigPrefix(env.prefix))
    /\ timeout' = S3Timeout(env.s3)
    /\ others' = [ollama |-> OllamaTimeout(env.ollama),
                  connect |-> ConnectTimeout(env.connect)]
    /\ UNCHANGED <<env, readVars, expired, cancelled, answer, result>>

-----------------------------------------------------------------------------
\* decodeStock: the fields the read gets, trimmed; a blank one is an error.
DecodeStock(exchange, symbol) == <<TrimSpace(exchange), TrimSpace(symbol)>>
Decodes(exchange, symbol) ==
    TrimSpace(exchange) # <<>> /\ TrimSpace(symbol) # <<>>

\* Faulty variant of ReadSummary: an error of BuildKey is not returned.
ReadSummaryUnchecked(exchange, symbol) ==
    /\ phase = "idle" /\ ~cancelled
    /\ Decodes(exchange, symbol)
    /\ stock' = DecodeStock(exchange, symbol)
    /\ key' = BuildKey(prefix, stock'[1], stock'[2])
    /\ phase' = "get"
    /\ UNCHANGED <<clientVars, expired, cancelled, answer, result>>

\* handleDelivery up to the call of GetObject.
ReadSummary(exchange, symbol) ==
    /\ phase = "idle" /\ ~cancelled
    /\ Decodes(exchange, symbol)
    /\ stock' = DecodeStock(exchange, symbol)
    /\ key' = BuildKey(prefix, stock'[1], stock'[2])
    /\ IF key' = NoKey THEN phase' = "returned" /\ result' = "invalid"
                       ELSE phase' = "get" /\ UNCHANGED result
    /\ UNCHANGED <<clientVars, expired, cancelled, answer>>

\* isNotFound: by the error's type or code, or else by the status.
IsNotFound(a) == a.code \in {"NoSuchKey", "NotFound"} \/ a.status = 404

\* Faulty variant: the context is asked first, for successes too.
ClassifyLate(a) ==
    IF Done THEN "ctx"
    ELSE IF a = Body THEN "ok"
    ELSE IF IsNotFound(a) THEN "notfound" ELSE "error"

\* A miss is one whatever the context says; other errors yield to its error.
Classify(a) ==
    IF a = Body THEN "ok"
    ELSE IF IsNotFound(a) THEN "notfound"
    ELSE IF Done THEN "ctx" ELSE "error"

Return(a) ==
    /\ phase' = "returned"
    /\ answer' = a
    /\ result' = Classify(a)
    /\ UNCHANGED <<clientVars, readVars, expired, cancelled>>

GetFails == phase = "get" /\ \E a \in Answers : Return(a)

\* S3 answers; the body is still to be read.
GetSucceeds ==
    /\ phase = "get"
    /\ phase' = "body"
    /\ UNCHANGED <<clientVars, readVars, expired, cancelled, answer, result>>

BodyRead == phase = "body" /\ Return(Body)

\* No body, a body cut short, or a broken connection.
ReadBreaks == InCall /\ Return(Broken)

\* Faulty variant: a read whose context is not the consumer's.
ReadCutDetached == InCall /\ expired /\ Return(Cut)

\* The context's end fails the call and the body's read.
ReadCut == InCall /\ Done /\ Return(Cut)

\* Faulty variant: none of one second or less.
DeadlineExpiresLate ==
    /\ InCall /\ timeout > Second /\ ~expired
    /\ expired' = TRUE
    /\ UNCHANGED <<clientVars, phase, readVars, cancelled, answer, result>>

\* The deadline, if the read has one.
DeadlineExpires ==
    /\ InCall /\ timeout > 0 /\ ~expired
    /\ expired' = TRUE
    /\ UNCHANGED <<clientVars, phase, readVars, cancelled, answer, result>>

\* The consumer goes on with what it got; once cancelled it reads no more.
NextSignal ==
    /\ phase = "returned"
    /\ phase' = "idle"
    /\ stock' = <<>> /\ key' = NoKey /\ expired' = FALSE
    /\ answer' = None /\ result' = "none"
    /\ UNCHANGED <<clientVars, cancelled>>

Terminate ==
    /\ phase \notin {"loading", "refused"} /\ ~cancelled
    /\ cancelled' = TRUE
    /\ UNCHANGED <<clientVars, phase, readVars, expired, answer, result>>

Terminated ==
    /\ phase = "refused" \/ (phase = "idle" /\ cancelled)
    /\ UNCHANGED vars

Next ==
    \/ Load \/ LoadFails
    \/ \E exchange, symbol \in Texts : ReadSummary(exchange, symbol)
    \/ GetFails \/ GetSucceeds \/ BodyRead \/ ReadBreaks \/ ReadCut
    \/ DeadlineExpires \/ NextSignal \/ Terminate \/ Terminated

Spec == Init /\ [][Next]_vars

-----------------------------------------------------------------------------
TypeOK ==
    /\ env.s3 \in Setting /\ env.ollama \in Setting /\ env.connect \in Setting
    /\ phase \in {"loading", "refused", "idle", "get", "body", "returned"}
    /\ timeout \in -Half .. Half - 1
    /\ others \in [ollama : -Half .. Half - 1, connect : -Half .. Half - 1]
    /\ expired \in BOOLEAN /\ cancelled \in BOOLEAN
    /\ answer \in Answers \cup {None, Body, Cut, Broken}
    /\ result \in {"none", "invalid", "ok", "notfound", "ctx", "error"}
    /\ InCall => key # NoKey

\* The key a read asks for falls apart into the client's prefix, the canonical
\* exchange and the canonical symbol, so that two stocks never share an object;
\* and no segment is empty, padded or climbs, whatever prefix config let through.
KeyNamesOneStock ==
    InCall =>
        LET parts == Split(key)
            canonical == [i \in {1, 2} |-> ToUpper(stock[i])]
        IN  /\ parts = (IF prefix = <<>> THEN <<>> ELSE Split(prefix))
                         \o <<canonical[1], canonical[2], FileName>>
            /\ \A i \in DOMAIN parts :
                  parts[i] # <<>> /\ parts[i] = TrimSpace(parts[i])
                  /\ ~HasDots(parts[i])

\* A service that starts waits for Ollama and for the broker as many seconds as
\* it was told, and for S3 too if these fit a duration: no product wraps.
Exact(duration, seconds) == duration = seconds * Second /\ duration > 0

S3Seconds == IF env.s3.kind = "blank" THEN DefaultS3 ELSE env.s3.value
S3Fits == S3Seconds <= Longest

TimeoutsAreExact ==
    phase \notin {"loading", "refused"} =>
        /\ Exact(others.ollama, Seconds(env.ollama, DefaultOllama))
        /\ Exact(others.connect, Seconds(env.connect, DefaultConnect))
        /\ S3Fits => Exact(timeout, S3Seconds)

\* The client library's uint16(prefetchCount): basic.qos has 16 bits for it.
Wire(n) == n % 65536

\* A service that starts tells the broker the prefetch it was given, and never
\* 0, which means no limit.

PrefetchIsExact ==
    phase \notin {"loading", "refused"} =>
        Wire(Prefetch(env)) = Prefetch(env) /\ Prefetch(env) > 0

\* A summary that has been read is returned although the deadline or a shutdown
\* came first; a read that was cut or broken is never taken for a summary or for
\* a missing one; and the context is blamed only if it is done.
ResultIsTruthful ==
    phase = "returned" =>
        /\ answer = Body => result = "ok"
        /\ answer \in {Cut, Broken} => result \in {"ctx", "error"}
        /\ result = "notfound" => answer.status = 404
        /\ result = "ctx" => Done

\* "S3_TIMEOUT_SECONDS ... per-summary-read timeout": every read has a deadline.
EveryReadHasDeadline == InCall => timeout > 0

\* "A definitive object miss": what is reported as a missing summary is an
\* answer about the object.
MissesAreObjectMisses == result = "notfound" => answer.code # "NoSuchBucket"
=============================================================================
