-------------------------------- MODULE MCStore ------------------------------
(***************************************************************************)
(* A small instance of Pipeline for TLC: 18-bit integers and a second of   *)
(* 10 units, so that 13107 seconds are the longest exact duration, 13108   *)
(* wrap to a negative one and 26215 to a short positive one.  Every        *)
(* environment departs from Plain in a setting or in two that interact.    *)
(***************************************************************************)
EXTENDS Pipeline

Number(n) == [kind |-> "number", value |-> n]
Blank == [kind |-> "blank", value |-> 0]
Junk == [kind |-> "junk", value |-> 0]

URL(scheme, host, port) ==
    [value |-> "text", parses |-> TRUE, scheme |-> scheme, host |-> host,
     port |-> port]
Valued(value) == [URL("none", <<>>, Blank) EXCEPT !.value = value]

Plain ==
    [missing |-> {}, instance |-> URL("http", <<"h">>, Blank),
     endpoint |-> Valued("absent"), ollamaURL |-> Valued("absent"),
     broker |-> Valued("absent"), names |-> [n \in Names |-> "absent"],
     model |-> "absent", audience |-> "blank", recipient |-> <<>>,
     enabled |-> "blank", exchangeType |-> "blank", temperature |-> "blank",
     tokens |-> Blank, chars |-> Blank, prefetch |-> Blank,
     s3 |-> Blank, ollama |-> Blank, connect |-> Blank, prefix |-> <<>>]

SomePrefixes ==
    {<<>>, <<"a">>, <<" ", "/", "a", "/", "/", "A", "/">>, <<"a", "/", " ">>,
     <<"a", " ", "/", " ", ".">>, <<"a", "/", ".", ".">>, <<".", " ", ".">>}

Keys == {[Plain EXCEPT !.prefix = p] : p \in SomePrefixes}

Durations ==
    {[Plain EXCEPT !.s3 = s] :
        s \in {Junk} \cup {Number(n) : n \in {-1, 0, 1, 13107, 13108, 26215, 131071, 131072}}}
    \cup {[Plain EXCEPT !.ollama = s, !.connect = t] :
            s \in {Blank, Junk} \cup {Number(n) : n \in {3600, 13108}},
            t \in {Blank, Junk} \cup {Number(n) : n \in {300, 13108}}}

SomeURLs ==
    {Valued("empty"), Valued("spaces"),
     [URL("http", <<"h">>, Blank) EXCEPT !.parses = FALSE]}
    \cup {URL(scheme, host, port) :
            scheme \in {"none", "http", "amqp"}, host \in {<<>>, <<"h">>},
            port \in {Blank, Junk, Number(0), Number(65535), Number(65536)}}

Addresses ==
    {[Plain EXCEPT !.instance = u] : u \in SomeURLs}
    \cup {[Plain EXCEPT !.endpoint = u] : u \in SomeURLs}
    \cup {[Plain EXCEPT !.ollamaURL = u] : u \in SomeURLs}
    \cup {[Plain EXCEPT !.broker = u] : u \in SomeURLs}

\* Every text of at most three of these characters, and handles with a domain.
SomeRecipients ==
    BoundedSeq({"@", "u", " "}, 3)
    \cup {<<"@", "u", "@", "d", " ">>, <<"u", "@", "d">>, <<"u", "@", "d", "@", "d">>}

Addressees ==
    {[Plain EXCEPT !.audience = "direct", !.recipient = r, !.instance.host = host,
                   !.instance.port = Number(65535)] :
        r \in SomeRecipients, host \in {<<>>, <<"h">>}}
    \cup {[Plain EXCEPT !.audience = a, !.recipient = <<"u">>, !.enabled = b] :
            a \in {"blank", "global", "local", "direct", "junk"},
            b \in {"blank", "true", "false", "junk"}}

Others ==
    {[Plain EXCEPT !.missing = {"S3_BUCKET"}],
     [Plain EXCEPT !.names["RABBITMQ_QUEUE"] = "blank"],
     [Plain EXCEPT !.names["RABBITMQ_QUEUE"] = "long"],
     [Plain EXCEPT !.model = "spaces"], [Plain EXCEPT !.exchangeType = "junk"],
     [Plain EXCEPT !.temperature = "junk"], [Plain EXCEPT !.tokens = Number(0)]}
    \cup {[Plain EXCEPT !.prefetch = s] :
            s \in {Junk} \cup {Number(n) : n \in {0, 1, 65535, 65536, 65537, 131072}}}
    \cup {[Plain EXCEPT !.chars = s] :
            s \in {Junk} \cup {Number(n) : n \in -1..3}}

SomeEnvironments == Keys \cup Durations \cup Addresses \cup Addressees \cup Others

FewEnvironments ==
    {[Plain EXCEPT !.s3 = Number(n)] : n \in {1, 13107, 13108, 26215}} \cup Keys

\* Blank, padded, of either case, with a slash, with dots that climb or do not.
SomeTexts ==
    {<<>>, <<" ">>, <<"a">>, <<" ", "A">>, <<"A", " ", "a">>, <<"/">>,
     <<"a", "/", "A">>, <<".">>, <<".", " ", ".">>, <<".", ".">>, <<".", ".", "A">>}

FewTexts == {<<"a">>, <<" ", "A">>, <<"/">>}

SomeAnswers ==
    {[code |-> "NoSuchKey", status |-> 404], [code |-> "NotFound", status |-> 404],
     [code |-> "none", status |-> 404], [code |-> "NoSuchBucket", status |-> 404],
     [code |-> "AccessDenied", status |-> 403],
     [code |-> "InternalError", status |-> 500]}

SomeCharacters ==
    {"@", " ", "/", ".", "a", "A", "u", "d", "h", "s", "r", "e'"}

SomeSummaries == {<<>>, <<" ">>, <<" ", "s", " ">>}

\* A complete answer of some text, and what may be wrong with an answer.
Complete(t) ==
    [status |-> 200, decodes |-> TRUE, done |-> TRUE, reason |-> "stop",
     text |-> t]

SomeResponses ==
    {Complete(t) : t \in {<<>>, <<" ">>, <<" ", "r">>, <<"r", "e'">>,
                          <<"r", " ", "e'">>}}
    \cup {[Complete(<<"r">>) EXCEPT !.status = n] : n \in {199, 300}}
    \cup {[Complete(<<"r">>) EXCEPT !.decodes = FALSE],
          [Complete(<<"r">>) EXCEPT !.done = FALSE],
          [Complete(<<"r">>) EXCEPT !.reason = "length"]}
=============================================================================
