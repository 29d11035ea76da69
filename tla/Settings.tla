------------------------------- MODULE Settings ------------------------------
(***************************************************************************)
(* What config.Load makes of the environment.  Every setting is read and   *)
(* checked, whatever the others hold; the service starts if none offends.  *)
(* The timeouts are in Timeouts.tla, the prefix is in ObjectKey.tla.       *)
(*                                                                         *)
(* A variable is "absent" or "empty" (os.LookupEnv tells them apart, getEnv*)
(* does not), "spaces", or a text of which its record says what matters.   *)
(***************************************************************************)
EXTENDS Timeouts, ObjectKey

maxRabbitMQPrefetch == 65535
defaultRabbitMQPrefetch == 1

\* The last port of validAMQPPort.
MaxPort == 65535

Names == {"RABBITMQ_INPUT_EXCHANGE", "RABBITMQ_INPUT_ROUTING_KEY",
          "RABBITMQ_QUEUE"}

NoRecipient == <<>>

\* getEnv replaces these by the default; white space is trimmed only later.
Defaulted(value) == value \in {"absent", "empty"}

\* url.Parse fails on a port that is no number.
Parses(u) == u.value # "text" \/ (u.parses /\ u.port.kind # "junk")

\* validateURL: a host, which may be no more than a port.
ValidURL(u) ==
    \/ Defaulted(u.value)
    \/ /\ u.value = "text" /\ Parses(u)
       /\ u.scheme \in {"http", "https"}
       /\ u.host # <<>> \/ u.port.kind # "blank"

\* validateAMQPURL: a host name, and a port that is blank or 1 to MaxPort.
ValidAMQPURL(u) ==
    \/ Defaulted(u.value)
    \/ /\ u.value = "text" /\ Parses(u)
       /\ u.scheme \in {"amqp", "amqps"}
       /\ u.host # <<>>
       /\ Accepted(u.port, MaxPort)

\* rabbitMQName: an absent name has a default, a blank one has not.
ValidName(value) == value \in {"absent", "fits"}

\* Faulty variant: the parts of a handle with a domain are not looked at.
NormalizeRecipientLax(raw, host) ==
    LET text == TrimSpace(raw)
        handle == IF text # <<>> /\ Head(text) = "@" THEN Tail(text) ELSE text
    IN  IF handle = <<>> \/ host = <<>> THEN NoRecipient
        ELSE IF Contains(handle, "@") THEN handle ELSE handle \o <<"@">> \o host

\* normalizeRecipient: user@domain, or NoRecipient for an error.  One leading
\* "@" is stripped; a handle without a domain gets the instance's host name.
NormalizeRecipient(raw, host) ==
    LET text == TrimSpace(raw)
        handle == IF text # <<>> /\ Head(text) = "@" THEN Tail(text) ELSE text
        ats == {i \in DOMAIN handle : handle[i] = "@"}
    IN  IF \/ handle = <<>> \/ Cardinality(ats) > 1
           \/ ats # {} /\ ats \cap {1, Len(handle)} # {}
           \/ ats = {} /\ host = <<>>
        THEN NoRecipient
        ELSE IF ats = {} THEN handle \o <<"@">> \o host ELSE handle

\* Faulty variant: the first number beyond 16 bits passes.
AcceptedPrefetchOneMore(s) == Accepted(s, maxRabbitMQPrefetch + 1)

\* rabbitMQPrefetch.
AcceptedPrefetch(s) == Accepted(s, maxRabbitMQPrefetch)

\* instanceHostname.
InstanceHost(e) ==
    IF e.instance.value = "text" /\ Parses(e.instance) THEN e.instance.host ELSE <<>>

\* TrimSpace and ToLower leave nothing, an audience, or junk.
Audience(e) == IF e.audience = "blank" THEN "global" ELSE e.audience
Recipient(e) == NormalizeRecipient(e.recipient, InstanceHost(e))

OllamaEnabled(e) == e.enabled \in {"blank", "true"}
MaxOutputChars(e) == Seconds(e.chars, 0)
Prefetch(e) == Seconds(e.prefetch, defaultRabbitMQPrefetch)

\* Load reports all offenders in one error, so the service starts if no setting
\* offends.  The instance has no default and S3_TIMEOUT_SECONDS no upper bound.
Valid(e) ==
    /\ e.missing = {} /\ ~Defaulted(e.instance.value) /\ ValidURL(e.instance)
    /\ \A name \in Names : ValidName(e.names[name])
    /\ ValidURL(e.endpoint) /\ ValidURL(e.ollamaURL) /\ ValidAMQPURL(e.broker)
    /\ e.model # "spaces"
    /\ Audience(e) \in {"global", "local", "direct"}
    /\ Audience(e) = "direct" => Recipient(e) # NoRecipient
    /\ e.enabled # "junk" /\ e.exchangeType # "junk"
    /\ e.temperature \in {"blank", "fits"}
    /\ AtLeastOne(e.tokens)
    /\ AtLeastOne(e.chars) \/ e.chars = [kind |-> "number", value |-> 0]
    /\ AcceptedPrefetch(e.prefetch)
    /\ AtLeastOne(e.s3)
    /\ Accepted(e.ollama, MaxOllama)
    /\ Accepted(e.connect, MaxConnect)
==============================================================================
