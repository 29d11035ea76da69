------------------------------- MODULE Timeouts ------------------------------
(***************************************************************************)
(* The timeouts config.Load reads from the environment, with the width of  *)
(* Go's integers: a time.Duration is a signed 64-bit count of nanoseconds, *)
(* and the product of a count of seconds with time.Second wraps.           *)
(***************************************************************************)
EXTENDS Integers

CONSTANTS
    Half,           \* int and time.Duration range over -Half .. Half-1
    Second,         \* time.Second
    Longest,        \* the most seconds a duration holds
    MaxOllama,      \* maxOllamaTimeoutSeconds
    MaxConnect,     \* maxRabbitMQConnectTimeoutSeconds
    DefaultS3, DefaultOllama, DefaultConnect

ASSUME WidthAssumption ==
    /\ Half \in Nat /\ Second \in Nat \ {0} /\ Longest \in Nat
    /\ Longest * Second < Half /\ Half <= (Longest + 1) * Second
\* The caps lie far below the range of a duration (3600 s against 292 years).
ASSUME CapAssumption ==
    /\ MaxOllama \in 1..Longest /\ MaxConnect \in 1..Longest
    /\ DefaultS3 \in 1..Longest
    /\ DefaultOllama \in 1..MaxOllama /\ DefaultConnect \in 1..MaxConnect

\* What a variable holds after TrimSpace: nothing, no number, or a number.
Setting == [kind : {"blank", "junk", "number"}, value : Int]

\* Signed wraparound.
Wrap(n) == ((n + Half) % (2 * Half)) - Half
Duration(seconds) == Wrap(seconds * Second)

\* strconv.Atoi: an error for what is no number and for one out of range.
Atoi(s) == s.kind = "number" /\ s.value \in -Half .. Half - 1

\* A setting is accepted if it is blank or a number from 1 up.
AtLeastOne(s) == s.kind = "blank" \/ (Atoi(s) /\ s.value > 0)

\* Faulty variant: the upper bound forgotten.
AcceptedUnbounded(s, max) == AtLeastOne(s)

\* Some variables have an upper bound too.
Accepted(s, max) == AtLeastOne(s) /\ (s.kind = "number" => s.value <= max)

Seconds(s, default) == IF s.kind = "blank" THEN default ELSE s.value

S3Timeout(s) == Duration(Seconds(s, DefaultS3))
OllamaTimeout(s) == Duration(Seconds(s, DefaultOllama))
ConnectTimeout(s) == Duration(Seconds(s, DefaultConnect))
==============================================================================
