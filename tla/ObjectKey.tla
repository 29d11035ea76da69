------------------------------- MODULE ObjectKey -----------------------------
(***************************************************************************)
(* The key of a stock's summary object.  A text is a sequence of characters*)
(* with " " for every white space; the file name is one character.         *)
(***************************************************************************)
EXTENDS SequencesExt, FiniteSetsExt

NoKey == <<>>
FileName == <<"summary.md">>

TrimSpace(s) ==
    LET ink == {i \in DOMAIN s : s[i] # " "}
    IN  IF ink = {} THEN <<>> ELSE SubSeq(s, Min(ink), Max(ink))

ToUpper(s) == [i \in DOMAIN s |-> IF s[i] = "a" THEN "A" ELSE s[i]]

HasDots(s) == \E i \in 1..Len(s) - 1 : s[i] = "." /\ s[i + 1] = "."

\* strings.Split(s, "/"), character by character.
AddCharacter(parts, c) ==
    IF c = "/" THEN Append(parts, <<>>)
    ELSE [parts EXCEPT ![Len(parts)] = Append(@, c)]

PartsOf(s) ==
    LET parts[i \in 0..Len(s)] ==
            IF i = 0 THEN << <<>> >> ELSE AddCharacter(parts[i - 1], s[i])
    IN  parts
Split(s) == PartsOf(s)[Len(s)]

\* The parts that are not empty, with single slashes between them.
AddPart(s, part) ==
    IF part = <<>> THEN s
    ELSE IF s = <<>> THEN part ELSE s \o <<"/">> \o part

JoinedFrom(parts) ==
    LET joined[i \in 0..Len(parts)] ==
            IF i = 0 THEN <<>> ELSE AddPart(joined[i - 1], parts[i])
    IN  joined
Join(parts) == JoinedFrom(parts)[Len(parts)]

\* config: the whole text is trimmed, empty segments are dropped.
ConfigPrefix(raw) == Join(Split(TrimSpace(raw)))

\* Faulty variant: the store keeps the segments as they come.
StorePrefixUntrimmed(prefix) == Join(Split(prefix))

\* summarystore: every segment is trimmed, and dropped if nothing is left.
StorePrefix(prefix) ==
    LET parts == Split(prefix)
    IN  Join([i \in DOMAIN parts |-> TrimSpace(parts[i])])

\* Faulty variant: checkSegment without the test for a slash.
SegmentOKSlash(s) == ~HasDots(s)
SegmentOK(s) == ~Contains(s, "/") /\ ~HasDots(s)

\* The key, or NoKey for an error.
BuildKey(prefix, exchange, symbol) ==
    LET e == TrimSpace(exchange)
        s == TrimSpace(symbol)
        p == StorePrefix(TrimSpace(prefix))
        key == ToUpper(e) \o <<"/">> \o ToUpper(s) \o <<"/">> \o FileName
    IN  IF \/ e = <<>> \/ s = <<>>
           \/ ~SegmentOK(e) \/ ~SegmentOK(s)
           \/ HasDots(TrimSpace(prefix))
        THEN NoKey
        ELSE IF p # <<>> THEN p \o <<"/">> \o key ELSE key
==============================================================================
