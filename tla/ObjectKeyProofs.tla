----------------------------- MODULE ObjectKeyProofs -------------------------
(***************************************************************************)
(* Lemmas about texts: trimming, splitting and joining, for texts of every *)
(* length, and what they make of the key of a summary object.              *)
(*                                                                         *)
(* Induction and recursion are over sets of naturals: a property of every  *)
(* text of a length is a set of lengths, which has a least one that it     *)
(* lacks.                                                                  *)
(***************************************************************************)
EXTENDS ObjectKey, Integers, TLAPS, WellFoundedInduction, SequenceTheorems,
        FiniteSetTheorems

-----------------------------------------------------------------------------
(* Texts.                                                                  *)

\* Every set of naturals that is not empty has a least one.
LEMMA LeastNatural ==
    ASSUME NEW Q, Q \subseteq Nat, Q # {}
    PROVE  \E m \in Q : \A i \in Q : m <= i
<1> DEFINE LT == {ss \in Nat \X Nat : ss[1] < ss[2]}
<1>1. IsWellFoundedOn(LT, Nat)
  BY NatLessThanWellFounded DEF OpToRel
<1>2. \A x, y \in Nat : x < y => <<x, y>> \in LT
  OBVIOUS
<1> HIDE DEF LT
<1>3. \E m \in Q : \A i \in Q : ~ (<<i, m>> \in LT)
  BY <1>1, WFMin
<1>4. \A i, m \in Nat : ~ (<<i, m>> \in LT) => m <= i
  BY <1>2
<1> QED BY <1>3, <1>4

\* A set of positions that is not empty has a first and a last one.
LEMMA FirstPosition ==
    ASSUME NEW n \in Nat, NEW P \in SUBSET (1..n), P # {}
    PROVE  Min(P) \in P /\ \A i \in P : Min(P) <= i
<1>1. P \subseteq Nat
  OBVIOUS
<1>2. \E m \in P : \A i \in P : m <= i
  BY <1>1, LeastNatural
<1> QED BY <1>2 DEF Min

LEMMA LastPosition ==
    ASSUME NEW n \in Nat, NEW P \in SUBSET (1..n), P # {}
    PROVE  Max(P) \in P /\ \A i \in P : Max(P) >= i
<1> DEFINE Q == {n - i : i \in P}
<1>1. Q # {} /\ Q \subseteq Nat
  <2>1. Q # {}
    OBVIOUS
  <2>2. \A p \in P : p \in 1..n
    OBVIOUS
  <2>3. \A p \in P : n - p \in Nat
    BY <2>2
  <2> QED BY <2>1, <2>3
<1>2. \E m \in Q : \A i \in Q : m <= i
  BY <1>1, LeastNatural
<1>3. PICK p \in P : \A i \in Q : n - p <= i
  BY <1>2
<1>4. \A i \in P : p >= i
  BY <1>3
<1> QED BY <1>4 DEF Max

\* Trimming leaves a text that neither begins nor ends with a space, and what
\* is not blank it does not make blank.
Trimmed(t) == t # <<>> => t[1] # " " /\ t[Len(t)] # " "

\* The positions of a text that TrimSpace looks for.
Ink(t) == {i \in 1..Len(t) : t[i] # " "}

LEMMA TrimSpaceInk ==
    ASSUME NEW S, NEW t \in Seq(S)
    PROVE  /\ Len(t) \in Nat
           /\ Ink(t) \in SUBSET (1..Len(t))
           /\ \A i \in 1..Len(t) : i \in Ink(t) <=> t[i] # " "
           /\ Ink(t) = {} => TrimSpace(t) = <<>>
           /\ Ink(t) # {} => TrimSpace(t) = SubSeq(t, Min(Ink(t)), Max(Ink(t)))
<1>1. DOMAIN t = 1..Len(t) /\ Len(t) \in Nat
  BY LenProperties
<1>2. {i \in DOMAIN t : t[i] # " "} = Ink(t)
  BY <1>1 DEF Ink
<1>3. TrimSpace(t) = IF Ink(t) = {} THEN <<>>
                     ELSE SubSeq(t, Min(Ink(t)), Max(Ink(t)))
  BY <1>2, Zenon DEF TrimSpace
<1>4. \A i \in 1..Len(t) : i \in Ink(t) <=> t[i] # " "
  BY DEF Ink
<1>5. Ink(t) \in SUBSET (1..Len(t))
  BY DEF Ink
<1> QED BY <1>1, <1>3, <1>4, <1>5

LEMMA TrimSpaceTrims ==
    ASSUME NEW S, NEW t \in Seq(S)
    PROVE  TrimSpace(t) \in Seq(S) /\ Trimmed(TrimSpace(t))
<1>0. /\ Len(t) \in Nat
      /\ Ink(t) \in SUBSET (1..Len(t))
      /\ \A i \in 1..Len(t) : i \in Ink(t) <=> t[i] # " "
      /\ Ink(t) = {} => TrimSpace(t) = <<>>
      /\ Ink(t) # {} => TrimSpace(t) = SubSeq(t, Min(Ink(t)), Max(Ink(t)))
  BY TrimSpaceInk
<1>1. CASE Ink(t) = {}
  <2>1. TrimSpace(t) = <<>>
    BY <1>1, <1>0
  <2> QED BY <2>1 DEF Trimmed
<1>2. CASE Ink(t) # {}
  <2>1. PICK m, n \in Ink(t) : m <= n /\ TrimSpace(t) = SubSeq(t, m, n)
    <3>1. /\ Min(Ink(t)) \in Ink(t) /\ \A i \in Ink(t) : Min(Ink(t)) <= i
          /\ Max(Ink(t)) \in Ink(t)
      BY <1>2, <1>0, FirstPosition, LastPosition
    <3> QED BY <1>2, <3>1, <1>0
  <2>2. m \in 1..Len(t) /\ n \in 1..Len(t) /\ m <= n
    BY <2>1, <1>0
  <2>3. m \in Nat /\ n \in Nat /\ 1 <= m /\ m <= n /\ n <= Len(t)
    <3>1. \A l \in Nat : \A k \in 1..l : k \in Nat /\ 1 <= k /\ k <= l
      OBVIOUS
    <3> QED BY <2>2, <3>1, <1>0, Zenon
  <2>4. \A i \in m..n : t[i] \in S
    <3>1. \A i \in m..n : i \in 1..Len(t)
      <4>1. \A l \in Nat : n <= l => \A i \in m..n : i \in 1..l
        BY <2>3
      <4> QED BY <2>3, <4>1, <1>0, Zenon
    <3> QED BY <3>1, LenProperties
  <2>5. /\ SubSeq(t, m, n) \in Seq(S)
        /\ Len(SubSeq(t, m, n)) = n - m + 1
        /\ \A i \in 1 .. n - m + 1 : SubSeq(t, m, n)[i] = t[m + i - 1]
    BY <2>3, <2>4, SubSeqProperties
  <2>6. n - m + 1 \in 1 .. n - m + 1 /\ 1 \in 1 .. n - m + 1
        /\ m + 1 - 1 = m /\ m + (n - m + 1) - 1 = n
    BY <2>3
  <2>7. SubSeq(t, m, n)[1] # " " /\ SubSeq(t, m, n)[n - m + 1] # " "
    <3>1. t[m] # " " /\ t[n] # " "
      BY <2>1, <2>2, <1>0
    <3> QED BY <3>1, <2>5, <2>6
  <2> QED BY <2>1, <2>5, <2>7 DEF Trimmed
<1> QED BY <1>1, <1>2

LEMMA TrimSpaceKeeps ==
    ASSUME NEW S, NEW t \in Seq(S), Trimmed(t)
    PROVE  TrimSpace(t) = t
<1>0. /\ Len(t) \in Nat
      /\ Ink(t) \in SUBSET (1..Len(t))
      /\ \A i \in 1..Len(t) : i \in Ink(t) <=> t[i] # " "
      /\ Ink(t) = {} => TrimSpace(t) = <<>>
      /\ Ink(t) # {} => TrimSpace(t) = SubSeq(t, Min(Ink(t)), Max(Ink(t)))
  BY TrimSpaceInk
<1>1. CASE t = <<>>
  <2>1. Ink(t) = {}
    BY <1>1 DEF Ink
  <2> QED BY <1>1, <2>1, <1>0
<1>2. CASE t # <<>>
  <2>1. Len(t) \in Nat /\ Len(t) >= 1
    BY <1>2, LenProperties
  <2>2. 1 \in Ink(t) /\ Len(t) \in Ink(t)
    <3>1. 1 \in 1..Len(t) /\ Len(t) \in 1..Len(t)
      BY <2>1
    <3>2. t[1] # " " /\ t[Len(t)] # " "
      BY <1>2 DEF Trimmed
    <3> QED BY <3>1, <3>2, <1>0
  <2>3. Min(Ink(t)) = 1 /\ Max(Ink(t)) = Len(t)
    <3>1. /\ Min(Ink(t)) \in Ink(t) /\ \A i \in Ink(t) : Min(Ink(t)) <= i
          /\ Max(Ink(t)) \in Ink(t) /\ \A i \in Ink(t) : Max(Ink(t)) >= i
      BY <2>2, <1>0, FirstPosition, LastPosition
    <3>2. /\ Min(Ink(t)) \in 1..Len(t) /\ Min(Ink(t)) <= 1
          /\ Max(Ink(t)) \in 1..Len(t) /\ Max(Ink(t)) >= Len(t)
      BY <2>2, <3>1, <1>0
    <3> QED BY <2>1, <3>2
  <2>4. TrimSpace(t) = SubSeq(t, 1, Len(t))
    BY <2>2, <2>3, <1>0
  <2>5. SubSeq(t, 1, Len(t)) = t
    OBVIOUS
  <2> QED BY <2>4, <2>5
<1> QED BY <1>1, <1>2

\* A text is a suffix of every text that ends with it.
LEMMA EndIsSuffix ==
    ASSUME NEW S, NEW t \in Seq(S), NEW u \in Seq(S), NEW n \in Nat,
           Len(u) = n + Len(t), \A i \in 1..Len(t) : u[n + i] = t[i]
    PROVE  IsSuffix(t, u)
<1>1. Len(t) \in Nat /\ Len(u) \in Nat
  BY LenProperties
<1>2. \A i \in 1..Len(t) : Reverse(u)[i] = Reverse(t)[i]
  <2> SUFFICES ASSUME NEW i \in 1..Len(t)
               PROVE  Reverse(u)[i] = Reverse(t)[i]
    OBVIOUS
  <2>1. i \in 1..Len(u) /\ (Len(t) - i) + 1 \in 1..Len(t)
        /\ (Len(u) - i) + 1 = n + ((Len(t) - i) + 1)
    BY <1>1
  <2>2. u[(Len(u) - i) + 1] = t[(Len(t) - i) + 1]
    BY <2>1
  <2> QED BY <2>1, <2>2 DEF Reverse
<1>3. Len(Reverse(t)) = Len(t) /\ Len(Reverse(u)) = Len(u)
  BY <1>1 DEF Reverse
<1>4. SubSeq(Reverse(t), 1, Len(t)) = SubSeq(Reverse(u), 1, Len(t))
  BY <1>1, <1>2
<1>5. Len(t) <= Len(u)
  BY <1>1
<1> QED BY <1>3, <1>4, <1>5 DEF IsSuffix, IsPrefix

LEMMA SuffixOfConcat ==
    ASSUME NEW S, NEW p \in Seq(S), NEW t \in Seq(S)
    PROVE  IsSuffix(t, p \o t)
<1> DEFINE u == p \o t
<1>1. /\ u \in Seq(S) /\ Len(p) \in Nat /\ Len(t) \in Nat
      /\ Len(u) = Len(p) + Len(t)
      /\ \A i \in 1 .. Len(p) + Len(t) :
            u[i] = IF i <= Len(p) THEN p[i] ELSE t[i - Len(p)]
  BY ConcatProperties, LenProperties
<1> HIDE DEF u
<1>2. ASSUME NEW i \in 1..Len(t) PROVE u[Len(p) + i] = t[i]
  <2>1. /\ Len(p) + i \in 1 .. Len(p) + Len(t) /\ ~(Len(p) + i <= Len(p))
        /\ (Len(p) + i) - Len(p) = i
    BY <1>1
  <2> QED BY <1>1, <2>1
<1>3. IsSuffix(t, u)
  BY <1>1, <1>2, EndIsSuffix
<1> QED BY <1>3 DEF u

\* What is left of a text without the end it was made with.
LEMMA BeginningOfConcat ==
    ASSUME NEW S, NEW p \in Seq(S), NEW t \in Seq(S)
    PROVE  SubSeq(p \o t, 1, Len(p \o t) - Len(t)) = p
<1> DEFINE u == p \o t
<1>1. /\ u \in Seq(S) /\ Len(p) \in Nat /\ Len(t) \in Nat
      /\ Len(u) = Len(p) + Len(t)
      /\ \A i \in 1 .. Len(p) + Len(t) :
            u[i] = IF i <= Len(p) THEN p[i] ELSE t[i - Len(p)]
  BY ConcatProperties, LenProperties
<1> HIDE DEF u
<1>2. Len(u) - Len(t) = Len(p) /\ \A i \in 1..Len(p) : u[i] = p[i]
  BY <1>1
<1>3. SubSeq(u, 1, Len(p)) = [i \in 1..Len(p) |-> u[i]]
  BY <1>1
<1>4. p = [i \in 1..Len(p) |-> p[i]]
  BY LenProperties
<1>5. SubSeq(u, 1, Len(p)) = p
  BY <1>2, <1>3, <1>4
<1> QED BY <1>2, <1>5 DEF u

-----------------------------------------------------------------------------
(* Induction and recursion.                                                *)

LEMMA SetInduction ==
    ASSUME NEW P, 0 \in P, \A n \in Nat : n \in P => n + 1 \in P
    PROVE  \A n \in Nat : n \in P
<1> SUFFICES ASSUME NEW k \in Nat, k \notin P PROVE FALSE
  OBVIOUS
<1>1. PICK m \in Nat \ P : \A i \in Nat \ P : m <= i
  <2> DEFINE Q == Nat \ P
  <2>1. Q \subseteq Nat /\ Q # {}
    OBVIOUS
  <2> HIDE DEF Q
  <2>2. \E m \in Q : \A i \in Q : m <= i
    BY <2>1, LeastNatural
  <2> QED BY <2>2 DEF Q
<1>2. m # 0 /\ m - 1 \in Nat /\ m = (m - 1) + 1 /\ ~(m <= m - 1)
  BY <1>1
<1>3. m - 1 \in P
  BY <1>1, <1>2
<1> QED BY <1>1, <1>2, <1>3

\* A recursion over 0..n whose step stays in a set has a solution there.
Solves(f, n, base, step) ==
    f = [i \in 0..n |-> IF i = 0 THEN base ELSE step[<<f[i - 1], i>>]]

LEMMA RecursionExists ==
    ASSUME NEW A, NEW base \in A, NEW N \in Nat,
           NEW step \in [A \X (1..N) -> A]
    PROVE  \E f \in [0..N -> A] : Solves(f, N, base, step)
<1> DEFINE P == {n \in Nat : n <= N => \E f \in [0..n -> A] : Solves(f, n, base, step)}
<1>1. 0 \in P
  <2> DEFINE g == [i \in 0..0 |-> base]
  <2>1. g \in [0..0 -> A]
    OBVIOUS
  <2>2. Solves(g, 0, base, step)
    BY DEF Solves
  <2> QED BY <2>1, <2>2
<1>2. ASSUME NEW n \in Nat, n \in P PROVE n + 1 \in P
  <2> SUFFICES ASSUME n + 1 <= N
               PROVE  \E f \in [0..n + 1 -> A] : Solves(f, n + 1, base, step)
    OBVIOUS
  <2>1. PICK f \in [0..n -> A] : Solves(f, n, base, step)
    BY <1>2
  <2> DEFINE g == [i \in 0..n + 1 |->
                      IF i = n + 1 THEN step[<<f[n], n + 1>>] ELSE f[i]]
  <2>2. /\ n \in 0..n /\ n + 1 \in 1..N /\ n + 1 \notin 0..n
        /\ \A i \in 0..n + 1 : i # n + 1 => i \in 0..n /\ (i # 0 => i - 1 \in 0..n)
    OBVIOUS
  <2>3. step[<<f[n], n + 1>>] \in A
    BY <2>2
  <2>4. g \in [0..n + 1 -> A]
    BY <2>2, <2>3
  <2>5. ASSUME NEW i \in 0..n + 1
        PROVE  g[i] = IF i = 0 THEN base ELSE step[<<g[i - 1], i>>]
    <3>1. CASE i = n + 1
      <4>1. i - 1 = n /\ n \in 0..n + 1 /\ n # n + 1 /\ i # 0
        BY <3>1
      <4>2. g[i] = step[<<f[n], n + 1>>] /\ g[i - 1] = f[n]
        BY <3>1, <4>1
      <4> QED BY <3>1, <4>1, <4>2
    <3>2. CASE i = 0
      <4>1. f[0] = base
        BY <2>1, <2>2 DEF Solves
      <4>2. 0 \in 0..n + 1 /\ 0 # n + 1
        OBVIOUS
      <4> QED BY <3>2, <4>1, <4>2
    <3>3. CASE i # n + 1 /\ i # 0
      <4>1. i \in 0..n /\ i - 1 \in 0..n /\ i - 1 \in 0..n + 1 /\ i - 1 # n + 1
        BY <3>3, <2>2
      <4>2. g[i] = f[i] /\ g[i - 1] = f[i - 1]
        BY <3>3, <4>1
      <4>3. f[i] = step[<<f[i - 1], i>>]
        BY <2>1, <3>3, <4>1 DEF Solves
      <4> QED BY <3>3, <4>2, <4>3
    <3> QED BY <3>1, <3>2, <3>3
  <2> HIDE DEF g
  <2>6. Solves(g, n + 1, base, step)
    BY <2>4, <2>5 DEF Solves
  <2> QED BY <2>4, <2>6
<1> HIDE DEF P
<1>3. N \in P
  BY <1>1, <1>2, SetInduction
<1> QED BY <1>3 DEF P

-----------------------------------------------------------------------------
(* Split.                                                                  *)

\* What Split returns: at least one part, each a text.
PartsOver(S) == {p \in Seq(Seq(S)) : p # <<>>}

LEMMA AddCharacterParts ==
    ASSUME NEW S, NEW p \in PartsOver(S), NEW c \in S
    PROVE  AddCharacter(p, c) \in PartsOver(S)
<1>1. p \in Seq(Seq(S)) /\ Len(p) \in Nat /\ Len(p) \in 1..Len(p)
  BY LenProperties, EmptySeq DEF PartsOver
<1>2. CASE c = "/"
  <2>1. <<>> \in Seq(S)
    OBVIOUS
  <2>2. Append(p, <<>>) \in Seq(Seq(S)) /\ Append(p, <<>>) # <<>>
    BY <1>1, <2>1, AppendProperties
  <2> QED BY <1>2, <2>2 DEF AddCharacter, PartsOver
<1>3. CASE c # "/"
  <2>1. p[Len(p)] \in Seq(S)
    BY <1>1, ElementOfSeq
  <2>2. Append(p[Len(p)], c) \in Seq(S)
    BY <2>1, AppendProperties
  <2> DEFINE q == [p EXCEPT ![Len(p)] = Append(@, c)]
  <2>3. q \in Seq(Seq(S)) /\ Len(q) = Len(p)
    BY <1>1, <2>2, ExceptSeq
  <2>4. q # <<>>
    BY <1>1, <2>3
  <2> QED BY <1>3, <2>3, <2>4 DEF AddCharacter, PartsOver
<1> QED BY <1>2, <1>3

LEMMA PartsOfDefined ==
    ASSUME NEW S, NEW t \in Seq(S)
    PROVE  /\ PartsOf(t) \in [0..Len(t) -> PartsOver(S)]
           /\ PartsOf(t)[0] = << <<>> >>
           /\ \A i \in 1..Len(t) :
                 PartsOf(t)[i] = AddCharacter(PartsOf(t)[i - 1], t[i])
<1> DEFINE A == PartsOver(S)
           n == Len(t)
           step == [p \in A \X (1..n) |-> AddCharacter(p[1], t[p[2]])]
           Is(f) == f = [i \in 0..n |-> IF i = 0 THEN << <<>> >>
                                        ELSE AddCharacter(f[i - 1], t[i])]
<1>1. n \in Nat /\ \A i \in 1..n : t[i] \in S
  BY LenProperties, ElementOfSeq
<1>2. << <<>> >> \in A
  BY DEF PartsOver
<1>3. step \in [A \X (1..n) -> A]
  BY <1>1, AddCharacterParts
<1>4. \A a \in A, i \in 1..n : step[<<a, i>>] = AddCharacter(a, t[i])
  OBVIOUS
<1> HIDE DEF A, step
<1>5. PICK f \in [0..n -> A] : Solves(f, n, << <<>> >>, step)
  BY <1>1, <1>2, <1>3, RecursionExists
<1>6. Is(f)
  <2>1. \A i \in 0..n : i # 0 => i \in 1..n /\ i - 1 \in 0..n
    BY <1>1
  <2>2. \A i \in 0..n : i # 0 =>
           step[<<f[i - 1], i>>] = AddCharacter(f[i - 1], t[i])
    BY <1>4, <1>5, <2>1
  <2> QED BY <1>5, <2>2 DEF Solves
<1>7. PartsOf(t) = CHOOSE g : Is(g)
  BY Zenon DEF PartsOf
<1>8. Is(PartsOf(t))
  BY <1>6, <1>7, Zenon
<1> DEFINE g == PartsOf(t)
<1> HIDE DEF g
<1>9. /\ g[0] = << <<>> >>
      /\ \A i \in 1..n : g[i] = AddCharacter(g[i - 1], t[i])
      /\ DOMAIN g = 0..n
  <2>1. g = [i \in 0..n |-> IF i = 0 THEN << <<>> >>
                             ELSE AddCharacter(g[i - 1], t[i])]
    BY <1>8, Zenon DEF g
  <2>2. 0 \in 0..n /\ \A i \in 1..n : i \in 0..n /\ i # 0
    BY <1>1
  <2> QED BY <2>1, <2>2, Zenon
<1>10. \A i \in 0..n : g[i] \in A
  <2> DEFINE P == {i \in Nat : i <= n => g[i] \in A}
  <2>1. 0 \in P
    BY <1>2, <1>9
  <2>2. ASSUME NEW i \in Nat, i \in P PROVE i + 1 \in P
    <3> SUFFICES ASSUME i + 1 <= n PROVE g[i + 1] \in A
      OBVIOUS
    <3>1. i + 1 \in 1..n /\ (i + 1) - 1 = i /\ i <= n
      BY <1>1
    <3>2. g[i + 1] = AddCharacter(g[i], t[i + 1])
      BY <1>9, <3>1
    <3> QED BY <1>1, <2>2, <3>1, <3>2, AddCharacterParts DEF A
  <2> HIDE DEF P
  <2>3. \A i \in Nat : i \in P
    BY <2>1, <2>2, SetInduction
  <2> QED BY <1>1, <2>3 DEF P
<1>11. g \in [0..n -> A]
  BY <1>8, <1>10, <1>9 DEF g
<1> QED BY <1>9, <1>11 DEF g, A

LEMMA SplitType ==
    ASSUME NEW S, NEW t \in Seq(S)
    PROVE  Split(t) \in PartsOver(S)
<1>1. Len(t) \in Nat /\ Len(t) \in 0..Len(t)
  BY LenProperties
<1> QED BY <1>1, PartsOfDefined DEF Split

\* The recursion that Split is, over texts.
LEMMA SplitEmpty == Split(<<>>) = << <<>> >>
<1>1. <<>> \in Seq({}) /\ Len(<<>>) = 0
  OBVIOUS
<1>2. PartsOf(<<>>)[0] = << <<>> >>
  BY <1>1, PartsOfDefined
<1> QED BY <1>1, <1>2 DEF Split

LEMMA SplitAppend ==
    ASSUME NEW S, NEW t \in Seq(S), NEW c \in S
    PROVE  Split(Append(t, c)) = AddCharacter(Split(t), c)
<1> DEFINE u == Append(t, c)
           n == Len(t)
<1>1. /\ u \in Seq(S) /\ n \in Nat /\ Len(u) = n + 1 /\ u[n + 1] = c
      /\ \A i \in 1..n : u[i] = t[i]
  BY AppendProperties, LenProperties
<1> HIDE DEF u
<1> DEFINE f == PartsOf(t)
           g == PartsOf(u)
           P == {i \in Nat : i <= n => g[i] = f[i]}
<1>2. /\ f[0] = g[0]
      /\ \A i \in 1..n : f[i] = AddCharacter(f[i - 1], t[i])
  BY <1>1, PartsOfDefined
<1>3. \A i \in 1..n + 1 : g[i] = AddCharacter(g[i - 1], u[i])
  BY <1>1, PartsOfDefined
<1> HIDE DEF f, g
<1>4. 0 \in P
  BY <1>2
<1>5. ASSUME NEW i \in Nat, i \in P PROVE i + 1 \in P
  <2> SUFFICES ASSUME i + 1 <= n PROVE g[i + 1] = f[i + 1]
    OBVIOUS
  <2>1. i + 1 \in 1..n /\ i + 1 \in 1..n + 1 /\ (i + 1) - 1 = i /\ i <= n
    BY <1>1
  <2>2. g[i] = f[i] /\ u[i + 1] = t[i + 1]
    BY <1>1, <1>5, <2>1
  <2>3. g[i + 1] = AddCharacter(g[i], u[i + 1])
    BY <1>3, <2>1
  <2>4. f[i + 1] = AddCharacter(f[i], t[i + 1])
    BY <1>2, <2>1
  <2> QED BY <2>2, <2>3, <2>4
<1> HIDE DEF P
<1>6. n \in P
  BY <1>1, <1>4, <1>5, SetInduction
<1>7. g[n] = f[n]
  BY <1>1, <1>6 DEF P
<1>8. n + 1 \in 1..n + 1 /\ (n + 1) - 1 = n
  BY <1>1
<1>9. g[n + 1] = AddCharacter(g[n], c)
  BY <1>1, <1>3, <1>8
<1> QED BY <1>1, <1>7, <1>9 DEF Split, f, g, u

\* A text that is not empty is a shorter one and its last character.
LEMMA LastCharacter ==
    ASSUME NEW S, NEW t \in Seq(S), NEW n \in Nat, Len(t) = n + 1
    PROVE  \E u \in Seq(S), c \in S : t = Append(u, c) /\ Len(u) = n
<1>1. t # <<>>
  OBVIOUS
<1>2. PICK u \in Seq(S), c \in S : t = Append(u, c)
  BY <1>1, SequenceEmptyOrAppend
<1>3. Len(u) \in Nat /\ Len(t) = Len(u) + 1
  BY <1>2, AppendProperties, LenProperties
<1> QED BY <1>2, <1>3

\* To replace the element just appended is to append the other.
LEMMA LastReplaced ==
    ASSUME NEW T, NEW q \in Seq(T), NEW a \in T, NEW b \in T
    PROVE  [Append(q, a) EXCEPT ![Len(q) + 1] = b] = Append(q, b)
<1> DEFINE s == Append(q, a)
           r == Append(q, b)
           e == [s EXCEPT ![Len(q) + 1] = b]
<1>1. /\ Len(q) \in Nat
      /\ s \in Seq(T) /\ Len(s) = Len(q) + 1 /\ \A i \in 1..Len(q) : s[i] = q[i]
      /\ r \in Seq(T) /\ Len(r) = Len(q) + 1 /\ \A i \in 1..Len(q) : r[i] = q[i]
      /\ r[Len(q) + 1] = b
  BY AppendProperties, LenProperties
<1> HIDE DEF s, r
<1>2. Len(q) + 1 \in 1..Len(s)
  BY <1>1
<1>3. e \in Seq(T) /\ Len(e) = Len(s)
      /\ \A i \in 1..Len(s) : e[i] = IF i = Len(q) + 1 THEN b ELSE s[i]
  BY <1>1, <1>2, ExceptSeq
<1> HIDE DEF e
<1>4. \A i \in 1..Len(e) : e[i] = r[i]
  BY <1>1, <1>3
<1>5. Len(e) = Len(r)
  BY <1>1, <1>3
<1>6. e = r
  BY <1>1, <1>3, <1>4, <1>5, SeqEqual
<1> QED BY <1>6 DEF e, s, r

\* A character other than a slash goes to the last part.
LEMMA CharacterGoesLast ==
    ASSUME NEW S, NEW q \in Seq(Seq(S)), NEW u \in Seq(S), NEW c \in S, c # "/"
    PROVE  AddCharacter(Append(q, u), c) = Append(q, Append(u, c))
<1>1. Len(Append(q, u)) = Len(q) + 1 /\ Append(q, u)[Len(q) + 1] = u
  BY AppendProperties
<1>2. Append(u, c) \in Seq(S)
  BY AppendProperties
<1>3. \A v \in Seq(S) : [Append(q, u) EXCEPT ![Len(q) + 1] = v] = Append(q, v)
  BY LastReplaced
<1>4. [Append(q, u) EXCEPT ![Len(q) + 1] = Append(u, c)] = Append(q, Append(u, c))
  BY <1>2, <1>3
<1> QED BY <1>1, <1>4 DEF AddCharacter

Slashless(t) == \A i \in 1..Len(t) : t[i] # "/"

\* A text has no slash if its last character and what precedes it have none.
LEMMA SlashlessAppend ==
    ASSUME NEW S, NEW u \in Seq(S), NEW c \in S
    PROVE  Slashless(Append(u, c)) <=> Slashless(u) /\ c # "/"
<1> DEFINE y == Append(u, c)
<1>1. /\ Len(u) \in Nat /\ Len(y) = Len(u) + 1 /\ y[Len(u) + 1] = c
      /\ \A i \in 1..Len(u) : y[i] = u[i]
  BY AppendProperties, LenProperties
<1> HIDE DEF y
<1>2. Slashless(y) => Slashless(u) /\ c # "/"
  <2>1. Len(u) + 1 \in 1..Len(y) /\ \A i \in 1..Len(u) : i \in 1..Len(y)
    BY <1>1
  <2> QED BY <1>1, <2>1 DEF Slashless
<1>3. Slashless(u) /\ c # "/" => Slashless(y)
  <2>1. \A i \in 1..Len(y) : i \in 1..Len(u) \/ i = Len(u) + 1
    BY <1>1
  <2> QED BY <1>1, <2>1 DEF Slashless
<1> QED BY <1>2, <1>3 DEF y

\* A slash begins a part, which a text without slashes makes up.
LEMMA SplitSlash ==
    ASSUME NEW S, "/" \in S, NEW t \in Seq(S), NEW x \in Seq(S), Slashless(x)
    PROVE  Split(t \o <<"/">> \o x) = Append(Split(t), x)
<1> DEFINE P == {n \in Nat : \A y \in Seq(S) : Len(y) = n /\ Slashless(y) =>
                    Split(t \o <<"/">> \o y) = Append(Split(t), y)}
           h == t \o <<"/">>
<1>1. /\ h \in Seq(S) /\ h = Append(t, "/")
      /\ Split(h) = Append(Split(t), <<>>)
  <2>1. h = Append(t, "/") /\ h \in Seq(S)
    BY AppendProperties, AppendIsConcat
  <2> QED BY <2>1, SplitAppend DEF AddCharacter
<1>2. 0 \in P
  <2> SUFFICES ASSUME NEW y \in Seq(S), Len(y) = 0
               PROVE  Split(h \o y) = Append(Split(t), y)
    OBVIOUS
  <2>1. y = <<>>
    BY EmptySeq
  <2>2. h \o y = h
    BY <1>1, <2>1, ConcatEmptySeq
  <2> QED BY <1>1, <2>1, <2>2
<1>3. ASSUME NEW n \in Nat, n \in P PROVE n + 1 \in P
  <2> SUFFICES ASSUME NEW y \in Seq(S), Len(y) = n + 1, Slashless(y)
               PROVE  Split(h \o y) = Append(Split(t), y)
    OBVIOUS
  <2>1. PICK u \in Seq(S), c \in S : y = Append(u, c) /\ Len(u) = n
    BY LastCharacter
  <2>2. c # "/" /\ Slashless(u)
    BY <2>1, SlashlessAppend
  <2>3. Split(h \o u) = Append(Split(t), u)
    BY <1>3, <2>1, <2>2
  <2>4. h \o y = Append(h \o u, c) /\ h \o u \in Seq(S)
    <3>1. y = u \o <<c>> /\ <<c>> \in Seq(S)
      BY <2>1, AppendIsConcat
    <3>2. h \o (u \o <<c>>) = (h \o u) \o <<c>>
      BY <1>1, <3>1, ConcatAssociative
    <3>3. h \o u \in Seq(S)
      BY <1>1, ConcatProperties
    <3> QED BY <3>1, <3>2, <3>3, AppendIsConcat
  <2>5. Split(h \o y) = AddCharacter(Append(Split(t), u), c)
    BY <2>3, <2>4, SplitAppend
  <2>6. Split(t) \in Seq(Seq(S))
    BY SplitType DEF PartsOver
  <2>7. AddCharacter(Append(Split(t), u), c) = Append(Split(t), Append(u, c))
    BY <2>2, <2>6, CharacterGoesLast
  <2> QED BY <2>1, <2>5, <2>7
<1> HIDE DEF P, h
<1>4. Len(x) \in P
  BY <1>2, <1>3, SetInduction, LenProperties
<1> QED BY <1>4 DEF P

\* A text without slashes is its only part.
LEMMA SplitSlashless ==
    ASSUME NEW S, NEW x \in Seq(S), Slashless(x)
    PROVE  Split(x) = <<x>>
<1> DEFINE P == {n \in Nat : \A y \in Seq(S) :
                    Len(y) = n /\ Slashless(y) => Split(y) = <<y>>}
<1>1. 0 \in P
  BY SplitEmpty, EmptySeq
<1>2. ASSUME NEW n \in Nat, n \in P PROVE n + 1 \in P
  <2> SUFFICES ASSUME NEW y \in Seq(S), Len(y) = n + 1, Slashless(y)
               PROVE  Split(y) = <<y>>
    OBVIOUS
  <2>1. PICK u \in Seq(S), c \in S : y = Append(u, c) /\ Len(u) = n
    BY LastCharacter
  <2>2. c # "/" /\ Slashless(u)
    BY <2>1, SlashlessAppend
  <2>3. Split(y) = AddCharacter(<<u>>, c)
    BY <1>2, <2>1, <2>2, SplitAppend
  <2>4. <<u>> = Append(<<>>, u) /\ <<y>> = Append(<<>>, y) /\ <<>> \in Seq(Seq(S))
    OBVIOUS
  <2>5. \A q \in Seq(Seq(S)) :
           AddCharacter(Append(q, u), c) = Append(q, Append(u, c))
    BY <2>2, CharacterGoesLast
  <2>6. AddCharacter(Append(<<>>, u), c) = Append(<<>>, Append(u, c))
    BY <2>4, <2>5
  <2> QED BY <2>1, <2>3, <2>4, <2>6
<1> HIDE DEF P
<1>3. Len(x) \in P
  BY <1>1, <1>2, SetInduction, LenProperties
<1> QED BY <1>3 DEF P

\* No part holds a slash.
LEMMA PartsSlashless ==
    ASSUME NEW S, NEW x \in Seq(S)
    PROVE  \A k \in 1..Len(Split(x)) : Slashless(Split(x)[k])
<1> DEFINE Whole(p) == \A k \in 1..Len(p) : Slashless(p[k])
           P == {n \in Nat : \A y \in Seq(S) : Len(y) = n => Whole(Split(y))}
<1>1. 0 \in P
  <2>1. Whole(<< <<>> >>)
    BY DEF Slashless
  <2> QED BY <2>1, SplitEmpty, EmptySeq
<1>2. ASSUME NEW n \in Nat, n \in P PROVE n + 1 \in P
  <2> SUFFICES ASSUME NEW y \in Seq(S), Len(y) = n + 1
               PROVE  Whole(Split(y))
    OBVIOUS
  <2>1. PICK u \in Seq(S), c \in S : y = Append(u, c) /\ Len(u) = n
    BY LastCharacter
  <2> DEFINE p == Split(u)
  <2>2. /\ p \in Seq(Seq(S)) /\ p # <<>> /\ Whole(p)
        /\ Split(y) = AddCharacter(p, c)
    BY <1>2, <2>1, SplitType, SplitAppend DEF PartsOver
  <2> HIDE DEF p
  <2>3. Len(p) \in Nat /\ Len(p) \in 1..Len(p)
    BY <2>2, LenProperties, EmptySeq
  <2>4. CASE c = "/"
    <3>1. <<>> \in Seq(S) /\ Slashless(<<>>)
      BY DEF Slashless
    <3>2. /\ Len(Append(p, <<>>)) = Len(p) + 1
          /\ Append(p, <<>>)[Len(p) + 1] = <<>>
          /\ \A k \in 1..Len(p) : Append(p, <<>>)[k] = p[k]
      BY <2>2, <3>1, AppendProperties
    <3>3. \A k \in 1..Len(p) + 1 : k \in 1..Len(p) \/ k = Len(p) + 1
      BY <2>3
    <3>4. Whole(Append(p, <<>>))
      BY <2>2, <3>1, <3>2, <3>3
    <3> QED BY <2>2, <2>4, <3>4 DEF AddCharacter
  <2>5. CASE c # "/"
    <3> DEFINE l == p[Len(p)]
    <3>1. l \in Seq(S) /\ Slashless(l)
      BY <2>2, <2>3, ElementOfSeq
    <3>2. Append(l, c) \in Seq(S) /\ Slashless(Append(l, c))
      BY <2>5, <3>1, SlashlessAppend, AppendProperties
    <3> HIDE DEF l
    <3> DEFINE q == [p EXCEPT ![Len(p)] = Append(l, c)]
    <3>3. /\ Len(q) = Len(p)
          /\ \A k \in 1..Len(p) : q[k] = IF k = Len(p) THEN Append(l, c) ELSE p[k]
      BY <2>2, <2>3, <3>2, ExceptSeq
    <3> HIDE DEF q
    <3>4. Whole(q)
      BY <2>2, <3>2, <3>3
    <3> QED BY <2>2, <2>5, <3>4 DEF AddCharacter, q, l
  <2> QED BY <2>4, <2>5
<1> HIDE DEF P
<1>3. Len(x) \in P
  BY <1>1, <1>2, SetInduction, LenProperties
<1> QED BY <1>3 DEF P

-----------------------------------------------------------------------------
(* Join.                                                                   *)

LEMMA AddPartType ==
    ASSUME NEW S, "/" \in S, NEW t \in Seq(S), NEW x \in Seq(S)
    PROVE  AddPart(t, x) \in Seq(S)
<1>1. <<"/">> \in Seq(S)
  OBVIOUS
<1>2. t \o <<"/">> \in Seq(S)
  BY <1>1, ConcatProperties
<1>3. t \o <<"/">> \o x \in Seq(S)
  BY <1>2, ConcatProperties
<1> QED BY <1>3 DEF AddPart

LEMMA JoinedFromDefined ==
    ASSUME NEW S, "/" \in S, NEW ps \in Seq(Seq(S))
    PROVE  /\ JoinedFrom(ps) \in [0..Len(ps) -> Seq(S)]
           /\ JoinedFrom(ps)[0] = <<>>
           /\ \A i \in 1..Len(ps) :
                 JoinedFrom(ps)[i] = AddPart(JoinedFrom(ps)[i - 1], ps[i])
<1> DEFINE A == Seq(S)
           n == Len(ps)
           step == [a \in A \X (1..n) |-> AddPart(a[1], ps[a[2]])]
           Is(f) == f = [i \in 0..n |-> IF i = 0 THEN <<>>
                                        ELSE AddPart(f[i - 1], ps[i])]
<1>1. n \in Nat /\ \A i \in 1..n : ps[i] \in A
  BY LenProperties, ElementOfSeq
<1>2. <<>> \in A
  OBVIOUS
<1>3. step \in [A \X (1..n) -> A]
  BY <1>1, AddPartType
<1>4. \A a \in A, i \in 1..n : step[<<a, i>>] = AddPart(a, ps[i])
  OBVIOUS
<1> HIDE DEF A, step
<1>5. PICK f \in [0..n -> A] : Solves(f, n, <<>>, step)
  BY <1>1, <1>2, <1>3, RecursionExists
<1>6. Is(f)
  <2>1. \A i \in 0..n : i # 0 => i \in 1..n /\ i - 1 \in 0..n
    BY <1>1
  <2>2. \A i \in 0..n : i # 0 =>
           step[<<f[i - 1], i>>] = AddPart(f[i - 1], ps[i])
    BY <1>4, <1>5, <2>1
  <2> QED BY <1>5, <2>2 DEF Solves
<1>7. JoinedFrom(ps) = CHOOSE g : Is(g)
  BY Zenon DEF JoinedFrom
<1>8. Is(JoinedFrom(ps))
  BY <1>6, <1>7, Zenon
<1> DEFINE g == JoinedFrom(ps)
<1> HIDE DEF g
<1>9. /\ g[0] = <<>>
      /\ \A i \in 1..n : g[i] = AddPart(g[i - 1], ps[i])
      /\ DOMAIN g = 0..n
  <2>1. g = [i \in 0..n |-> IF i = 0 THEN <<>> ELSE AddPart(g[i - 1], ps[i])]
    BY <1>8, Zenon DEF g
  <2>2. 0 \in 0..n /\ \A i \in 1..n : i \in 0..n /\ i # 0
    BY <1>1
  <2> QED BY <2>1, <2>2, Zenon
<1>10. \A i \in 0..n : g[i] \in A
  <2> DEFINE P == {i \in Nat : i <= n => g[i] \in A}
  <2>1. 0 \in P
    BY <1>2, <1>9
  <2>2. ASSUME NEW i \in Nat, i \in P PROVE i + 1 \in P
    <3> SUFFICES ASSUME i + 1 <= n PROVE g[i + 1] \in A
      OBVIOUS
    <3>1. i + 1 \in 1..n /\ (i + 1) - 1 = i /\ i <= n
      BY <1>1
    <3>2. g[i + 1] = AddPart(g[i], ps[i + 1])
      BY <1>9, <3>1
    <3> QED BY <1>1, <2>2, <3>1, <3>2, AddPartType DEF A
  <2> HIDE DEF P
  <2>3. \A i \in Nat : i \in P
    BY <2>1, <2>2, SetInduction
  <2> QED BY <1>1, <2>3 DEF P
<1>11. g \in [0..n -> A]
  BY <1>8, <1>10, <1>9 DEF g
<1> QED BY <1>9, <1>11 DEF g, A

LEMMA JoinType ==
    ASSUME NEW S, "/" \in S, NEW ps \in Seq(Seq(S))
    PROVE  Join(ps) \in Seq(S)
<1>1. Len(ps) \in Nat /\ Len(ps) \in 0..Len(ps)
  BY LenProperties
<1> QED BY <1>1, JoinedFromDefined DEF Join

\* The recursion that Join is, over lists of parts.
LEMMA JoinEmpty == Join(<<>>) = <<>>
<1>1. <<>> \in Seq(Seq({"/"})) /\ Len(<<>>) = 0
  OBVIOUS
<1>2. JoinedFrom(<<>>)[0] = <<>>
  BY <1>1, JoinedFromDefined
<1> QED BY <1>1, <1>2 DEF Join

LEMMA JoinAppend ==
    ASSUME NEW S, "/" \in S, NEW ps \in Seq(Seq(S)), NEW x \in Seq(S)
    PROVE  Join(Append(ps, x)) = AddPart(Join(ps), x)
<1> DEFINE qs == Append(ps, x)
           n == Len(ps)
<1>1. /\ qs \in Seq(Seq(S)) /\ n \in Nat /\ Len(qs) = n + 1 /\ qs[n + 1] = x
      /\ \A i \in 1..n : qs[i] = ps[i]
  BY AppendProperties, LenProperties
<1> HIDE DEF qs
<1> DEFINE f == JoinedFrom(ps)
           g == JoinedFrom(qs)
           P == {i \in Nat : i <= n => g[i] = f[i]}
<1>2. /\ f[0] = g[0]
      /\ \A i \in 1..n : f[i] = AddPart(f[i - 1], ps[i])
  BY <1>1, JoinedFromDefined
<1>3. \A i \in 1..n + 1 : g[i] = AddPart(g[i - 1], qs[i])
  BY <1>1, JoinedFromDefined
<1> HIDE DEF f, g
<1>4. 0 \in P
  BY <1>2
<1>5. ASSUME NEW i \in Nat, i \in P PROVE i + 1 \in P
  <2> SUFFICES ASSUME i + 1 <= n PROVE g[i + 1] = f[i + 1]
    OBVIOUS
  <2>1. i + 1 \in 1..n /\ i + 1 \in 1..n + 1 /\ (i + 1) - 1 = i /\ i <= n
    BY <1>1
  <2>2. g[i] = f[i] /\ qs[i + 1] = ps[i + 1]
    BY <1>1, <1>5, <2>1
  <2>3. g[i + 1] = AddPart(g[i], qs[i + 1])
    BY <1>3, <2>1
  <2>4. f[i + 1] = AddPart(f[i], ps[i + 1])
    BY <1>2, <2>1
  <2> QED BY <2>2, <2>3, <2>4
<1> HIDE DEF P
<1>6. n \in P
  BY <1>1, <1>4, <1>5, SetInduction
<1>7. g[n] = f[n]
  BY <1>1, <1>6 DEF P
<1>8. n + 1 \in 1..n + 1 /\ (n + 1) - 1 = n
  BY <1>1
<1>9. g[n + 1] = AddPart(g[n], x)
  BY <1>1, <1>3, <1>8
<1> QED BY <1>1, <1>7, <1>9 DEF Join, f, g, qs

-----------------------------------------------------------------------------
(* What the segments of a key are made of.                                 *)

LEMMA SlashlessCharacters ==
    ASSUME NEW S, NEW t \in Seq(S)
    PROVE  Slashless(t) <=> t \in Seq(S \ {"/"})
<1>1. Len(t) \in Nat /\ DOMAIN t = 1..Len(t) /\ \A i \in 1..Len(t) : t[i] \in S
  BY LenProperties, ElementOfSeq
<1>2. ASSUME Slashless(t) PROVE t \in Seq(S \ {"/"})
  <2>1. \A i \in 1..Len(t) : t[i] \in S \ {"/"}
    BY <1>1, <1>2 DEF Slashless
  <2> QED BY <1>1, <2>1
<1>3. ASSUME t \in Seq(S \ {"/"}) PROVE Slashless(t)
  <2>1. \A i \in 1..Len(t) : t[i] \in S \ {"/"}
    BY <1>3, ElementOfSeq
  <2> QED BY <2>1 DEF Slashless
<1> QED BY <1>2, <1>3

LEMMA TrimSpaceSlashless ==
    ASSUME NEW S, NEW t \in Seq(S), Slashless(t)
    PROVE  Slashless(TrimSpace(t))
<1>1. t \in Seq(S \ {"/"})
  BY SlashlessCharacters
<1>2. TrimSpace(t) \in Seq(S \ {"/"}) /\ TrimSpace(t) \in Seq(S)
  BY <1>1, TrimSpaceTrims
<1> QED BY <1>2, SlashlessCharacters

\* Two dots in a row stay so in every text that holds the text.
LEMMA ConcatDots ==
    ASSUME NEW S, NEW a \in Seq(S), NEW b \in Seq(S), HasDots(a) \/ HasDots(b)
    PROVE  HasDots(a \o b)
<1> DEFINE u == a \o b
<1>1. /\ Len(a) \in Nat /\ Len(b) \in Nat /\ Len(u) = Len(a) + Len(b)
      /\ \A i \in 1 .. Len(a) + Len(b) :
            u[i] = IF i <= Len(a) THEN a[i] ELSE b[i - Len(a)]
  BY ConcatProperties, LenProperties
<1> HIDE DEF u
<1>2. CASE HasDots(a)
  <2>1. PICK i \in 1..Len(a) - 1 : a[i] = "." /\ a[i + 1] = "."
    BY <1>2 DEF HasDots
  <2>2. /\ i \in 1..Len(u) - 1 /\ i + 1 \in 1 .. Len(a) + Len(b) /\ i + 1 <= Len(a)
        /\ i \in 1 .. Len(a) + Len(b) /\ i <= Len(a)
    BY <1>1
  <2>3. u[i] = "." /\ u[i + 1] = "."
    BY <1>1, <2>1, <2>2
  <2> QED BY <2>2, <2>3 DEF HasDots, u
<1>3. CASE HasDots(b)
  <2>1. PICK i \in 1..Len(b) - 1 : b[i] = "." /\ b[i + 1] = "."
    BY <1>3 DEF HasDots
  <2> DEFINE j == Len(a) + i
  <2>2. /\ j \in 1..Len(u) - 1 /\ j + 1 \in 1 .. Len(a) + Len(b)
        /\ j \in 1 .. Len(a) + Len(b) /\ ~(j <= Len(a)) /\ ~(j + 1 <= Len(a))
        /\ j - Len(a) = i /\ (j + 1) - Len(a) = i + 1
    BY <1>1
  <2> HIDE DEF j
  <2>3. u[j] = "." /\ u[j + 1] = "."
    BY <1>1, <2>1, <2>2
  <2> QED BY <2>2, <2>3 DEF HasDots, u
<1> QED BY <1>2, <1>3

\* Upper case neither adds nor removes spaces, slashes and dots.
LEMMA ToUpperProperties ==
    ASSUME NEW S, "A" \in S, NEW t \in Seq(S)
    PROVE  /\ ToUpper(t) \in Seq(S)
           /\ t # <<>> => ToUpper(t) # <<>>
           /\ Trimmed(t) => Trimmed(ToUpper(t))
           /\ Slashless(t) => Slashless(ToUpper(t))
           /\ HasDots(ToUpper(t)) => HasDots(t)
<1> DEFINE u == ToUpper(t)
<1>1. /\ Len(t) \in Nat /\ DOMAIN t = 1..Len(t)
      /\ \A i \in 1..Len(t) : t[i] \in S
  BY LenProperties, ElementOfSeq
<1>2. u = [i \in 1..Len(t) |-> IF t[i] = "a" THEN "A" ELSE t[i]]
  BY <1>1 DEF ToUpper
<1>3. u \in Seq(S) /\ Len(u) = Len(t)
      /\ \A i \in 1..Len(t) : u[i] = IF t[i] = "a" THEN "A" ELSE t[i]
  BY <1>1, <1>2
<1> HIDE DEF u
<1>4. \A i \in 1..Len(t) : /\ u[i] = " " <=> t[i] = " "
                           /\ u[i] = "/" <=> t[i] = "/"
                           /\ u[i] = "." <=> t[i] = "."
  BY <1>3
<1>5. t # <<>> => u # <<>> /\ 1 \in 1..Len(t) /\ Len(t) \in 1..Len(t)
  BY <1>1, <1>3
<1>6. u # <<>> => t # <<>>
  BY <1>3
<1>7. Trimmed(t) => Trimmed(u)
  BY <1>3, <1>4, <1>5, <1>6 DEF Trimmed
<1>8. Slashless(t) => Slashless(u)
  BY <1>3, <1>4 DEF Slashless
<1>9. HasDots(u) => HasDots(t)
  <2>1. \A i \in 1..Len(t) - 1 : i \in 1..Len(t) /\ i + 1 \in 1..Len(t)
    BY <1>1
  <2> QED BY <1>3, <1>4, <2>1 DEF HasDots
<1> QED BY <1>3, <1>5, <1>7, <1>8, <1>9 DEF u

-----------------------------------------------------------------------------
(* Prefixes.                                                               *)

\* A text that normalizePrefix leaves alone: single slashes between segments
\* that are neither empty nor padded, and none that climbs if the text does not.
Normal(t) ==
    /\ Trimmed(t) /\ Join(Split(t)) = t
    /\ \A k \in 1..Len(Split(t)) :
          /\ Trimmed(Split(t)[k])
          /\ HasDots(Split(t)[k]) => HasDots(t)
          /\ t # <<>> => Split(t)[k] # <<>>

LEMMA NormalEmpty == Normal(<<>>)
<1> DEFINE S == {"/"}
<1>1. /\ <<>> \in Seq(S) /\ "/" \in S /\ <<>> \in Seq(Seq(S))
      /\ Append(<<>>, <<>>) = << <<>> >>
  OBVIOUS
<1> HIDE DEF S
<1>2. \A ps \in Seq(Seq(S)), x \in Seq(S) : Join(Append(ps, x)) = AddPart(Join(ps), x)
  BY <1>1, JoinAppend
<1>3. Join(Append(<<>>, <<>>)) = AddPart(Join(<<>>), <<>>)
  BY <1>1, <1>2
<1>4. Join(<< <<>> >>) = <<>>
  BY <1>1, <1>3, JoinEmpty DEF AddPart
<1>5. Trimmed(<<>>)
  BY DEF Trimmed
<1> QED BY <1>4, <1>5, SplitEmpty DEF Normal

\* Another trimmed segment leaves it normal.
LEMMA NormalAddPart ==
    ASSUME NEW S, "/" \in S, NEW t \in Seq(S), Normal(t),
           NEW x \in Seq(S), Slashless(x), Trimmed(x)
    PROVE  Normal(AddPart(t, x))
<1>1. CASE x = <<>>
  BY <1>1 DEF AddPart
<1>2. CASE x # <<>> /\ t = <<>>
  <2>1. AddPart(t, x) = x
    BY <1>2 DEF AddPart
  <2>2. Split(x) = <<x>>
    BY SplitSlashless
  <2>3. Join(<<x>>) = x
    <3>1. <<>> \in Seq(Seq(S)) /\ Append(<<>>, x) = <<x>>
      OBVIOUS
    <3>2. \A ps \in Seq(Seq(S)) : Join(Append(ps, x)) = AddPart(Join(ps), x)
      BY JoinAppend
    <3>3. Join(Append(<<>>, x)) = AddPart(Join(<<>>), x)
      BY <3>1, <3>2
    <3> QED BY <3>1, <3>3, JoinEmpty DEF AddPart
  <2>4. \A k \in 1..Len(<<x>>) : <<x>>[k] = x
    OBVIOUS
  <2> QED BY <1>2, <2>1, <2>2, <2>3, <2>4 DEF Normal
<1>3. CASE x # <<>> /\ t # <<>>
  <2> DEFINE h == t \o <<"/">>
             u == h \o x
             p == Split(t)
             q == Split(u)
  <2>1. AddPart(t, x) = u
    BY <1>3 DEF AddPart
  <2>2. q = Append(p, x)
    BY SplitSlash
  <2>3. p \in Seq(Seq(S))
    BY SplitType DEF PartsOver
  <2>4. Join(q) = u
    BY <2>1, <2>2, <2>3, JoinAppend DEF Normal
  <2> HIDE DEF p, q
  <2>5. Len(q) = Len(p) + 1 /\ Len(p) \in Nat /\ q[Len(p) + 1] = x
        /\ \A k \in 1..Len(p) : q[k] = p[k]
    BY <2>2, <2>3, AppendProperties, LenProperties
  <2>6. h \in Seq(S) /\ <<"/">> \in Seq(S)
    <3>1. <<"/">> \in Seq(S)
      OBVIOUS
    <3> QED BY <3>1, ConcatProperties
  <2>7. HasDots(t) \/ HasDots(x) => HasDots(u)
    BY <2>6, ConcatDots
  <2>8. u # <<>> /\ Trimmed(u)
    <3>1. /\ Len(t) \in Nat /\ Len(x) \in Nat /\ Len(t) >= 1 /\ Len(x) >= 1
          /\ Len(<<"/">>) = 1
      BY <1>3, LenProperties, EmptySeq
    <3>2. Len(h) = Len(t) + 1 /\ \A i \in 1..Len(t) : h[i] = t[i]
      <4>1. /\ Len(h) = Len(t) + Len(<<"/">>)
            /\ \A i \in 1 .. Len(t) + Len(<<"/">>) :
                  h[i] = IF i <= Len(t) THEN t[i] ELSE <<"/">>[i - Len(t)]
        BY <2>6, ConcatProperties
      <4> QED BY <3>1, <4>1
    <3> HIDE DEF h
    <3>3. Len(u) = Len(h) + Len(x)
          /\ \A i \in 1 .. Len(h) + Len(x) :
                u[i] = IF i <= Len(h) THEN h[i] ELSE x[i - Len(h)]
      BY <2>6, ConcatProperties
    <3> HIDE DEF u
    <3>4. u[1] = h[1] /\ h[1] = t[1] /\ u[Len(u)] = x[Len(x)] /\ Len(u) # 0
      BY <3>1, <3>2, <3>3
    <3>5. t[1] # " " /\ x[Len(x)] # " "
      BY <1>3 DEF Trimmed, Normal
    <3>6. u # <<>>
      BY <3>4
    <3> QED BY <3>4, <3>5, <3>6 DEF Trimmed
  <2>9. \A k \in 1..Len(q) : k \in 1..Len(p) \/ k = Len(p) + 1
    BY <2>5
  <2> HIDE DEF u
  <2>10. ASSUME NEW k \in 1..Len(q)
         PROVE  Trimmed(q[k]) /\ (HasDots(q[k]) => HasDots(u)) /\ q[k] # <<>>
    BY <1>3, <2>5, <2>7, <2>9 DEF Normal, p
  <2> QED BY <2>1, <2>4, <2>8, <2>10 DEF Normal, q
<1> QED BY <1>1, <1>2, <1>3

\* Trimmed segments make a normal prefix, even if some are empty.
LEMMA JoinNormal ==
    ASSUME NEW S, "/" \in S, NEW ps \in Seq(Seq(S)),
           \A k \in 1..Len(ps) : Slashless(ps[k]) /\ Trimmed(ps[k])
    PROVE  Normal(Join(ps))
<1> DEFINE Segments(qs) == \A k \in 1..Len(qs) : Slashless(qs[k]) /\ Trimmed(qs[k])
           P == {n \in Nat : \A qs \in Seq(Seq(S)) :
                    Len(qs) = n /\ Segments(qs) => Normal(Join(qs))}
<1>1. 0 \in P
  BY JoinEmpty, NormalEmpty, EmptySeq
<1>2. ASSUME NEW n \in Nat, n \in P PROVE n + 1 \in P
  <2> SUFFICES ASSUME NEW qs \in Seq(Seq(S)), Len(qs) = n + 1, Segments(qs)
               PROVE  Normal(Join(qs))
    OBVIOUS
  <2>1. PICK rs \in Seq(Seq(S)), x \in Seq(S) : qs = Append(rs, x) /\ Len(rs) = n
    BY LastCharacter
  <2>2. /\ n + 1 \in 1..Len(qs) /\ qs[n + 1] = x
        /\ \A k \in 1..Len(rs) : k \in 1..Len(qs) /\ qs[k] = rs[k]
    BY <2>1, AppendProperties
  <2>3. Slashless(x) /\ Trimmed(x) /\ Segments(rs)
    BY <2>2
  <2>4. Normal(Join(rs)) /\ Join(rs) \in Seq(S)
    BY <1>2, <2>1, <2>3, JoinType
  <2>5. Normal(AddPart(Join(rs), x))
    BY <2>3, <2>4, NormalAddPart
  <2> QED BY <2>1, <2>5, JoinAppend
<1> HIDE DEF P
<1>3. Len(ps) \in P
  BY <1>1, <1>2, SetInduction, LenProperties
<1> QED BY <1>3 DEF P

\* What normalizePrefix makes of any text is normal ...
LEMMA StorePrefixNormal ==
    ASSUME NEW S, "/" \in S, NEW t \in Seq(S)
    PROVE  StorePrefix(t) \in Seq(S) /\ Normal(StorePrefix(t))
<1> DEFINE p == Split(t)
           ps == [i \in DOMAIN p |-> TrimSpace(p[i])]
<1>1. /\ p \in Seq(Seq(S)) /\ Len(p) \in Nat /\ DOMAIN p = 1..Len(p)
      /\ \A k \in 1..Len(p) : p[k] \in Seq(S) /\ Slashless(p[k])
  <2>1. p \in Seq(Seq(S)) /\ \A k \in 1..Len(p) : Slashless(p[k])
    BY SplitType, PartsSlashless DEF PartsOver
  <2> HIDE DEF p
  <2> QED BY <2>1, LenProperties, ElementOfSeq
<1>2. StorePrefix(t) = Join(ps)
  BY Zenon DEF StorePrefix
<1> HIDE DEF p
<1>3. \A k \in 1..Len(p) : /\ TrimSpace(p[k]) \in Seq(S)
                            /\ Slashless(TrimSpace(p[k])) /\ Trimmed(TrimSpace(p[k]))
  BY <1>1, TrimSpaceTrims, TrimSpaceSlashless
<1>4. ps \in Seq(Seq(S)) /\ Len(ps) = Len(p)
      /\ \A k \in 1..Len(p) : ps[k] = TrimSpace(p[k])
  BY <1>1, <1>3
<1> HIDE DEF ps
<1>5. \A k \in 1..Len(ps) : Slashless(ps[k]) /\ Trimmed(ps[k])
  BY <1>3, <1>4
<1> QED BY <1>2, <1>4, <1>5, JoinType, JoinNormal

\* ... and a normal one it keeps.
LEMMA StorePrefixKeeps ==
    ASSUME NEW S, "/" \in S, NEW t \in Seq(S), Normal(t)
    PROVE  StorePrefix(t) = t
<1> DEFINE p == Split(t)
           ps == [i \in DOMAIN p |-> TrimSpace(p[i])]
<1>1. /\ p \in Seq(Seq(S)) /\ Join(p) = t
      /\ \A k \in 1..Len(p) : Trimmed(p[k])
  BY SplitType DEF PartsOver, Normal
<1>2. StorePrefix(t) = Join(ps)
  BY Zenon DEF StorePrefix
<1> HIDE DEF p
<1>3. Len(p) \in Nat /\ DOMAIN p = 1..Len(p)
      /\ \A k \in 1..Len(p) : TrimSpace(p[k]) = p[k]
  BY <1>1, LenProperties, ElementOfSeq, TrimSpaceKeeps
<1>4. ps = p
  BY <1>1, <1>3
<1> QED BY <1>1, <1>2, <1>4

\* normalizePrefix does not change what it made: the store's New normalizes the
\* prefix, and BuildKey may normalize it again for every read.
THEOREM PrefixNormalizedOnce ==
    ASSUME NEW S, "/" \in S, NEW t \in Seq(S)
    PROVE  StorePrefix(StorePrefix(t)) = StorePrefix(t)
BY StorePrefixNormal, StorePrefixKeeps

LEMMA ConfigPrefixType ==
    ASSUME NEW S, "/" \in S, NEW t \in Seq(S)
    PROVE  ConfigPrefix(t) \in Seq(S)
<1>1. TrimSpace(t) \in Seq(S)
  BY TrimSpaceTrims
<1>2. Split(TrimSpace(t)) \in Seq(Seq(S))
  BY <1>1, SplitType DEF PartsOver
<1> QED BY <1>2, JoinType DEF ConfigPrefix

-----------------------------------------------------------------------------
(* Keys.                                                                   *)

\* What BuildKey returns for a normal prefix and trimmed names.
Rooted(p, key) == IF p = <<>> THEN key ELSE p \o <<"/">> \o key
Segments(p) == IF p = <<>> THEN <<>> ELSE Split(p)
KeySegments(p, a, b, c) == Segments(p) \o <<a, b, c>>
Named(a, b, c) == a \o <<"/">> \o b \o <<"/">> \o c

LEMMA BuildKeyIs ==
    ASSUME NEW S, "/" \in S, NEW p \in Seq(S), Normal(p),
           NEW e \in Seq(S), Trimmed(e), NEW s \in Seq(S), Trimmed(s),
           BuildKey(p, e, s) # NoKey
    PROVE  /\ e # <<>> /\ s # <<>> /\ SegmentOK(e) /\ SegmentOK(s) /\ ~HasDots(p)
           /\ BuildKey(p, e, s) =
                 Rooted(p, Named(ToUpper(e), ToUpper(s), FileName))
<1>1. TrimSpace(e) = e /\ TrimSpace(s) = s
  BY TrimSpaceKeeps
<1>2. TrimSpace(p) = p
  BY TrimSpaceKeeps DEF Normal
<1>3. StorePrefix(p) = p
  BY StorePrefixKeeps
<1> QED BY <1>1, <1>2, <1>3, Zenon DEF BuildKey, Rooted, Named

LEMMA AppendThrice ==
    ASSUME NEW T, NEW q \in Seq(T), NEW a \in T, NEW b \in T, NEW c \in T
    PROVE  Append(Append(Append(q, a), b), c) = q \o <<a, b, c>>
OBVIOUS

\* Concatenations group to the left.
Regroups(h, a, b, c, i) ==
    h \o ((((a \o i) \o b) \o i) \o c) = ((((h \o a) \o i) \o b) \o i) \o c

LEMMA RegroupKey ==
    ASSUME NEW S, NEW h \in Seq(S)
    PROVE  \A a, b, c, i \in Seq(S) : Regroups(h, a, b, c, i)
<1>1. \A x, y \in Seq(S) : (h \o x) \o y = h \o (x \o y)
  BY ConcatAssociative
<1>2. \A x, y \in Seq(S) : x \o y \in Seq(S)
  BY ConcatProperties
<1> TAKE a, b, c, i \in Seq(S)
<1>3. a \o i \in Seq(S)
  BY <1>2, Zenon
<1>4. (a \o i) \o b \in Seq(S)
  BY <1>2, <1>3, Zenon
<1>5. ((a \o i) \o b) \o i \in Seq(S)
  BY <1>2, <1>4, Zenon
<1>6. (h \o a) \o i = h \o (a \o i)
  BY <1>1, Zenon
<1>7. (h \o (a \o i)) \o b = h \o ((a \o i) \o b)
  BY <1>1, <1>3, Zenon
<1>8. (h \o ((a \o i) \o b)) \o i = h \o (((a \o i) \o b) \o i)
  BY <1>1, <1>4, Zenon
<1>9. (h \o (((a \o i) \o b) \o i)) \o c = h \o ((((a \o i) \o b) \o i) \o c)
  BY <1>1, <1>5, Zenon
<1> QED BY <1>6, <1>7, <1>8, <1>9, Zenon DEF Regroups

\* Such a key falls apart into the prefix's segments and the three it ends with.
LEMMA KeySplits ==
    ASSUME NEW S, "/" \in S, NEW p \in Seq(S), NEW a \in Seq(S), NEW b \in Seq(S),
           NEW c \in Seq(S), Slashless(a), Slashless(b), Slashless(c)
    PROVE  Split(Rooted(p, Named(a, b, c)))
              = KeySegments(p, a, b, c)
<1> DEFINE i == <<"/">>
<1>1. i \in Seq(S)
  OBVIOUS
<1> HIDE DEF i
<1>2. \A t \in Seq(S), x \in Seq(S) : Slashless(x) => Split((t \o i) \o x) = Append(Split(t), x)
  BY SplitSlash DEF i
<1>3. \A x, y \in Seq(S) : x \o y \in Seq(S)
  BY ConcatProperties
<1> DEFINE ab == (a \o i) \o b
           abc == (ab \o i) \o c
<1>4. a \o i \in Seq(S) /\ ab \in Seq(S) /\ ab \o i \in Seq(S) /\ abc \in Seq(S)
  BY <1>1, <1>3, Zenon
<1>5. CASE p = <<>>
  <2>1. Split(a) = <<a>>
    BY SplitSlashless
  <2>2. Split(ab) = Append(<<a>>, b) /\ Split(abc) = Append(Split(ab), c)
    BY <1>2, <1>4, <2>1
  <2>3. <<>> \in Seq(Seq(S)) /\ Append(<<>>, a) = <<a>>
    OBVIOUS
  <2>4. \A q \in Seq(Seq(S)) : Append(Append(Append(q, a), b), c) = q \o <<a, b, c>>
    BY AppendThrice
  <2>5. Append(Append(<<a>>, b), c) = <<>> \o <<a, b, c>>
    BY <2>3, <2>4
  <2> QED BY <1>5, <2>2, <2>5 DEF Rooted, Named, KeySegments, Segments, i
<1>6. CASE p # <<>>
  <2> DEFINE h == p \o i
             q == Split(p)
  <2>1. h \in Seq(S) /\ h \o a \in Seq(S) /\ (h \o a) \o i \in Seq(S)
        /\ ((h \o a) \o i) \o b \in Seq(S)
    BY <1>1, <1>3
  <2>2. h \o abc = ((((h \o a) \o i) \o b) \o i) \o c
    <3> HIDE DEF h, i
    <3>1. Regroups(h, a, b, c, i)
      BY <1>1, <2>1, RegroupKey
    <3> QED BY <3>1, Zenon DEF Regroups, ab, abc
  <2>3. /\ Split(h \o a) = Append(q, a)
        /\ Split(((h \o a) \o i) \o b) = Append(Append(q, a), b)
        /\ Split(h \o abc) = Append(Append(Append(q, a), b), c)
    <3>1. Split(h \o a) = Append(q, a)
      BY <1>2
    <3> HIDE DEF h
    <3>2. Split(((h \o a) \o i) \o b) = Append(Append(q, a), b)
      BY <1>2, <2>1, <3>1
    <3>3. Split(((((h \o a) \o i) \o b) \o i) \o c) = Append(Append(Append(q, a), b), c)
      BY <1>2, <2>1, <3>2
    <3> QED BY <2>2, <3>1, <3>2, <3>3
  <2>4. Append(Append(Append(q, a), b), c) = q \o <<a, b, c>>
    <3>1. q \in Seq(Seq(S))
      BY SplitType DEF PartsOver
    <3> HIDE DEF q
    <3> QED BY <3>1, AppendThrice
  <2>5. Rooted(p, Named(a, b, c)) = h \o abc
    BY <1>6 DEF Rooted, Named, i
  <2> QED BY <1>6, <2>3, <2>4, <2>5 DEF KeySegments, Segments
<1> QED BY <1>5, <1>6

LEMMA FileNameIsSegment ==
    /\ FileName # <<>> /\ Trimmed(FileName) /\ Slashless(FileName)
    /\ ~HasDots(FileName)
BY DEF FileName, Trimmed, Slashless, HasDots

\* A segment of a key: neither empty nor padded, and none that climbs.
Clean(part) == part # <<>> /\ part = TrimSpace(part) /\ ~HasDots(part)

LEMMA ConcatThree ==
    ASSUME NEW T, NEW q \in Seq(T), NEW a \in T, NEW b \in T, NEW c \in T
    PROVE  LET u == q \o <<a, b, c>>
           IN  /\ u \in Seq(T) /\ Len(u) = Len(q) + 3
               /\ \A i \in 1..Len(q) : u[i] = q[i]
               /\ u[Len(q) + 1] = a /\ u[Len(q) + 2] = b /\ u[Len(q) + 3] = c
<1> DEFINE t == <<a, b, c>>
           u == q \o t
<1>1. /\ t \in Seq(T) /\ Len(t) = 3 /\ t[1] = a /\ t[2] = b /\ t[3] = c
      /\ Len(q) \in Nat
  BY LenProperties
<1> HIDE DEF t
<1>2. /\ u \in Seq(T) /\ Len(u) = Len(q) + 3
      /\ \A i \in 1 .. Len(q) + 3 :
            u[i] = IF i <= Len(q) THEN q[i] ELSE t[i - Len(q)]
  <2>1. /\ u \in Seq(T) /\ Len(u) = Len(q) + Len(t)
        /\ \A i \in 1 .. Len(q) + Len(t) :
              u[i] = IF i <= Len(q) THEN q[i] ELSE t[i - Len(q)]
    BY <1>1, ConcatProperties
  <2> HIDE DEF u
  <2> QED BY <1>1, <2>1
<1> HIDE DEF u
<1>3. /\ u[Len(q) + 1] = a /\ u[Len(q) + 2] = b /\ u[Len(q) + 3] = c
      /\ \A i \in 1..Len(q) : u[i] = q[i]
  BY <1>1, <1>2
<1> QED BY <1>2, <1>3 DEF u, t

\* The segments of every key that BuildKey returns.
LEMMA SegmentsOfKey ==
    ASSUME NEW S, {"/", "A"} \subseteq S, FileName \in Seq(S),
           NEW p \in Seq(S), Normal(p),
           NEW e \in Seq(S), Trimmed(e), NEW s \in Seq(S), Trimmed(s),
           BuildKey(p, e, s) # NoKey
    PROVE  /\ Split(BuildKey(p, e, s))
                = KeySegments(p, ToUpper(e), ToUpper(s), FileName)
           /\ \A i \in DOMAIN Split(BuildKey(p, e, s)) :
                 Clean(Split(BuildKey(p, e, s))[i])
<1> DEFINE a == ToUpper(e)
           b == ToUpper(s)
           c == FileName
           q == Segments(p)
           parts == KeySegments(p, a, b, c)
<1>1. /\ e # <<>> /\ s # <<>> /\ SegmentOK(e) /\ SegmentOK(s) /\ ~HasDots(p)
      /\ BuildKey(p, e, s) = Rooted(p, Named(a, b, c))
  BY BuildKeyIs
<1>2. Slashless(e) /\ Slashless(s) /\ ~HasDots(e) /\ ~HasDots(s)
  BY <1>1 DEF SegmentOK, Contains, Slashless
<1>3. /\ a \in Seq(S) /\ Slashless(a) /\ Clean(a)
      /\ b \in Seq(S) /\ Slashless(b) /\ Clean(b)
      /\ c \in Seq(S) /\ Slashless(c) /\ Clean(c)
  <2>1. /\ a \in Seq(S) /\ a # <<>> /\ Trimmed(a) /\ Slashless(a) /\ ~HasDots(a)
        /\ b \in Seq(S) /\ b # <<>> /\ Trimmed(b) /\ Slashless(b) /\ ~HasDots(b)
    BY <1>1, <1>2, ToUpperProperties
  <2>2. c \in Seq(S) /\ c # <<>> /\ Trimmed(c) /\ Slashless(c) /\ ~HasDots(c)
    BY FileNameIsSegment
  <2> HIDE DEF a, b, c
  <2>3. TrimSpace(a) = a /\ TrimSpace(b) = b /\ TrimSpace(c) = c
    BY <2>1, <2>2, TrimSpaceKeeps
  <2> QED BY <2>1, <2>2, <2>3 DEF Clean
<1>4. q \in Seq(Seq(S)) /\ \A k \in 1..Len(q) : Clean(q[k])
  <2>1. CASE p = <<>>
    BY <2>1 DEF Segments
  <2>2. CASE p # <<>>
    <3>1. q = Split(p) /\ q \in Seq(Seq(S))
      BY <2>2, SplitType DEF PartsOver, Segments
    <3>2. \A k \in 1..Len(q) : q[k] # <<>> /\ Trimmed(q[k]) /\ ~HasDots(q[k])
      BY <1>1, <2>2, <3>1 DEF Normal
    <3> HIDE DEF q
    <3>3. \A k \in 1..Len(q) : q[k] \in Seq(S)
      BY <3>1, ElementOfSeq
    <3>4. \A k \in 1..Len(q) : TrimSpace(q[k]) = q[k]
      BY <3>2, <3>3, TrimSpaceKeeps
    <3> QED BY <3>1, <3>2, <3>4 DEF Clean
  <2> QED BY <2>1, <2>2
<1> HIDE DEF a, b, c
<1>5. Split(BuildKey(p, e, s)) = parts
  <2>1. "/" \in S
    OBVIOUS
  <2> QED BY <1>1, <1>3, <2>1, KeySplits
<1> HIDE DEF q
<1>6. /\ Len(q) \in Nat /\ parts \in Seq(Seq(S)) /\ Len(parts) = Len(q) + 3
      /\ \A i \in 1..Len(q) : parts[i] = q[i]
      /\ parts[Len(q) + 1] = a /\ parts[Len(q) + 2] = b /\ parts[Len(q) + 3] = c
  BY <1>3, <1>4, ConcatThree, LenProperties DEF KeySegments, q
<1> HIDE DEF parts
<1>7. ASSUME NEW i \in DOMAIN parts PROVE Clean(parts[i])
  <2>1. DOMAIN parts = 1..Len(parts)
    BY <1>6, LenProperties
  <2>2. i \in 1..Len(q) \/ i = Len(q) + 1 \/ i = Len(q) + 2 \/ i = Len(q) + 3
    <3>1. \A n \in Nat : \A k \in 1 .. n + 3 :
             k \in 1..n \/ k = n + 1 \/ k = n + 2 \/ k = n + 3
      OBVIOUS
    <3>2. i \in 1 .. Len(q) + 3 /\ Len(q) \in Nat
      BY <1>6, <2>1
    <3> QED BY <3>1, <3>2, Zenon
  <2> QED BY <1>3, <1>4, <1>6, <2>2
<1> QED BY <1>5, <1>7 DEF parts, q, a, b, c

\* Two stocks never share an object: under one normal prefix, equal keys are of
\* equal exchanges and symbols, but for the case of their letters.
THEOREM OneStockPerKey ==
    ASSUME NEW S, {"/", "A"} \subseteq S, FileName \in Seq(S),
           NEW p \in Seq(S), Normal(p),
           NEW e \in Seq(S), Trimmed(e), NEW s \in Seq(S), Trimmed(s),
           NEW f \in Seq(S), Trimmed(f), NEW t \in Seq(S), Trimmed(t),
           BuildKey(p, e, s) # NoKey, BuildKey(p, f, t) = BuildKey(p, e, s)
    PROVE  ToUpper(f) = ToUpper(e) /\ ToUpper(t) = ToUpper(s)
<1> DEFINE q == Segments(p)
           u == q \o <<ToUpper(e), ToUpper(s), FileName>>
           v == q \o <<ToUpper(f), ToUpper(t), FileName>>
<1>1. Split(BuildKey(p, e, s)) = u
  BY SegmentsOfKey, Zenon DEF KeySegments
<1>2. Split(BuildKey(p, f, t)) = v
  <2>1. BuildKey(p, f, t) # NoKey
    OBVIOUS
  <2> QED BY <2>1, SegmentsOfKey, Zenon DEF KeySegments
<1>3. q \in Seq(Seq(S))
  BY SplitType DEF PartsOver, Segments
<1> HIDE DEF q
<1>4. /\ ToUpper(e) \in Seq(S) /\ ToUpper(s) \in Seq(S)
      /\ ToUpper(f) \in Seq(S) /\ ToUpper(t) \in Seq(S)
  BY ToUpperProperties
<1>5. u[Len(q) + 1] = ToUpper(e) /\ u[Len(q) + 2] = ToUpper(s)
  BY <1>3, <1>4, ConcatThree
<1>6. v[Len(q) + 1] = ToUpper(f) /\ v[Len(q) + 2] = ToUpper(t)
  BY <1>3, <1>4, ConcatThree
<1> HIDE DEF u, v
<1> QED BY <1>1, <1>2, <1>5, <1>6
==============================================================================
