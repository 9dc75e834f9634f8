--------------------------- MODULE SequenceLemmas ---------------------------
(***************************************************************************)
(* Facts that the proofs of several modules use: about sequences (dropping *)
(* and appending at the end, the set of the elements), and, with a set in  *)
(* place of a predicate, induction over the naturals and the existence of  *)
(* recursive functions.                                                    *)
(***************************************************************************)
EXTENDS SequencesExt, SequenceTheorems, FiniteSetTheorems, TLAPS

(* Dropping the last element of a nonempty sequence.                       *)
LEMMA FrontFacts ==
  ASSUME NEW S, NEW s \in Seq(S), s # << >>
  PROVE  /\ Front(s) \in Seq(S)
         /\ Len(Front(s)) = Len(s) - 1
         /\ \A i \in 1 .. Len(s) - 1 : Front(s)[i] = s[i]
         /\ Len(s) \in Nat \ {0}
<1>1. PICK n \in Nat : Len(s) = n + 1
  OBVIOUS
<1>2. /\ n = Len(s) - 1
      /\ \A i \in 1 .. n : s[i] \in S
  BY <1>1
<1>3. /\ SubSeq(s, 1, n) \in Seq(S)
      /\ Len(SubSeq(s, 1, n)) = IF 1 <= n THEN n - 1 + 1 ELSE 0
      /\ \A i \in 1 .. n - 1 + 1 : SubSeq(s, 1, n)[i] = s[1 + i - 1]
  BY <1>2, SubSeqProperties
<1>4. Len(SubSeq(s, 1, n)) = n
  BY <1>3
<1>5. \A i \in 1 .. n : SubSeq(s, 1, n)[i] = s[i]
  BY <1>3
<1>6. Front(s) = SubSeq(s, 1, n)
  BY <1>2 DEF Front
<1> QED
  BY <1>1, <1>2, <1>3, <1>4, <1>5, <1>6

(* Dropping the last element, if any, keeps the type.                      *)
LEMMA FrontInSeq ==
  ASSUME NEW S, NEW s \in Seq(S)
  PROVE  Front(s) \in Seq(S)
<1>1. CASE s # << >>
  BY <1>1, FrontFacts
<1>2. CASE s = << >>
  <2>1. Len(s) - 1 \in Int /\ Len(s) - 1 < 1
    BY <1>2
  <2> QED
    BY <2>1, SubSeqEmpty, EmptySeq DEF Front
<1> QED
  BY <1>1, <1>2

(* Appending an element.                                                   *)
LEMMA AppendFacts ==
  ASSUME NEW S, NEW s \in Seq(S), NEW e \in S
  PROVE  /\ Append(s, e) \in Seq(S)
         /\ Len(Append(s, e)) = Len(s) + 1
         /\ \A i \in 1 .. Len(s) : Append(s, e)[i] = s[i]
         /\ Append(s, e)[Len(s) + 1] = e
  OBVIOUS

(* A sequence is nonempty just when its length is not zero.                *)
LEMMA LengthFacts ==
  ASSUME NEW S, NEW s \in Seq(S)
  PROVE  /\ Len(s) \in Nat
         /\ DOMAIN s = 1 .. Len(s)
         /\ s = << >> <=> Len(s) = 0
         /\ \A i \in 1 .. Len(s) : s[i] \in S
  OBVIOUS

(* The elements of a nonempty sequence: those of its front, and its last.  *)
LEMMA FrontElements ==
  ASSUME NEW S, NEW s \in Seq(S), s # << >>
  PROVE  /\ ToSet(s) = ToSet(Front(s)) \cup {Last(s)}
         /\ Last(s) \in S
<1>1. PICK n \in Nat : Len(s) = n + 1
  OBVIOUS
<1>2. /\ Front(s) \in Seq(S)
      /\ Len(Front(s)) = n
      /\ \A i \in 1 .. n : Front(s)[i] = s[i]
  BY <1>1, FrontFacts
<1>3. DOMAIN s = 1 .. n + 1 /\ DOMAIN Front(s) = 1 .. n
  BY <1>1, <1>2, LengthFacts
<1>4. \A i : i \in 1 .. n + 1 <=> i \in 1 .. n \/ i = n + 1
  OBVIOUS
<1>5. Last(s) = s[n + 1]
  BY <1>1 DEF Last
<1>6. ToSet(s) \subseteq ToSet(Front(s)) \cup {Last(s)}
  BY <1>2, <1>3, <1>4, <1>5 DEF ToSet
<1>7. ToSet(Front(s)) \cup {Last(s)} \subseteq ToSet(s)
  BY <1>2, <1>3, <1>4, <1>5 DEF ToSet
<1>8. Last(s) \in S
  BY <1>1, <1>4, <1>5
<1> QED
  BY <1>6, <1>7, <1>8

(* The elements of a concatenation.                                        *)
LEMMA ConcatElements ==
  ASSUME NEW S, NEW s \in Seq(S), NEW t \in Seq(S)
  PROVE  /\ s \o t \in Seq(S)
         /\ ToSet(s \o t) = ToSet(s) \cup ToSet(t)
<1>1. /\ s \o t \in Seq(S)
      /\ Range(s \o t) = Range(s) \cup Range(t)
  BY ConcatProperties, RangeConcatenation
<1>2. \A u : ToSet(u) = Range(u)
  BY DEF ToSet, Range
<1> QED
  BY <1>1, <1>2

-----------------------------------------------------------------------------
(* A nonempty set of numbers has a smallest one: the intervals 1 .. i are  *)
(* finite, and strict inclusion is well-founded on finite sets.            *)
LEMMA Smallest ==
  ASSUME NEW I, I \subseteq Nat, I # {}
  PROVE  \E x \in I : \A y \in I : x <= y
<1> DEFINE R == StrictSubsetOrdering(Nat)
<1> DEFINE T == {1 .. i : i \in I}
<1>1. \A i \in Nat : IsFiniteSet(1 .. i) /\ 1 .. i \subseteq Nat
  BY FS_Interval
<1>2. T \subseteq FiniteSubsetsOf(Nat) /\ T # {}
  <2>1. \A i \in I : 1 .. i \in FiniteSubsetsOf(Nat)
    BY <1>1, Zenon DEF FiniteSubsetsOf
  <2> QED
    BY <2>1
<1>3. \E x \in T : \A y \in T : ~ (<<y, x>> \in R)
  <2>1. IsWellFoundedOn(R, FiniteSubsetsOf(Nat))
    BY FS_StrictSubsetOrderingWellFounded
  <2> HIDE DEF T, R
  <2> QED
    BY <1>2, <2>1, WFMin
<1>4. PICK i \in I : \A j \in I : ~ (<<1 .. j, 1 .. i>> \in R)
  BY <1>3
<1>5. ASSUME NEW j \in I, ~ (i <= j)
      PROVE  FALSE
  <2>1. 1 .. j \subseteq 1 .. i /\ i \in 1 .. i /\ i \notin 1 .. j
    BY <1>5
  <2>2. <<1 .. j, 1 .. i>> \in R
    BY <2>1 DEF StrictSubsetOrdering
  <2> QED
    BY <1>4, <2>2
<1> QED
  BY <1>4, <1>5

(* Induction over the naturals, with a set in place of a predicate.        *)
LEMMA Induction ==
  ASSUME NEW P, 0 \in P, \A n \in Nat : n \in P => n + 1 \in P
  PROVE  Nat \subseteq P
<1> SUFFICES ASSUME NEW k \in Nat, k \notin P
             PROVE  FALSE
  OBVIOUS
<1> DEFINE I == {n \in Nat : n \notin P}
<1>1. PICK x \in I : \A y \in I : x <= y
  <2>1. I \subseteq Nat /\ I # {}
    OBVIOUS
  <2> HIDE DEF I
  <2> QED
    BY <2>1, Smallest
<1>2. x \in Nat \ {0} /\ x - 1 \in Nat
  OBVIOUS
<1>3. x - 1 \in P
  BY <1>1, <1>2
<1> QED
  BY <1>2, <1>3

(* G takes the value at a number, in S, to the value at the next, and f is *)
(* what it makes of a first value.                                         *)
StepsIn(G, S) == \A n \in Nat : \A x \in S : G[n][x] \in S
Iterates(f, S, a, G) ==
  /\ \A n \in Nat : f[n] \in S
  /\ f[0] = a
  /\ \A n \in Nat : f[n + 1] = G[n][f[n]]

(* A function on the naturals can be defined by recursion.                 *)
LEMMA Recursion ==
  ASSUME NEW S, NEW a, a \in S, NEW G, StepsIn(G, S)
  PROVE  \E f : Iterates(f, S, a, G)
<1>0. \A n \in Nat : \A x \in S : G[n][x] \in S
  BY DEF StepsIn
<1> DEFINE Upto(n, f) == /\ f \in [0 .. n -> S]
                         /\ f[0] = a
                         /\ \A i \in 0 .. n - 1 : f[i + 1] = G[i][f[i]]
<1> HIDE DEF Upto
<1>1. \A n \in Nat : \E f : Upto(n, f)
  <2> DEFINE P == {n \in Nat : \E f : Upto(n, f)}
  <2>1. 0 \in P
    <3>1. Upto(0, [i \in 0 .. 0 |-> a])
      BY DEF Upto
    <3> QED
      BY <3>1
  <2>2. ASSUME NEW n \in Nat, n \in P
        PROVE  n + 1 \in P
    <3>1. PICK f : Upto(n, f)
      BY <2>2
    <3> DEFINE g == [i \in 0 .. n + 1 |-> IF i = n + 1 THEN G[n][f[n]] ELSE f[i]]
    <3>2. f[n] \in S /\ G[n][f[n]] \in S
      BY <1>0, <3>1 DEF Upto
    <3>3. g \in [0 .. n + 1 -> S]
      BY <3>1, <3>2 DEF Upto
    <3>4. g[0] = a
      BY <3>1 DEF Upto
    <3>5. ASSUME NEW i \in 0 .. n
          PROVE  g[i + 1] = G[i][g[i]]
      <4>1. g[i] = f[i]
        OBVIOUS
      <4>2. CASE i = n
        <5>1. i + 1 \in 0 .. n + 1 /\ i + 1 = n + 1
          BY <4>2
        <5> QED
          BY <4>1, <4>2, <5>1
      <4>3. CASE i # n
        <5>1. i \in 0 .. n - 1 /\ i + 1 \in 0 .. n + 1 /\ i + 1 # n + 1
          BY <4>3
        <5>2. g[i + 1] = f[i + 1]
          BY <5>1
        <5> QED
          BY <3>1, <4>1, <5>1, <5>2 DEF Upto
      <4> QED
        BY <4>2, <4>3
    <3>6. Upto(n + 1, g)
      <4> HIDE DEF g
      <4> QED
        BY <3>3, <3>4, <3>5 DEF Upto
    <3> HIDE DEF g
    <3> QED
      BY <3>6
  <2>3. Nat \subseteq P
    <3> HIDE DEF P
    <3> QED
      BY <2>1, <2>2, Induction
  <2> QED
    BY <2>3
<1>2. \A f, g : \A n \in Nat : Upto(n, f) /\ Upto(n + 1, g) => \A i \in 0 .. n : f[i] = g[i]
  <2> SUFFICES ASSUME NEW n \in Nat, NEW f, NEW g, Upto(n, f), Upto(n + 1, g)
               PROVE  \A i \in 0 .. n : f[i] = g[i]
    OBVIOUS
  <2> DEFINE P == {i \in Nat : i <= n => f[i] = g[i]}
  <2>1. 0 \in P
    BY DEF Upto
  <2>2. ASSUME NEW i \in Nat, i \in P
        PROVE  i + 1 \in P
    <3> SUFFICES ASSUME i + 1 <= n
                 PROVE  f[i + 1] = g[i + 1]
      OBVIOUS
    <3>1. i \in 0 .. n - 1 /\ i \in 0 .. n + 1 - 1 /\ f[i] = g[i]
      BY <2>2
    <3>2. f[i + 1] = G[i][f[i]]
      BY <3>1 DEF Upto
    <3>3. g[i + 1] = G[i][g[i]]
      BY <3>1 DEF Upto
    <3> QED
      BY <3>1, <3>2, <3>3
  <2>3. Nat \subseteq P
    <3> HIDE DEF P
    <3> QED
      BY <2>1, <2>2, Induction
  <2> QED
    BY <2>3
<1> DEFINE h == [n \in Nat |-> CHOOSE f : Upto(n, f)]
<1>3. \A n \in Nat : Upto(n, h[n])
  BY <1>1
<1> HIDE DEF h
<1> DEFINE f == [n \in Nat |-> h[n][n]]
<1>4. (\A n \in Nat : f[n] \in S) /\ f[0] = a
  <2>1. ASSUME NEW n \in Nat
        PROVE  h[n][n] \in S
    <3>1. h[n] \in [0 .. n -> S] /\ n \in 0 .. n
      BY <1>3 DEF Upto
    <3> QED
      BY <3>1
  <2> QED
    BY <1>3, <2>1 DEF Upto
<1>5. ASSUME NEW n \in Nat
      PROVE  f[n + 1] = G[n][f[n]]
  <2>1. h[n + 1][n + 1] = G[n][h[n + 1][n]]
    <3>1. Upto(n + 1, h[n + 1])
      BY <1>3
    <3>2. n \in 0 .. (n + 1) - 1
      OBVIOUS
    <3> QED
      BY <3>1, <3>2 DEF Upto
  <2>2. h[n + 1][n] = h[n][n]
    <3>1. Upto(n, h[n]) /\ Upto(n + 1, h[n + 1]) /\ n \in 0 .. n
      BY <1>3
    <3> QED
      BY <1>2, <3>1
  <2> QED
    BY <2>1, <2>2
<1> HIDE DEF f
<1>6. Iterates(f, S, a, G)
  BY <1>4, <1>5 DEF Iterates
<1> QED
  BY <1>6

(* The same on an interval: what a recursive function stands for exists.   *)
StepsUpTo(n, G, S) == \A i \in 1 .. n : \A x \in S : G[i][x] \in S
IteratesUpTo(f, n, S, a, G) ==
  /\ f = [i \in 0 .. n |-> IF i = 0 THEN a ELSE G[i][f[i - 1]]]
  /\ \A i \in 0 .. n : f[i] \in S

LEMMA BoundedRecursion ==
  ASSUME NEW n, n \in Nat, NEW S, NEW a, a \in S, NEW G, StepsUpTo(n, G, S)
  PROVE  \E f : IteratesUpTo(f, n, S, a, G)
<1> DEFINE H == [i \in Nat |-> [x \in S |-> IF i < n THEN G[i + 1][x] ELSE x]]
<1>1. \A i \in Nat : \A x \in S : H[i][x] \in S
  <2>1. ASSUME NEW i \in Nat, NEW x \in S, i < n
        PROVE  G[i + 1][x] \in S
    <3>1. i + 1 \in 1 .. n
      BY <2>1
    <3> QED
      BY <3>1 DEF StepsUpTo
  <2> QED
    BY <2>1
<1>2. \A i \in Nat, x \in S : i < n => H[i][x] = G[i + 1][x]
  OBVIOUS
<1> HIDE DEF H
<1>3. PICK h : Iterates(h, S, a, H)
  <2>1. StepsIn(H, S)
    BY <1>1 DEF StepsIn
  <2> QED
    BY <2>1, Recursion
<1> DEFINE f == [i \in 0 .. n |-> h[i]]
<1>4. \A i \in 0 .. n : f[i] \in S
  BY <1>3 DEF Iterates
<1>5. ASSUME NEW i \in 1 .. n
      PROVE  f[i] = G[i][f[i - 1]]
  <2>1. i - 1 \in Nat /\ i - 1 < n /\ (i - 1) + 1 = i /\ i \in 0 .. n /\ i - 1 \in 0 .. n
    OBVIOUS
  <2>2. h[i - 1] \in S
    BY <1>3, <2>1 DEF Iterates
  <2>3. h[i] = H[i - 1][h[i - 1]]
    BY <1>3, <2>1 DEF Iterates
  <2> QED
    BY <1>2, <2>1, <2>2, <2>3
<1>6. f[0] = a
  BY <1>3 DEF Iterates
<1>7. f = [i \in 0 .. n |-> IF i = 0 THEN a ELSE G[i][f[i - 1]]]
  <2>1. f = [i \in 0 .. n |-> f[i]]
    OBVIOUS
  <2> HIDE DEF f
  <2>2. \A i \in 0 .. n : i = 0 \/ i \in 1 .. n
    OBVIOUS
  <2>3. \A i \in 0 .. n : f[i] = IF i = 0 THEN a ELSE G[i][f[i - 1]]
    BY <1>5, <1>6, <2>2
  <2> QED
    BY <2>1, <2>3
<1> HIDE DEF f
<1>8. IteratesUpTo(f, n, S, a, G)
  BY <1>4, <1>7 DEF IteratesUpTo
<1> QED
  BY <1>8
=============================================================================
