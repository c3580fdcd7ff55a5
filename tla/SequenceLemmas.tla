--------------------------- MODULE SequenceLemmas ---------------------------
(***************************************************************************)
(* Facts about sequences and sums that the other proof modules rest on.    *)
(***************************************************************************)
EXTENDS Integers, Sequences, Functions, WellFoundedInduction, TLAPS

\* Induction up to n: what holds of 0, and of k if it holds of k - 1, holds up to n.
\* WFMin names the smallest counterexample.
LEMMA Upto ==
  ASSUME NEW n \in Nat, NEW S, 0 \in S, \A k \in 1..n : k - 1 \in S => k \in S
  PROVE  \A k \in 0..n : k \in S
<1> SUFFICES ASSUME NEW j \in 0..n, j \notin S PROVE FALSE
  OBVIOUS
<1> DEFINE T == {k \in Nat : k \in 0..n /\ k \notin S}
           R == OpToRel(<, Nat)
<1>1. T \subseteq Nat /\ T # {}
  OBVIOUS
<1>2. PICK m \in T : \A k \in T : <<k, m>> \notin R
  <2> HIDE DEF T, R
  <2>1. IsWellFoundedOn(R, Nat)
    BY NatLessThanWellFounded, Zenon DEF R
  <2> QED
    BY <1>1, <2>1, WFMin, Zenon
<1>3. m # 0 /\ m - 1 \in S
  <2>1. m \in 0..n /\ m # 0
    OBVIOUS
  <2>2. <<m - 1, m>> \in R
    BY <2>1 DEF OpToRel
  <2>3. m - 1 \notin T
    BY <1>2, <2>2, Zenon
  <2> QED
    BY <2>1, <2>3
<1> QED
  BY <1>3

\* g[k] is the value of a loop after k of n elements, F giving the next one.
Loops(g, n, base, F) == g[0] = base /\ \A k \in 1..n : g[k] = F[<<g[k - 1], k>>]

\* Such a loop has a value after each element.
LEMMA LoopExists ==
  ASSUME NEW n \in Nat, NEW A, NEW base \in A, NEW F \in [A \X (1..n) -> A]
  PROVE  \E g \in [0..n -> A] : Loops(g, n, base, F)
<1> DEFINE S == {m \in 0..n : \E g \in [0..m -> A] : Loops(g, m, base, F)}
<1>1. 0 \in S
  <2>1. [i \in 0..0 |-> base] \in [0..0 -> A] /\ Loops([i \in 0..0 |-> base], 0, base, F)
    BY DEF Loops
  <2> QED
    BY <2>1, 0 \in 0..n
<1>2. ASSUME NEW m \in 1..n, m - 1 \in S PROVE m \in S
  <2>1. PICK g \in [0..m - 1 -> A] : Loops(g, m - 1, base, F)
    BY <1>2
  <2> DEFINE h == [i \in 0..m |-> IF i = m THEN F[<<g[m - 1], m>>] ELSE g[i]]
  <2>2. h \in [0..m -> A]
    OBVIOUS
  <2>3. Loops(h, m, base, F)
    <3>1. h[0] = base
      BY <2>1 DEF Loops
    <3>2. ASSUME NEW k \in 1..m PROVE h[k] = F[<<h[k - 1], k>>]
      <4>1. h[k - 1] = g[k - 1]
        OBVIOUS
      <4>2. k # m => g[k] = F[<<g[k - 1], k>>] /\ h[k] = g[k]
        BY <2>1 DEF Loops
      <4>3. k = m => h[k] = F[<<g[m - 1], m>>]
        OBVIOUS
      <4> HIDE DEF h
      <4> QED
        BY <4>1, <4>2, <4>3, Zenon
    <3> QED
      BY <3>1, <3>2, Zenon DEF Loops
  <2> HIDE DEF h
  <2> QED
    BY <2>2, <2>3
<1> HIDE DEF S
<1>3. n \in S
  BY <1>1, <1>2, Upto, n \in 0..n
<1> QED
  BY <1>3 DEF S

\* P[i] is the sum of the first i weights.
PartialSums(P, w, n) == P \in [0..n -> Int] /\ P[0] = 0 /\ \A i \in 1..n : P[i] = P[i - 1] + w[i]

\* Partial sums exist.
LEMMA PrefixExists ==
  ASSUME NEW n \in Nat, NEW w \in [1..n -> Int]
  PROVE  \E P : PartialSums(P, w, n)
<1> DEFINE S == {k \in 0..n : \E P : PartialSums(P, w, k)}
<1>1. 0 \in S
  <2>1. PartialSums([i \in 0..0 |-> 0], w, 0)
    BY DEF PartialSums
  <2> QED
    BY <2>1, 0 \in 0..n
<1>2. ASSUME NEW k \in 1..n, k - 1 \in S PROVE k \in S
  <2>1. PICK P : PartialSums(P, w, k - 1)
    BY <1>2
  <2>2. PartialSums([i \in 0..k |-> IF i = k THEN P[k - 1] + w[k] ELSE P[i]], w, k)
    BY <2>1 DEF PartialSums
  <2> QED
    BY <2>2
<1> HIDE DEF S
<1>3. n \in S
  BY <1>1, <1>2, Upto, n \in 0..n
<1> QED
  BY <1>3 DEF S

\* The sum of a sequence of weights, added up in a loop.
SumOf(w) ==
  LET sum[i \in 0..Len(w)] == IF i = 0 THEN 0 ELSE sum[i - 1] + w[i] IN sum[Len(w)]

\* The loop ends with the last partial sum.
LEMMA SumIsPrefix ==
  ASSUME NEW n \in Nat, NEW w \in [1..n -> Int], NEW P, PartialSums(P, w, n)
  PROVE  SumOf(w) = P[n]
<1>0. w \in Seq(Int) /\ Len(w) = n
  OBVIOUS
<1> DEFINE Adds(f) == f = [i \in 0..n |-> IF i = 0 THEN 0 ELSE f[i - 1] + w[i]]
           sum == CHOOSE f : Adds(f)
<1>1. SumOf(w) = sum[n]
  BY <1>0 DEF SumOf
<1>2. Adds(P)
  BY DEF PartialSums
<1>3. Adds(sum)
  BY <1>2, Zenon
<1> HIDE DEF sum
<1> DEFINE S == {k \in 0..n : sum[k] = P[k]}
<1>4. 0 \in S
  BY <1>3 DEF PartialSums
<1>5. ASSUME NEW k \in 1..n, k - 1 \in S PROVE k \in S
  BY <1>3, <1>5 DEF PartialSums
<1>6. n \in S
  <2> HIDE DEF S
  <2> QED
    BY <1>4, <1>5, Upto, n \in 0..n
<1> QED
  BY <1>1, <1>6

\* A weight at the end adds itself to the sum.
LEMMA SumAppend ==
  ASSUME NEW n \in Nat, NEW w \in [1..n -> Int], NEW v \in [1..n + 1 -> Int],
         \A i \in 1..n : v[i] = w[i]
  PROVE  SumOf(w) \in Int /\ SumOf(v) = SumOf(w) + v[n + 1]
<1>1. PICK P : PartialSums(P, w, n)
  BY PrefixExists
<1> DEFINE Q == [i \in 0..n + 1 |-> IF i = n + 1 THEN P[n] + v[n + 1] ELSE P[i]]
<1>2. PartialSums(Q, v, n + 1)
  BY <1>1 DEF PartialSums
<1>3. Q[n + 1] = P[n] + v[n + 1] /\ P[n] \in Int
  BY <1>1 DEF PartialSums
<1> HIDE DEF Q
<1>4. SumOf(w) = P[n]
  BY <1>1, SumIsPrefix
<1>5. SumOf(v) = Q[n + 1]
  BY <1>2, n + 1 \in Nat, SumIsPrefix
<1> QED
  BY <1>3, <1>4, <1>5

\* So does one in front.
LEMMA SumTail ==
  ASSUME NEW n \in Nat, NEW w \in [1..n -> Int], NEW v \in [1..n + 1 -> Int],
         \A i \in 1..n : w[i] = v[i + 1]
  PROVE  SumOf(w) \in Int /\ SumOf(v) = v[1] + SumOf(w)
<1>1. PICK P : PartialSums(P, w, n)
  BY PrefixExists
<1> DEFINE Q == [i \in 0..n + 1 |-> IF i = 0 THEN 0 ELSE v[1] + P[i - 1]]
<1>2. PartialSums(Q, v, n + 1)
  <2>1. Q \in [0..n + 1 -> Int] /\ Q[0] = 0
    BY <1>1 DEF PartialSums
  <2>2. ASSUME NEW i \in 1..n + 1 PROVE Q[i] = Q[i - 1] + v[i]
    <3>1. CASE i = 1
      BY <1>1, <3>1 DEF PartialSums
    <3>2. CASE i # 1
      <4>1. i - 1 \in 1..n /\ w[i - 1] = v[i]
        BY <3>2
      <4>2. P[i - 1] = P[i - 2] + v[i] /\ P[i - 2] \in Int
        BY <1>1, <3>2, <4>1 DEF PartialSums
      <4> QED
        BY <3>2, <4>1, <4>2
    <3> QED
      BY <3>1, <3>2
  <2> QED
    BY <2>1, <2>2, Zenon DEF PartialSums
<1>3. Q[n + 1] = v[1] + P[n] /\ P[n] \in Int
  BY <1>1 DEF PartialSums
<1> HIDE DEF Q
<1>4. SumOf(w) = P[n]
  BY <1>1, SumIsPrefix, Zenon
<1>5. SumOf(v) = Q[n + 1]
  BY <1>2, n + 1 \in Nat, SumIsPrefix
<1> QED
  BY <1>3, <1>4, <1>5

\* A sequence of no weights has the sum 0.
LEMMA SumEmpty == SumOf(<<>>) = 0
<1>1. <<>> \in [1..0 -> Int]
  OBVIOUS
<1>2. PartialSums([i \in 0..0 |-> 0], <<>>, 0)
  BY DEF PartialSums
<1> QED
  BY <1>1, <1>2, SumIsPrefix

\* Head and Tail of a sequence that is not empty, index by index.
LEMMA HeadTail ==
  ASSUME NEW S, NEW s \in Seq(S), s # <<>>
  PROVE  /\ Head(s) \in S /\ Head(s) = s[1] /\ Tail(s) \in Seq(S) /\ Len(Tail(s)) = Len(s) - 1
         /\ Len(s) \in Nat \ {0} /\ \A i \in 1..Len(s) - 1 : Tail(s)[i] = s[i + 1]
  OBVIOUS

\* Append, index by index.
LEMMA Appended ==
  ASSUME NEW S, NEW s \in Seq(S), NEW x \in S
  PROVE  /\ Append(s, x) \in Seq(S) /\ Len(Append(s, x)) = Len(s) + 1 /\ Len(s) \in Nat
         /\ Append(s, x)[Len(s) + 1] = x /\ \A i \in 1..Len(s) : Append(s, x)[i] = s[i]
  OBVIOUS

\* A sequence cut in two, index by index.
LEMMA CutInTwo ==
  ASSUME NEW S, NEW s \in Seq(S), NEW k \in 0..Len(s)
  PROVE  LET a == SubSeq(s, 1, k)
             b == SubSeq(s, k + 1, Len(s))
         IN  /\ a \in Seq(S) /\ Len(a) = k /\ \A i \in 1..k : a[i] = s[i]
             /\ b \in Seq(S) /\ Len(b) = Len(s) - k /\ \A i \in 1..Len(s) - k : b[i] = s[k + i]
  OBVIOUS

\* The elements of a longer sequence.
LEMMA RangeAppend ==
  ASSUME NEW S, NEW s \in Seq(S), NEW x \in S PROVE Range(Append(s, x)) = Range(s) \cup {x}
<1>1. /\ Len(s) \in Nat /\ DOMAIN s = 1..Len(s) /\ DOMAIN Append(s, x) = 1..Len(s) + 1
      /\ Append(s, x)[Len(s) + 1] = x /\ \A i \in 1..Len(s) : Append(s, x)[i] = s[i]
  BY Appended
<1>2. \A i \in DOMAIN Append(s, x) : i = Len(s) + 1 \/ i \in DOMAIN s
  BY <1>1
<1>3. \A i \in DOMAIN s : i \in DOMAIN Append(s, x)
  BY <1>1
<1>4. Len(s) + 1 \in DOMAIN Append(s, x)
  BY <1>1
<1> QED
  BY <1>1, <1>2, <1>3, <1>4 DEF Range
=============================================================================
