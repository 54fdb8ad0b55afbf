---------------------------- MODULE SequenceLemmas ----------------------------
(***************************************************************************)
(* Lemmas about the operators on sequences, and on sets of positions, that *)
(* the models take from the community modules, and about sets of numbers:  *)
(* induction over the members of a set, and recursion with a function.     *)
(***************************************************************************)
EXTENDS Naturals, Integers, Sequences, SequencesExt, FiniteSetsExt, SequenceTheorems,
        WellFoundedInduction, FunctionTheorems, FiniteSetTheorems, TLAPS

\* A set of positions that is not empty has a first one.
LEMMA FirstPosition ==
    ASSUME NEW S, S \subseteq Nat, S # {}
    PROVE  Min(S) \in S /\ \A i \in S : Min(S) <= i
<1>1. PICK m \in S : \A y \in S : ~(<<y, m>> \in OpToRel(<, Nat))
    BY NatLessThanWellFounded, WFMin, Zenon
<1>2. \A y \in S : ~(y < m)
  <2> TAKE y \in S
  <2>1. <<y, m>> \notin OpToRel(<, Nat)
    BY <1>1
  <2> QED
    BY <2>1 DEF OpToRel
<1>3. \A y \in S : m =< y
    BY <1>2
<1>4. \E x \in S : \A y \in S : x =< y
    BY <1>3
<1> QED
    BY <1>4 DEF Min

\* A set of positions of a sequence that is not empty has a last one.
LEMMA LastPosition ==
    ASSUME NEW n \in Nat, NEW S, S \subseteq 1 .. n, S # {}
    PROVE  Max(S) \in S /\ \A i \in S : i <= Max(S)
<1> DEFINE T == {n - i : i \in S}
<1>1. T \subseteq Nat
  <2> SUFFICES ASSUME NEW i \in S PROVE n - i \in Nat
    OBVIOUS
  <2>1. i \in 1 .. n
    OBVIOUS
  <2> QED
    BY <2>1
<1>2. T # {}
    OBVIOUS
<1> HIDE DEF T
<1>3. Min(T) \in T /\ \A y \in T : Min(T) <= y
    BY <1>1, <1>2, FirstPosition
<1>4. PICK m \in S : Min(T) = n - m
    BY <1>3 DEF T
<1>5. \A i \in S : m >= i
  <2> TAKE i \in S
  <2>1. n - i \in T
    BY DEF T
  <2>2. n - m <= n - i /\ i \in 1 .. n /\ m \in 1 .. n
    BY <1>3, <1>4, <2>1
  <2> QED
    BY <2>2
<1>6. Max(S) \in S /\ \A i \in S : Max(S) >= i
    BY <1>5 DEF Max
<1>7. S \subseteq Int
    OBVIOUS
<1> QED
    BY <1>6, <1>7

\* What a sequence becomes when an element is put in at a place.
LEMMA InsertAtProperties ==
    ASSUME NEW S, NEW s \in Seq(S), NEW e \in S, NEW k \in 1 .. Len(s) + 1
    PROVE  /\ InsertAt(s, k, e) \in Seq(S)
           /\ Len(InsertAt(s, k, e)) = Len(s) + 1
           /\ \A i \in 1 .. Len(s) + 1 :
                InsertAt(s, k, e)[i] =
                    IF i < k THEN s[i] ELSE IF i = k THEN e ELSE s[i - 1]
<1> DEFINE n == Len(s)
           a == SubSeq(s, 1, k - 1)
           b == SubSeq(s, k, n)
           ae == a \o <<e>>
<1>1. n \in Nat /\ \A i \in 1 .. n : s[i] \in S
    OBVIOUS
<1>2. /\ a \in Seq(S) /\ Len(a) = k - 1
      /\ \A i \in 1 .. k - 1 : a[i] = s[i]
    BY <1>1, SubSeqProperties
<1>3. /\ b \in Seq(S) /\ Len(b) = n - k + 1
      /\ \A i \in 1 .. n - k + 1 : b[i] = s[k + i - 1]
    BY <1>1, SubSeqProperties
<1>4. <<e>> \in Seq(S) /\ Len(<<e>>) = 1 /\ <<e>>[1] = e
    OBVIOUS
<1> HIDE DEF a, b
<1>5. /\ ae \in Seq(S) /\ Len(ae) = k
      /\ \A i \in 1 .. k : ae[i] = IF i <= k - 1 THEN a[i] ELSE <<e>>[i - (k - 1)]
    BY <1>2, <1>4, ConcatProperties
<1>6. \A i \in 1 .. k : ae[i] = IF i < k THEN s[i] ELSE e
    BY <1>2, <1>4, <1>5
<1> HIDE DEF ae
<1>7. /\ ae \o b \in Seq(S) /\ Len(ae \o b) = n + 1
      /\ \A i \in 1 .. n + 1 : (ae \o b)[i] = IF i <= k THEN ae[i] ELSE b[i - k]
  <2>1. /\ ae \o b \in Seq(S) /\ Len(ae \o b) = Len(ae) + Len(b)
        /\ \A i \in 1 .. Len(ae) + Len(b) :
                (ae \o b)[i] = IF i <= Len(ae) THEN ae[i] ELSE b[i - Len(ae)]
    BY <1>3, <1>5, ConcatProperties
  <2>2. Len(ae) = k /\ Len(ae) + Len(b) = n + 1
    BY <1>1, <1>3, <1>5
  <2> QED
    BY <2>1, <2>2
<1>8. InsertAt(s, k, e) = ae \o b
    BY DEF InsertAt, ae, a, b
<1>9. \A i \in 1 .. n + 1 : i > k => b[i - k] = s[i - 1]
  <2> SUFFICES ASSUME NEW i \in 1 .. n + 1, i > k PROVE b[i - k] = s[i - 1]
    OBVIOUS
  <2>1. i - k \in 1 .. n - k + 1 /\ k + (i - k) - 1 = i - 1
    BY <1>1
  <2> QED
    BY <1>3, <2>1
<1>10. \A i \in 1 .. n + 1 :
        (ae \o b)[i] = IF i < k THEN s[i] ELSE IF i = k THEN e ELSE s[i - 1]
  <2> TAKE i \in 1 .. n + 1
  <2>1. CASE i <= k
    BY <1>1, <1>6, <1>7, <2>1
  <2>2. CASE i > k
    BY <1>1, <1>7, <1>9, <2>2
  <2>3. i <= k \/ i > k
    BY <1>1
  <2> QED
    BY <2>1, <2>2, <2>3, Zenon
<1>11. ae \o b \in Seq(S) /\ Len(ae \o b) = Len(s) + 1
    BY <1>7
<1> HIDE DEF n
<1> QED
    BY <1>8, <1>10, <1>11 DEF n

\* What a sequence becomes when the element at a place is taken out.
LEMMA RemoveAtProperties ==
    ASSUME NEW S, NEW s \in Seq(S), NEW k \in 1 .. Len(s)
    PROVE  /\ RemoveAt(s, k) \in Seq(S)
           /\ Len(RemoveAt(s, k)) = Len(s) - 1
           /\ \A i \in 1 .. Len(s) - 1 :
                RemoveAt(s, k)[i] = IF i < k THEN s[i] ELSE s[i + 1]
<1> DEFINE n == Len(s)
           a == SubSeq(s, 1, k - 1)
           b == SubSeq(s, k + 1, n)
<1>1. n \in Nat /\ \A i \in 1 .. n : s[i] \in S
    OBVIOUS
<1>2. /\ a \in Seq(S) /\ Len(a) = k - 1
      /\ \A i \in 1 .. k - 1 : a[i] = s[i]
    BY <1>1, SubSeqProperties
<1>3. /\ b \in Seq(S) /\ Len(b) = n - k
      /\ \A i \in 1 .. n - k : b[i] = s[k + i]
  <2>1. /\ b \in Seq(S)
        /\ Len(b) = IF k + 1 <= n THEN n - (k + 1) + 1 ELSE 0
        /\ \A i \in 1 .. n - (k + 1) + 1 : b[i] = s[(k + 1) + i - 1]
    BY <1>1, SubSeqProperties
  <2> HIDE DEF b
  <2>2. n - (k + 1) + 1 = n - k /\ \A i \in 1 .. n - k : (k + 1) + i - 1 = k + i
    BY <1>1
  <2>3. IF k + 1 <= n THEN TRUE ELSE n - k = 0
    BY <1>1
  <2> QED
    BY <2>1, <2>2, <2>3
<1> HIDE DEF a, b
<1>4. /\ a \o b \in Seq(S) /\ Len(a \o b) = n - 1
      /\ \A i \in 1 .. n - 1 :
            (a \o b)[i] = IF i <= k - 1 THEN a[i] ELSE b[i - (k - 1)]
  <2>1. /\ a \o b \in Seq(S) /\ Len(a \o b) = Len(a) + Len(b)
        /\ \A i \in 1 .. Len(a) + Len(b) :
                (a \o b)[i] = IF i <= Len(a) THEN a[i] ELSE b[i - Len(a)]
    BY <1>2, <1>3, ConcatProperties
  <2>2. Len(a) = k - 1 /\ Len(a) + Len(b) = n - 1
    BY <1>1, <1>2, <1>3
  <2> QED
    BY <2>1, <2>2
<1>5. RemoveAt(s, k) = a \o b
    BY DEF RemoveAt, a, b
<1>6. \A i \in 1 .. n - 1 : i >= k => b[i - (k - 1)] = s[i + 1]
  <2> SUFFICES ASSUME NEW i \in 1 .. n - 1, i >= k PROVE b[i - (k - 1)] = s[i + 1]
    OBVIOUS
  <2>1. i - (k - 1) \in 1 .. n - k /\ k + (i - (k - 1)) = i + 1
    BY <1>1
  <2> QED
    BY <1>3, <2>1
<1>7. \A i \in 1 .. n - 1 : (a \o b)[i] = IF i < k THEN s[i] ELSE s[i + 1]
  <2> TAKE i \in 1 .. n - 1
  <2>1. CASE i < k
    BY <1>1, <1>2, <1>4, <2>1
  <2>2. CASE i >= k
    BY <1>1, <1>4, <1>6, <2>2
  <2>3. i < k \/ i >= k
    BY <1>1
  <2> QED
    BY <2>1, <2>2, <2>3, Zenon
<1>8. a \o b \in Seq(S) /\ Len(a \o b) = Len(s) - 1
    BY <1>4
<1> HIDE DEF n
<1> QED
    BY <1>5, <1>7, <1>8 DEF n
-------------------------------------------------------------------------------
\* A bounded set of numbers that is not empty has a greatest one.
LEMMA GreatestNumber ==
    ASSUME NEW T \in SUBSET Nat, T # {}, NEW n \in Nat, \A x \in T : x <= n
    PROVE  \E x \in T : \A y \in T : x >= y
<1> DEFINE U == {n - x : x \in T}
<1>1. U \subseteq Nat /\ U # {}
  <2>1. ASSUME NEW x \in T PROVE n - x \in Nat
    OBVIOUS
  <2> QED
    BY <2>1
<1> HIDE DEF U
<1>2. Min(U) \in U /\ \A v \in U : Min(U) <= v
  BY <1>1, FirstPosition
<1>3. PICK x \in T : Min(U) = n - x
  BY <1>2 DEF U
<1>4. ASSUME NEW y \in T PROVE x >= y
  <2>1. n - y \in U
    BY DEF U
  <2>2. n - x <= n - y
    BY <1>2, <1>3, <2>1
  <2> QED
    BY <2>2
<1> QED
  BY <1>4

\* Induction over numbers, over the members of a set.
LEMMA AllNumbers ==
    ASSUME NEW T, 0 \in T, \A n \in Nat : n \in T => n + 1 \in T
    PROVE  \A n \in Nat : n \in T
<1> SUFFICES ASSUME {n \in Nat : n \notin T} # {} PROVE FALSE
  OBVIOUS
<1> DEFINE U == {n \in Nat : n \notin T}
<1>1. PICK x : x = Min(U)
  OBVIOUS
<1>2. x \in U /\ \A y \in U : x <= y
  BY <1>1, FirstPosition
<1>3. x \in Nat /\ x # 0 /\ x \notin T
  BY <1>2
<1>4. x - 1 \in Nat /\ ~(x <= x - 1) /\ x - 1 + 1 = x
  BY <1>3
<1> QED
  BY <1>2, <1>3, <1>4

\* The values up to n are defined by the first and by a step from each to the next.
Iterates(f, x, g, n) == f[0] = x /\ \A i \in Nat : i < n => f[i + 1] = g[<<i, f[i]>>]

LEMMA IteratesOnce ==
    ASSUME NEW x, NEW g, NEW n \in Nat, NEW m \in Nat, NEW f, NEW k,
           Iterates(f, x, g, n), Iterates(k, x, g, m)
    PROVE  \A i \in Nat : i <= n /\ i <= m => f[i] = k[i]
<1> DEFINE T == {i \in Nat : i <= n /\ i <= m => f[i] = k[i]}
<1>1. 0 \in T
  BY DEF Iterates
<1>2. ASSUME NEW i \in Nat, i \in T PROVE i + 1 \in T
  <2> SUFFICES ASSUME i + 1 <= n, i + 1 <= m PROVE f[i + 1] = k[i + 1]
    OBVIOUS
  <2>1. i < n /\ i < m /\ i <= n /\ i <= m
    OBVIOUS
  <2>2. f[i] = k[i]
    BY <1>2, <2>1
  <2>3. f[i + 1] = g[<<i, f[i]>>] /\ k[i + 1] = g[<<i, k[i]>>]
    BY <2>1 DEF Iterates
  <2> QED
    BY <2>2, <2>3
<1> HIDE DEF T
<1>3. \A i \in Nat : i \in T
  BY <1>1, <1>2, AllNumbers
<1> QED
  BY <1>3 DEF T

\* What is defined by its first value and by a step from each value to the next.
Unfolded(S, x, g) == [n \in Nat |-> (CHOOSE f \in [Nat -> S] : Iterates(f, x, g, n))[n]]

LEMMA Recursion ==
    ASSUME NEW S, NEW x, NEW g, x \in S,
           \A i \in Nat : \A v \in S : g[<<i, v>>] \in S
    PROVE  /\ \A i \in Nat : Unfolded(S, x, g)[i] \in S
           /\ Unfolded(S, x, g)[0] = x
           /\ \A i \in Nat : Unfolded(S, x, g)[i + 1] = g[<<i, Unfolded(S, x, g)[i]>>]
<1>1. \A n \in Nat : \E f \in [Nat -> S] : Iterates(f, x, g, n)
  <2> DEFINE T == {n \in Nat : \E f \in [Nat -> S] : Iterates(f, x, g, n)}
  <2>1. 0 \in T
    <3>1. [i \in Nat |-> x] \in [Nat -> S] /\ Iterates([i \in Nat |-> x], x, g, 0)
      BY DEF Iterates
    <3> QED
      BY <3>1
  <2>2. ASSUME NEW n \in Nat, n \in T PROVE n + 1 \in T
    <3>1. PICK f \in [Nat -> S] : Iterates(f, x, g, n)
      BY <2>2
    <3>2. PICK v \in S : v = g[<<n, f[n]>>]
      OBVIOUS
    <3> DEFINE k == [f EXCEPT ![n + 1] = v]
    <3>3. k \in [Nat -> S] /\ k[n + 1] = v /\ \A i \in Nat : i # n + 1 => k[i] = f[i]
      BY <3>2
    <3> HIDE DEF k
    <3>4. k[0] = x
      BY <3>1, <3>3 DEF Iterates
    <3>5. ASSUME NEW i \in Nat, i < n + 1 PROVE k[i + 1] = g[<<i, k[i]>>]
      <4>1. k[i] = f[i]
        BY <3>3, <3>5
      <4>2. CASE i = n
        BY <3>2, <3>3, <4>1, <4>2
      <4>3. CASE i < n
        <5>1. i + 1 # n + 1 /\ i + 1 \in Nat
          BY <4>3
        <5>2. k[i + 1] = f[i + 1]
          BY <3>3, <5>1
        <5> QED
          BY <3>1, <4>1, <4>3, <5>2 DEF Iterates
      <4> QED
        BY <3>5, <4>2, <4>3
    <3> QED
      BY <3>3, <3>4, <3>5 DEF Iterates
  <2> HIDE DEF T
  <2>3. \A n \in Nat : n \in T
    BY <2>1, <2>2, AllNumbers
  <2> QED
    BY <2>3 DEF T
<1> DEFINE F(n) == CHOOSE f \in [Nat -> S] : Iterates(f, x, g, n)
           h == Unfolded(S, x, g)
<1>2. \A n \in Nat : Iterates(F(n), x, g, n) /\ h[n] = F(n)[n]
  BY <1>1 DEF Unfolded
<1> HIDE DEF F, h
<1>3. h[0] = x
  BY <1>2 DEF Iterates
<1>4. ASSUME NEW i \in Nat PROVE h[i + 1] = g[<<i, h[i]>>]
  <2>1. i \in Nat /\ i + 1 \in Nat /\ i < i + 1 /\ i <= i + 1 /\ i <= i
    OBVIOUS
  <2>2. /\ Iterates(F(i + 1), x, g, i + 1) /\ h[i + 1] = F(i + 1)[i + 1]
        /\ Iterates(F(i), x, g, i) /\ h[i] = F(i)[i]
    BY ONLY <1>2, <2>1
  <2>3. F(i + 1)[i + 1] = g[<<i, F(i + 1)[i]>>]
    BY <2>1, <2>2 DEF Iterates
  <2>4. F(i + 1)[i] = F(i)[i]
    BY <2>1, <2>2, IteratesOnce
  <2> QED
    BY <2>2, <2>3, <2>4
<1>5. \A i \in Nat : h[i] \in S
  <2> DEFINE T == {i \in Nat : h[i] \in S}
  <2>1. 0 \in T
    BY <1>3
  <2>2. ASSUME NEW i \in Nat, i \in T PROVE i + 1 \in T
    <3>1. h[i] \in S /\ h[i + 1] = g[<<i, h[i]>>]
      BY <1>4, <2>2
    <3>2. g[<<i, h[i]>>] \in S
      BY <3>1
    <3> QED
      BY <3>1, <3>2
  <2> HIDE DEF T
  <2>3. \A i \in Nat : i \in T
    BY <2>1, <2>2, AllNumbers
  <2> QED
    BY <2>3 DEF T
<1> QED
  BY <1>3, <1>4, <1>5 DEF h

\* The same for numbers.
LEMMA NumberRecursion ==
    ASSUME NEW x \in Nat, NEW g \in [Nat \X Nat -> Nat]
    PROVE  \E h \in [Nat -> Nat] : h[0] = x /\ \A i \in Nat : h[i + 1] = g[<<i, h[i]>>]
<1> DEFINE h == Unfolded(Nat, x, g)
<1>1. \A i \in Nat : \A v \in Nat : g[<<i, v>>] \in Nat
  OBVIOUS
<1>2. /\ \A i \in Nat : h[i] \in Nat
      /\ h[0] = x /\ \A i \in Nat : h[i + 1] = g[<<i, h[i]>>]
  BY ONLY x \in Nat, <1>1, Recursion
<1>3. h = [n \in Nat |-> h[n]]
  BY DEF Unfolded
<1> HIDE DEF h
<1>4. h \in [Nat -> Nat]
  BY <1>2, <1>3
<1> QED
  BY <1>2, <1>4

-------------------------------------------------------------------------------
\* What a sequence behind another one holds.
LEMMA TwoSequences ==
    ASSUME NEW S, NEW a \in Seq(S), NEW b \in Seq(S)
    PROVE  ToSet(a \o b) = ToSet(a) \cup ToSet(b)
<1>1. /\ Len(a) \in Nat /\ DOMAIN a = 1 .. Len(a)
      /\ Len(b) \in Nat /\ DOMAIN b = 1 .. Len(b)
      /\ DOMAIN (a \o b) = 1 .. Len(a) + Len(b)
      /\ \A i \in 1 .. Len(a) + Len(b) :
            (a \o b)[i] = IF i <= Len(a) THEN a[i] ELSE b[i - Len(a)]
  OBVIOUS
<1>2. ASSUME NEW i \in 1 .. Len(a) + Len(b)
      PROVE  (a \o b)[i] \in ToSet(a) \cup ToSet(b)
  <2>1. CASE i <= Len(a)
    BY <1>1, <2>1 DEF ToSet
  <2>2. CASE ~(i <= Len(a))
    <3>1. i - Len(a) \in 1 .. Len(b)
      BY <1>1, <2>2
    <3> QED
      BY <1>1, <2>2, <3>1 DEF ToSet
  <2> QED
    BY <2>1, <2>2
<1>3. ASSUME NEW i \in 1 .. Len(a) PROVE a[i] \in ToSet(a \o b)
  <2>1. i \in 1 .. Len(a) + Len(b) /\ (a \o b)[i] = a[i]
    BY <1>1
  <2> QED
    BY <1>1, <2>1 DEF ToSet
<1>4. ASSUME NEW i \in 1 .. Len(b) PROVE b[i] \in ToSet(a \o b)
  <2>1. /\ i + Len(a) \in 1 .. Len(a) + Len(b) /\ ~(i + Len(a) <= Len(a))
        /\ (i + Len(a)) - Len(a) = i
    BY <1>1
  <2>2. (a \o b)[i + Len(a)] = b[i]
    BY <1>1, <2>1
  <2> QED
    BY <1>1, <2>1, <2>2 DEF ToSet
<1> QED
  BY <1>1, <1>2, <1>3, <1>4 DEF ToSet

\* Sequences one behind the other hold what each of them holds.
LEMMA Flattened ==
    ASSUME NEW S, NEW seqs \in Seq(Seq(S))
    PROVE  /\ FlattenSeq(seqs) \in Seq(S)
           /\ ToSet(FlattenSeq(seqs)) = UNION {ToSet(seqs[i]) : i \in 1 .. Len(seqs)}
<1> DEFINE n == Len(seqs)
           flatten[i \in 1 .. Len(seqs)] ==
              IF i = 1 THEN seqs[i] ELSE flatten[i - 1] \o seqs[i]
<1>1. FlattenSeq(seqs) = IF Len(seqs) = 0 THEN seqs ELSE flatten[Len(seqs)]
  BY DEF FlattenSeq
<1>2. n \in Nat /\ \A i \in 1 .. n : seqs[i] \in Seq(S)
  OBVIOUS
<1>3. CASE n = 0
  <2>1. seqs = <<>> /\ 1 .. n = {} /\ DOMAIN seqs = {}
    BY <1>3
  <2>2. FlattenSeq(seqs) = <<>> /\ ToSet(<<>>) = {}
    BY <1>1, <2>1 DEF ToSet
  <2>3. {} \in SUBSET S /\ UNION {ToSet(seqs[i]) : i \in 1 .. n} = {} /\ <<>> \in Seq(S)
    BY <2>1
  <2> HIDE DEF flatten
  <2> QED
    BY <2>2, <2>3
<1>4. CASE n # 0
  <2>1. \E f : f = [i \in 1 .. Len(seqs) |-> IF i = 1 THEN seqs[i] ELSE f[i - 1] \o seqs[i]]
    <3> DEFINE g == [p \in Nat \X Seq(S) |->
                        IF p[1] + 2 <= n THEN p[2] \o seqs[p[1] + 2] ELSE p[2]]
    <3>1. \A i \in Nat, v \in Seq(S) :
            g[<<i, v>>] = IF i + 2 <= n THEN v \o seqs[i + 2] ELSE v
      OBVIOUS
    <3>2. \A i \in Nat, v \in Seq(S) : g[<<i, v>>] \in Seq(S)
      <4> SUFFICES ASSUME NEW i \in Nat, NEW v \in Seq(S), i + 2 <= n
                   PROVE  v \o seqs[i + 2] \in Seq(S)
        BY <3>1
      <4>1. i + 2 \in 1 .. n
        BY <1>2
      <4> QED
        BY <1>2, <4>1
    <3>3. g \in [Nat \X Seq(S) -> Seq(S)]
      BY <3>2
    <3> HIDE DEF g
    <3>4. seqs[1] \in Seq(S)
      BY <1>2, <1>4
    <3> DEFINE h == Unfolded(Seq(S), seqs[1], g)
    <3>5. /\ \A i \in Nat : h[i] \in Seq(S)
          /\ h[0] = seqs[1] /\ \A i \in Nat : h[i + 1] = g[<<i, h[i]>>]
      BY ONLY <3>2, <3>4, Recursion
    <3> HIDE DEF h
    <3> DEFINE f == [i \in 1 .. Len(seqs) |-> h[i - 1]]
    <3>9. ASSUME NEW i \in 1 .. n, i # 1 PROVE f[i] = f[i - 1] \o seqs[i]
      <4>1. /\ i - 2 \in Nat /\ i - 1 \in 1 .. n /\ (i - 2) + 1 = i - 1
            /\ (i - 2) + 2 = i /\ (i - 1) - 1 = i - 2 /\ i <= n
        BY <1>2, <3>9
      <4>2. f[i] = h[i - 1] /\ f[i - 1] = h[i - 2]
        BY <4>1
      <4>3. h[i - 1] = g[<<i - 2, h[i - 2]>>] /\ h[i - 2] \in Seq(S)
        BY <3>5, <4>1
      <4>4. g[<<i - 2, h[i - 2]>>] = h[i - 2] \o seqs[i]
        BY <3>1, <4>1, <4>3
      <4> QED
        BY <4>2, <4>3, <4>4
    <3>10. f[1] = seqs[1]
      <4>1. 1 \in 1 .. Len(seqs) /\ 1 - 1 = 0
        BY <1>2, <1>4
      <4> QED
        BY <3>5, <4>1
    <3>11. f = [i \in 1 .. Len(seqs) |-> f[i]]
      OBVIOUS
    <3> HIDE DEF f
    <3>12. f = [i \in 1 .. Len(seqs) |-> IF i = 1 THEN seqs[i] ELSE f[i - 1] \o seqs[i]]
      BY <3>9, <3>10, <3>11
    <3> QED
      BY <3>12
  <2>2. flatten = [i \in 1 .. Len(seqs) |-> IF i = 1 THEN seqs[i] ELSE flatten[i - 1] \o seqs[i]]
    BY <2>1
  <2> HIDE DEF flatten
  <2>3. /\ flatten[1] = seqs[1]
        /\ \A i \in 1 .. n : i # 1 => flatten[i] = flatten[i - 1] \o seqs[i]
    <3>1. \A i \in 1 .. n : flatten[i] = IF i = 1 THEN seqs[i] ELSE flatten[i - 1] \o seqs[i]
      BY <2>2
    <3>2. 1 \in 1 .. n
      BY <1>2, <1>4
    <3> QED
      BY <3>1, <3>2
  <2> DEFINE Good(i) == /\ flatten[i] \in Seq(S)
                        /\ ToSet(flatten[i]) = UNION {ToSet(seqs[k]) : k \in 1 .. i}
             T == {i \in Nat : i + 1 <= n => Good(i + 1)}
  <2>4. 0 \in T
    <3>1. 1 .. 1 = {1} /\ 1 \in 1 .. n
      BY <1>2, <1>4
    <3>2. Good(1)
      BY <1>2, <2>3, <3>1
    <3> HIDE DEF Good
    <3> QED
      BY <3>2
  <2>5. ASSUME NEW i \in Nat, i \in T PROVE i + 1 \in T
    <3> SUFFICES ASSUME (i + 1) + 1 <= n PROVE Good((i + 1) + 1)
      OBVIOUS
    <3> DEFINE j == i + 1
               k == j + 1
    <3>1. j \in 1 .. n /\ k \in 1 .. n /\ k # 1 /\ k - 1 = j /\ 1 .. k = (1 .. j) \cup {k}
      BY <1>2
    <3>2. Good(j)
      BY <2>5, <3>1
    <3>3. flatten[k] = flatten[j] \o seqs[k]
      BY <2>3, <3>1
    <3> HIDE DEF j, k
    <3>4. flatten[j] \in Seq(S) /\ seqs[k] \in Seq(S)
      BY <1>2, <3>1, <3>2
    <3>5. flatten[k] \in Seq(S)
      BY <3>3, <3>4
    <3>6. ToSet(flatten[k]) = ToSet(flatten[j]) \cup ToSet(seqs[k])
      BY <3>3, <3>4, TwoSequences
    <3>7. UNION {ToSet(seqs[l]) : l \in 1 .. k} =
            (UNION {ToSet(seqs[l]) : l \in 1 .. j}) \cup ToSet(seqs[k])
      <4> HIDE DEF n
      <4>1. \A x : (\E l \in 1 .. k : x \in ToSet(seqs[l])) <=>
                      \/ \E l \in 1 .. j : x \in ToSet(seqs[l])
                      \/ x \in ToSet(seqs[k])
        BY <3>1
      <4> QED
        BY <4>1
    <3>8. Good(k)
      BY <3>2, <3>5, <3>6, <3>7
    <3> QED
      BY <3>8 DEF k, j
  <2> HIDE DEF T, Good
  <2>5a. \A i \in Nat : i \in T
    BY <2>4, <2>5, AllNumbers
  <2>6. n - 1 \in T /\ (n - 1) + 1 = n
    BY <1>2, <1>4, <2>5a
  <2>7. Good(n)
    BY <2>6 DEF T
  <2>8. FlattenSeq(seqs) = flatten[n]
    BY <1>1, <1>4
  <2> QED
    BY <2>7, <2>8 DEF Good
<1> QED
  BY <1>3, <1>4

-------------------------------------------------------------------------------
\* A sequence that holds nothing twice is as long as the set of what it holds.
LEMMA NothingTwice ==
    ASSUME NEW S, NEW q \in Seq(S), IsInjective(q)
    PROVE  IsFiniteSet(ToSet(q)) /\ Cardinality(ToSet(q)) = Len(q)
<1>1. q \in [1 .. Len(q) -> ToSet(q)] /\ Len(q) \in Nat /\ DOMAIN q = 1 .. Len(q)
  BY DEF ToSet
<1>2. \A y \in ToSet(q) : \E i \in 1 .. Len(q) : q[i] = y
  BY <1>1 DEF ToSet
<1>3. q \in Bijection(1 .. Len(q), ToSet(q))
  BY <1>1, <1>2 DEF IsInjective, Bijection, Injection, Surjection
<1>4. ExistsBijection(1 .. Len(q), ToSet(q))
  BY <1>3 DEF ExistsBijection
<1>5. IsFiniteSet(1 .. Len(q)) /\ Cardinality(1 .. Len(q)) = Len(q)
  <2>1. IsFiniteSet(1 .. Len(q)) /\
          Cardinality(1 .. Len(q)) = IF 1 > Len(q) THEN 0 ELSE Len(q) - 1 + 1
    BY <1>1, FS_Interval
  <2> QED
    BY <1>1, <2>1
<1> QED
  BY <1>4, <1>5, FS_Bijection

===============================================================================
