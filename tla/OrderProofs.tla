------------------------------ MODULE OrderProofs ------------------------------
(***************************************************************************)
(* Theorems about the two orders in which the engine puts what declares    *)
(* what it is to come before and behind: ModuleOrder, for every set of sub *)
(* modules and everything they may declare of each other, and              *)
(* PipelineResolve, for all pipelines, whatever they mount and declare: at *)
(* every moment the list is in an order that respects all declarations.    *)
(* Of resolve() also that it fails only if there is no such order, that    *)
(* the dependencies it leaves behind keep the stages in order, and that    *)
(* the pipelines of the engine, the constants of MCPipelineResolve, are    *)
(* resolved to what the run time assumes.                                  *)
(***************************************************************************)
EXTENDS MCPipelineResolve, SequenceLemmas

\* Without its type, OrderedIfAddedInOrder is not inductive: where a module is put
\* depends on every module standing at one place only.
OrderInv == OrderTypeOK /\ OrderedIfAddedInOrder

\* Where addSubModule() puts a module: inside the list or at its end, and behind
\* everything that is to precede it.
LEMMA PlaceProperties ==
    ASSUME subModules \in Seq(SubKey), NEW m \in SubKey
    PROVE  /\ Place(m) \in 1 .. Len(subModules) + 1
           /\ \A i \in 1 .. Len(subModules) :
                subModules[i] \in Predecessors(m) => i < Place(m)
<1> DEFINE S == {i \in DOMAIN subModules : subModules[i] \in Predecessors(m)}
<1>1. Len(subModules) \in Nat /\ S \subseteq 1 .. Len(subModules)
    OBVIOUS
<1>2. CASE Predecessors(m) = {}
    BY <1>1, <1>2 DEF Place
<1>3. CASE Predecessors(m) # {}
  <2>1. S # {}
    BY <1>3 DEF Predecessors, ToSet
  <2>2. Max(S) \in S /\ \A i \in S : i <= Max(S)
    BY <1>1, <2>1, LastPosition, Zenon
  <2>3. Place(m) = Max(S) + 1
    BY <1>3 DEF Place
  <2>4. \A i \in 1 .. Len(subModules) : subModules[i] \in Predecessors(m) => i \in S
    BY <1>1
  <2>5. Max(S) \in 1 .. Len(subModules)
    BY <1>1, <2>2
  <2> HIDE DEF S
  <2> QED
    BY <1>1, <2>2, <2>3, <2>4, <2>5
<1> QED
    BY <1>2, <1>3

\* Nothing has been added yet.
LEMMA OrderInitial == OrderInit => OrderInv
    BY KeysAssumption
    DEF OrderInit, NoneAdded, OrderInv, OrderTypeOK, OrderedIfAddedInOrder, IsInjective

\* A module that is added finds everything that is to precede it in front, and
\* whatever stands behind it was there before.
LEMMA AddOrdered ==
    ASSUME OrderInv, NEW m \in SubKey, addSubModule(m)
    PROVE  OrderInv'
<1> DEFINE n == Len(subModules)
           k == Place(m)
<1>1. subModules \in Seq(SubKey) /\ n \in Nat
    BY DEF OrderInv, OrderTypeOK
<1>2. /\ k \in 1 .. n + 1
      /\ \A i \in 1 .. n : subModules[i] \in Predecessors(m) => i < k
    BY <1>1, PlaceProperties
<1>3. /\ subModules' \in Seq(SubKey)
      /\ Len(subModules') = n + 1
      /\ \A i \in 1 .. n + 1 :
            subModules'[i] = IF i < k THEN subModules[i]
                             ELSE IF i = k THEN m ELSE subModules[i - 1]
  <2>1. subModules' = InsertAt(subModules, k, m)
    BY DEF addSubModule
  <2>2. subModules \in Seq(SubKey) /\ m \in SubKey /\ k \in 1 .. Len(subModules) + 1
    BY <1>1, <1>2
  <2> HIDE DEF k
  <2>3. /\ InsertAt(subModules, k, m) \in Seq(SubKey)
        /\ Len(InsertAt(subModules, k, m)) = Len(subModules) + 1
        /\ \A i \in 1 .. Len(subModules) + 1 :
            InsertAt(subModules, k, m)[i] =
                IF i < k THEN subModules[i]
                ELSE IF i = k THEN m ELSE subModules[i - 1]
    BY ONLY <2>2, InsertAtProperties, SMTT(30)
  <2> QED
    BY <2>1, <2>3
<1>4. \A i, j \in 1 .. n : subModules[i] = subModules[j] => i = j
    BY <1>1 DEF OrderInv, OrderTypeOK, IsInjective
<1>5. \A i \in 1 .. n : subModules[i] # m /\ subModules[i] \in ToSet(subModules)
    BY <1>1 DEF addSubModule, ToSet
<1>6. IsInjective(subModules')
  <2> SUFFICES ASSUME NEW i \in 1 .. n + 1, NEW j \in 1 .. n + 1,
                      subModules'[i] = subModules'[j], i # j
               PROVE  FALSE
    BY <1>1, <1>3 DEF IsInjective
  <2> HIDE DEF k, n
  <2>1. CASE i # k /\ j # k
    <3> DEFINE p == IF i < k THEN i ELSE i - 1
               q == IF j < k THEN j ELSE j - 1
    <3>1. p \in 1 .. n /\ q \in 1 .. n /\ p # q
      BY <1>1, <1>2, <2>1
    <3>2. subModules'[i] = subModules[p] /\ subModules'[j] = subModules[q]
      BY <1>2, <1>3, <2>1
    <3> QED
      BY <1>4, <3>1, <3>2
  <2>2. CASE i = k \/ j = k
    BY <1>1, <1>2, <1>3, <1>5, <2>2
  <2> QED
    BY <2>1, <2>2
<1>7. known' \in [SubKey -> SUBSET SubKey] /\ deps' = deps /\ deps \in Declaration
    BY <1>1 DEF OrderInv, OrderTypeOK, addSubModule, ToSet
<1>8. OrderedIfAddedInOrder'
  <2> SUFFICES ASSUME NEW i \in 1 .. n + 1, NEW j \in 1 .. n + 1, i < j,
                      Declares(subModules'[j], subModules'[i])
               PROVE  subModules'[i] \in known'[subModules'[j]]
    BY <1>3, <1>7 DEF OrderedIfAddedInOrder, Declares
  <2> HIDE DEF k, n
  <2>1. CASE i # k /\ j # k
    <3> DEFINE p == IF i < k THEN i ELSE i - 1
               q == IF j < k THEN j ELSE j - 1
    <3>1. p \in 1 .. n /\ q \in 1 .. n /\ p < q
      BY <1>1, <1>2, <2>1
    <3>2. subModules'[i] = subModules[p] /\ subModules'[j] = subModules[q]
      BY <1>2, <1>3, <2>1
    <3>3. subModules[p] \in known[subModules[q]]
      BY <1>1, <3>1, <3>2 DEF OrderInv, OrderedIfAddedInOrder, n
    <3>4. subModules[q] # m /\ subModules[q] \in SubKey
      BY <1>1, <1>5, <3>1 DEF n
    <3>5. known'[subModules[q]] = known[subModules[q]]
      BY <3>4 DEF addSubModule, OrderInv, OrderTypeOK
    <3> QED
      BY <3>2, <3>3, <3>5
  <2>2. CASE i = k
    <3>1. subModules'[i] = m /\ subModules'[j] = subModules[j - 1] /\ j - 1 \in 1 .. n
      BY <1>1, <1>2, <1>3, <2>2
    <3>2. subModules[j - 1] \in Predecessors(m)
      BY <1>5, <3>1 DEF Declares, Predecessors
    <3> QED
      BY <1>2, <2>2, <3>1, <3>2
  <2>3. CASE j = k
    <3>1. subModules'[j] = m /\ subModules'[i] = subModules[i] /\ i \in 1 .. n
      BY <1>1, <1>2, <1>3, <2>3
    <3>2. known'[m] = ToSet(subModules)
      BY DEF addSubModule, OrderInv, OrderTypeOK
    <3> QED
      BY <1>5, <3>1, <3>2
  <2> QED
    BY <2>1, <2>2, <2>3
<1> QED
    BY <1>3, <1>6, <1>7, <1>8 DEF OrderInv, OrderTypeOK

\* Taking a module out leaves the others as they stand.
LEMMA RemoveOrdered ==
    ASSUME OrderInv, NEW m \in SubKey, removeSubModule(m)
    PROVE  OrderInv'
<1> DEFINE n == Len(subModules)
<1>1. subModules \in Seq(SubKey) /\ n \in Nat
    BY DEF OrderInv, OrderTypeOK
<1>2. PICK k \in 1 .. n : subModules[k] = m /\ subModules' = RemoveAt(subModules, k)
    BY <1>1 DEF removeSubModule
<1>3. /\ subModules' \in Seq(SubKey)
      /\ Len(subModules') = n - 1
      /\ \A i \in 1 .. n - 1 :
            subModules'[i] = IF i < k THEN subModules[i] ELSE subModules[i + 1]
    BY <1>1, <1>2, RemoveAtProperties
<1>4. \A i, j \in 1 .. n : subModules[i] = subModules[j] => i = j
    BY <1>1 DEF OrderInv, OrderTypeOK, IsInjective
<1>5. IsInjective(subModules')
    BY <1>1, <1>2, <1>3, <1>4 DEF IsInjective
<1>6. known' \in [SubKey -> SUBSET SubKey] /\ deps' = deps /\ deps \in Declaration
    BY DEF OrderInv, OrderTypeOK, removeSubModule
<1>7. OrderedIfAddedInOrder'
  <2> SUFFICES ASSUME NEW i \in 1 .. n - 1, NEW j \in 1 .. n - 1, i < j,
                      Declares(subModules'[j], subModules'[i])
               PROVE  subModules'[i] \in known'[subModules'[j]]
    BY <1>3, <1>6 DEF OrderedIfAddedInOrder, Declares
  <2> DEFINE p == IF i < k THEN i ELSE i + 1
             q == IF j < k THEN j ELSE j + 1
  <2>1. p \in 1 .. n /\ q \in 1 .. n /\ p < q /\ p # k /\ q # k
    BY <1>1
  <2>2. subModules'[i] = subModules[p] /\ subModules'[j] = subModules[q]
    BY <1>3
  <2>3. subModules[p] \in known[subModules[q]]
    BY <1>1, <2>1, <2>2 DEF OrderInv, OrderedIfAddedInOrder
  <2>4. subModules[p] # m /\ subModules[q] # m /\ subModules[q] \in SubKey
    BY <1>1, <1>2, <1>4, <2>1
  <2>5. known'[subModules[q]] = known[subModules[q]] \ {m}
    BY <2>4 DEF removeSubModule
  <2> QED
    BY <2>2, <2>3, <2>4, <2>5
<1> QED
    BY <1>3, <1>5, <1>6, <1>7 DEF OrderInv, OrderTypeOK

\* Adding and removing keep the order.
LEMMA OrderInductive == OrderInv /\ [OrderNext]_orderVars => OrderInv'
<1> SUFFICES ASSUME OrderInv, [OrderNext]_orderVars
             PROVE  OrderInv'
    OBVIOUS
<1>1. ASSUME NEW m \in SubKey, addSubModule(m)
      PROVE  OrderInv'
    BY <1>1, AddOrdered
<1>2. ASSUME NEW m \in SubKey, removeSubModule(m)
      PROVE  OrderInv'
    BY <1>2, RemoveOrdered
<1>3. CASE UNCHANGED orderVars
    BY <1>3 DEF orderVars, OrderInv, OrderTypeOK, OrderedIfAddedInOrder, Declares
<1> QED
    BY <1>1, <1>2, <1>3 DEF OrderNext

\* The invariant holds in every reachable state, whatever is added and removed.
THEOREM OrderInvariant == OrderSpec => []OrderInv
    BY OrderInitial, OrderInductive, PTL DEF OrderSpec

\* A sub module stands in front of one that has to precede it only if it was there
\* first (Modules::addSubModule).
THEOREM OrderTheorem == OrderSpec => []OrderedIfAddedInOrder
    BY OrderInvariant, PTL DEF OrderInv
------------------------------------------------------------------------------
\* A sequence, taken over element by element, of which what is there already is left out.
Takes(mounted, taken) ==
    taken = [n \in 0 .. Len(mounted) |->
                IF n = 0 THEN <<>>
                ELSE LET before == taken[n - 1] IN
                     IF Contains(before, mounted[n]) THEN before
                     ELSE Append(before, mounted[n])]

\* There is such a function.
LEMMA TakesSomething ==
    ASSUME NEW M, NEW mounted \in Seq(M)
    PROVE  \E taken : Takes(mounted, taken)
<1> DEFINE n == Len(mounted)
           step(i, v) == IF i + 1 <= n /\ ~Contains(v, mounted[i + 1])
                         THEN Append(v, mounted[i + 1]) ELSE v
           g == [p \in Nat \X Seq(M) |-> step(p[1], p[2])]
<1>1. n \in Nat /\ \A i \in 1 .. n : mounted[i] \in M
  OBVIOUS
<1>2. \A i \in Nat : \A v \in Seq(M) : g[<<i, v>>] = step(i, v)
  OBVIOUS
<1>3. \A i \in Nat : \A v \in Seq(M) : step(i, v) \in Seq(M)
  <2> SUFFICES ASSUME NEW i \in Nat, NEW v \in Seq(M), i + 1 <= n
               PROVE  Append(v, mounted[i + 1]) \in Seq(M)
    OBVIOUS
  <2>1. i + 1 \in 1 .. n
    BY <1>1
  <2> QED
    BY <1>1, <2>1
<1> HIDE DEF step, g
<1>4. \A i \in Nat : \A v \in Seq(M) : g[<<i, v>>] \in Seq(M)
  BY <1>2, <1>3
<1>5. PICK e \in Seq(M) : e = <<>>
  <2>1. <<>> \in Seq(M)
    OBVIOUS
  <2> QED
    BY ONLY <2>1
<1> DEFINE h == Unfolded(Seq(M), e, g)
<1>6. /\ \A i \in Nat : h[i] \in Seq(M)
      /\ h[0] = e /\ \A i \in Nat : h[i + 1] = g[<<i, h[i]>>]
  BY ONLY e \in Seq(M), <1>4, Recursion
<1> HIDE DEF h
<1> DEFINE f == [i \in 0 .. Len(mounted) |-> h[i]]
<1>7. ASSUME NEW i \in 0 .. n, i # 0
      PROVE  f[i] = LET before == f[i - 1] IN
                    IF Contains(before, mounted[i]) THEN before ELSE Append(before, mounted[i])
  <2>1. i - 1 \in Nat /\ i - 1 \in 0 .. n /\ (i - 1) + 1 = i /\ i <= n
    BY <1>1, <1>7
  <2>2. f[i] = h[i] /\ f[i - 1] = h[i - 1]
    BY <1>1, <2>1
  <2>3. h[i] = step(i - 1, h[i - 1])
    BY <1>2, <1>6, <2>1
  <2> QED
    BY <2>1, <2>2, <2>3 DEF step
<1>8. f[0] = <<>>
  BY <1>1, <1>5, <1>6
<1>9. f = [i \in 0 .. Len(mounted) |-> f[i]]
  OBVIOUS
<1> HIDE DEF f
<1>10. Takes(mounted, f)
  BY <1>7, <1>8, <1>9 DEF Takes
<1> QED
  BY <1>10

\* What has been taken at the end is what is mounted, each once.
LEMMA TakesAll ==
    ASSUME NEW M, NEW mounted \in Seq(M), NEW taken, Takes(mounted, taken)
    PROVE  LET r == taken[Len(mounted)]
           IN  r \in Seq(M) /\ IsInjective(r) /\ ToSet(r) = ToSet(mounted)
<1> DEFINE n == Len(mounted)
           Good(i) == /\ taken[i] \in Seq(M) /\ IsInjective(taken[i])
                      /\ ToSet(taken[i]) = {mounted[k] : k \in 1 .. i}
           T == {i \in Nat : i <= n => Good(i)}
<1>1. n \in Nat /\ DOMAIN mounted = 1 .. n /\ \A i \in 1 .. n : mounted[i] \in M
  OBVIOUS
<1>2. /\ taken[0] = <<>>
      /\ \A i \in 0 .. n : i # 0 =>
            taken[i] = IF Contains(taken[i - 1], mounted[i]) THEN taken[i - 1]
                       ELSE Append(taken[i - 1], mounted[i])
  <2>1. \A i \in 0 .. n : taken[i] =
            IF i = 0 THEN <<>>
            ELSE IF Contains(taken[i - 1], mounted[i]) THEN taken[i - 1]
                 ELSE Append(taken[i - 1], mounted[i])
    BY DEF Takes
  <2>2. 0 \in 0 .. n
    BY <1>1
  <2> QED
    BY <2>1, <2>2
<1>3. 0 \in T
  <2>1. <<>> \in Seq(M) /\ DOMAIN <<>> = {} /\ 1 .. 0 = {}
    OBVIOUS
  <2>2. IsInjective(<<>>) /\ ToSet(<<>>) = {}
    BY <2>1 DEF IsInjective, ToSet
  <2> QED
    BY <1>2, <2>1, <2>2
<1>4. ASSUME NEW i \in Nat, i \in T PROVE i + 1 \in T
  <2> SUFFICES ASSUME i + 1 <= n PROVE Good(i + 1)
    OBVIOUS
  <2> DEFINE j == i + 1
  <2>1. /\ j \in 0 .. n /\ j \in 1 .. n /\ j # 0 /\ j - 1 = i /\ i <= n
        /\ 1 .. j = (1 .. i) \cup {j}
    BY <1>1
  <2>2. Good(i)
    BY <1>4, <2>1
  <2>3. taken[j] = IF Contains(taken[i], mounted[j]) THEN taken[i]
                   ELSE Append(taken[i], mounted[j])
    BY <1>2, <2>1
  <2> HIDE DEF j
  <2>4. {mounted[k] : k \in 1 .. j} = {mounted[k] : k \in 1 .. i} \cup {mounted[j]}
    BY <2>1
  <2>5. Contains(taken[i], mounted[j]) <=> mounted[j] \in ToSet(taken[i])
    BY <2>2 DEF Contains, ToSet
  <2>6. CASE Contains(taken[i], mounted[j])
    BY <2>2, <2>3, <2>4, <2>5, <2>6 DEF j
  <2>7. CASE ~Contains(taken[i], mounted[j])
    <3> DEFINE a == taken[i]
               b == Append(a, mounted[j])
    <3>1. a \in Seq(M) /\ mounted[j] \in M /\ Len(a) \in Nat /\ DOMAIN a = 1 .. Len(a)
      BY <1>1, <2>1, <2>2
    <3>2. /\ b \in Seq(M) /\ DOMAIN b = 1 .. Len(a) + 1
          /\ b[Len(a) + 1] = mounted[j] /\ \A k \in 1 .. Len(a) : b[k] = a[k]
      <4> HIDE DEF a
      <4> QED
        BY <3>1
    <3>3. \A k \in 1 .. Len(a) : a[k] # mounted[j]
      BY <2>7 DEF Contains
    <3> HIDE DEF a, b
    <3>4. IsInjective(b)
      <4>1. \A k, l \in 1 .. Len(a) : a[k] = a[l] => k = l
        BY <2>2, <3>1 DEF IsInjective, a
      <4> QED
        BY <3>1, <3>2, <3>3, <4>1 DEF IsInjective
    <3>5. ToSet(b) = ToSet(a) \cup {mounted[j]}
      <4>1. 1 .. Len(a) + 1 = (1 .. Len(a)) \cup {Len(a) + 1}
        BY <3>1
      <4> QED
        BY <3>1, <3>2, <4>1 DEF ToSet
    <3>6. taken[j] = b
      BY <2>3, <2>7 DEF a, b
    <3>7. ToSet(a) = {mounted[k] : k \in 1 .. i}
      BY <2>2 DEF a
    <3> QED
      BY <2>4, <3>2, <3>4, <3>5, <3>6, <3>7 DEF j
  <2> QED
    BY <2>6, <2>7
<1> HIDE DEF T, Good
<1>5. \A i \in Nat : i \in T
  BY <1>3, <1>4, AllNumbers
<1>6. Good(n)
  BY <1>1, <1>5 DEF T
<1> QED
  BY <1>1, <1>6 DEF Good, ToSet

\* What registerStage() leaves behind: every stage that is mounted, once.
LEMMA RegisteredIs ==
    ASSUME NEW ps \in Mounts
    PROVE  /\ Registered(ps) \in Seq(ToSet(Registered(ps)))
           /\ IsInjective(Registered(ps))
           /\ ToSet(Registered(ps)) = UNION {StagesOf(ps[i]) : i \in DOMAIN ps}
<1> DEFINE M == UNION {StagesOf(ps[i]) : i \in DOMAIN ps}
           orders == [i \in DOMAIN ps |-> ps[i].stages]
           mounted == FlattenSeq(orders)
           taken[n \in 0 .. Len(mounted)] ==
              IF n = 0 THEN <<>>
              ELSE LET before == taken[n - 1] IN
                   IF Contains(before, mounted[n]) THEN before ELSE Append(before, mounted[n])
<1>1. Registered(ps) = taken[Len(mounted)]
  BY DEF Registered
<1>2. /\ ps \in Seq(ToSet(ps)) /\ DOMAIN ps = 1 .. Len(ps) /\ Len(ps) \in Nat
      /\ \A i \in DOMAIN ps : ps[i].stages \in Seq(StagesOf(ps[i]))
  <2>1. ps \in Seq(ToSet(ps)) /\ \A i \in DOMAIN ps : ps[i].stages \in Seq(StagesOf(ps[i]))
    BY MountsAssumption
  <2> QED
    BY <2>1
<1>3. \A i \in DOMAIN ps : ps[i].stages \in Seq(M)
  <2> SUFFICES ASSUME NEW i \in DOMAIN ps PROVE ps[i].stages \in Seq(M)
    OBVIOUS
  <2>1. StagesOf(ps[i]) \subseteq M
    OBVIOUS
  <2>2. ps[i].stages \in Seq(StagesOf(ps[i]))
    BY <1>2
  <2> HIDE DEF M
  <2> QED
    BY <2>1, <2>2
<1> HIDE DEF M
<1>4. orders \in Seq(Seq(M)) /\ Len(orders) = Len(ps)
  BY <1>2, <1>3
<1>5. \A i \in 1 .. Len(ps) : ToSet(orders[i]) = StagesOf(ps[i])
  BY <1>2 DEF StagesOf
<1> HIDE DEF orders
<1>6. mounted \in Seq(M) /\ ToSet(mounted) = UNION {ToSet(orders[i]) : i \in 1 .. Len(orders)}
  BY <1>4, Flattened
<1>7. ToSet(mounted) = M
  BY <1>2, <1>4, <1>5, <1>6 DEF M
<1> HIDE DEF mounted
<1>8. \E f : f = [n \in 0 .. Len(mounted) |->
                    IF n = 0 THEN <<>>
                    ELSE LET before == f[n - 1] IN
                         IF Contains(before, mounted[n]) THEN before
                         ELSE Append(before, mounted[n])]
  BY <1>6, TakesSomething DEF Takes
<1>9. taken = [n \in 0 .. Len(mounted) |->
                    IF n = 0 THEN <<>>
                    ELSE LET before == taken[n - 1] IN
                         IF Contains(before, mounted[n]) THEN before
                         ELSE Append(before, mounted[n])]
  BY <1>8
<1> HIDE DEF taken
<1>10. Takes(mounted, taken)
  BY <1>9 DEF Takes
<1> DEFINE r == taken[Len(mounted)]
<1>11. r \in Seq(M) /\ IsInjective(r) /\ ToSet(r) = ToSet(mounted)
  BY <1>6, <1>10, TakesAll
<1>12. r \in Seq(ToSet(r))
  <2> HIDE DEF r
  <2> QED
    BY <1>11 DEF ToSet
<1> QED
  BY <1>1, <1>7, <1>11, <1>12 DEF M

\* Of two stages of a pipeline only one is mounted ahead of the other.
LEMMA AheadOneWay ==
    ASSUME pipelines \in Mounts, NEW p \in Pipelines,
           NEW s, NEW t \in StagesOf(p), s \in Ahead(p, t)
    PROVE  s \in StagesOf(p) /\ t \notin Ahead(p, s)
<1> DEFINE o == p.stages
<1>1. o \in Seq(StagesOf(p)) /\ IsInjective(o)
    BY MountsAssumption DEF Pipelines, ToSet
<1>2. DOMAIN o = 1 .. Len(o) /\ Len(o) \in Nat /\ StagesOf(p) = {o[i] : i \in DOMAIN o}
    BY <1>1 DEF StagesOf, ToSet
<1>3. \A u \in StagesOf(p) : IndexOf(o, u) \in DOMAIN o /\ o[IndexOf(o, u)] = u
    BY <1>2 DEF IndexOf
<1>4. PICK i \in 1 .. IndexOf(o, t) - 1 : s = o[i]
    BY DEF Ahead
<1>5. i \in DOMAIN o /\ i < IndexOf(o, t)
    BY <1>2, <1>3, <1>4
<1>6. s \in StagesOf(p)
    BY <1>2, <1>4, <1>5
<1>7. IndexOf(o, s) = i
    BY <1>1, <1>3, <1>4, <1>5, <1>6 DEF IsInjective
<1>8. ASSUME t \in Ahead(p, s) PROVE FALSE
  <2>1. PICK j \in 1 .. IndexOf(o, s) - 1 : t = o[j]
    BY <1>8 DEF Ahead
  <2>2. j \in DOMAIN o /\ j < i
    BY <1>2, <1>5, <1>7, <2>1
  <2>3. IndexOf(o, t) = j
    BY <1>1, <1>3, <2>1, <2>2 DEF IsInjective
  <2> QED
    BY <1>2, <1>5, <2>2, <2>3
<1> QED
    BY <1>6, <1>8

\* The two reasons for which a stage precedes another.
LEMMA PrecedingMeans ==
    ASSUME NEW t, NEW u
    PROVE  u \in Preceding(t) <=>
              \/ \E p \in Pipelines : t \in DOMAIN p.requires /\ u \in p.requires[t]
              \/ \E p \in Pipelines : t \in StagesOf(p) /\ u \in Ahead(p, t)
<1> DEFINE declared == UNION {p.requires[t] : p \in {q \in Pipelines : t \in DOMAIN q.requires}}
           ahead == UNION {Ahead(p, t) : p \in {q \in Pipelines : t \in StagesOf(q)}}
<1>1. u \in declared <=> \E p \in Pipelines : t \in DOMAIN p.requires /\ u \in p.requires[t]
    OBVIOUS
<1>2. u \in ahead <=> \E p \in Pipelines : t \in StagesOf(p) /\ u \in Ahead(p, t)
    OBVIOUS
<1>3. Preceding(t) = declared \cup ahead
    BY DEF Preceding
<1> HIDE DEF declared, ahead
<1> QED
    BY <1>1, <1>2, <1>3

\* What the pipelines declare has found its way into the two relations that the
\* algorithm looks at.
Collected ==
    \A p \in Pipelines : \A t \in DOMAIN p.requires \cap ToSet(stages) :
        /\ p.requires[t] \subseteq required[t]
        /\ \A s \in p.requires[t] \cap ToSet(stages) : t \in inverse[s]

\* And nothing else has: what the relations hold can be traced to a pipeline.
Traced ==
    \A t \in ToSet(stages) :
        /\ required[t] \subseteq Preceding(t)
        /\ \A u \in inverse[t] : t \in Preceding(u)

\* In a pipeline that shares no stage each stage depends on the one in front of it.
Chained ==
    Unshared => \A p \in Pipelines : \A j \in 1 .. Len(p.stages) - 1 :
                    /\ p.stages[j] \in required[p.stages[j + 1]]
                    /\ p.stages[j + 1] \in inverse[p.stages[j]]

\* What does not change while resolve() is at work.
Given ==
    /\ pipelines \in Mounts
    /\ stages \in Seq(ToSet(stages)) /\ IsInjective(stages)
    /\ ToSet(stages) = UNION {StagesOf(p) : p \in Pipelines}
    /\ Collected /\ Traced /\ Chained

\* RequiredBefore is not inductive without Collected: CanInsert looks at the
\* relations, and not at the pipelines.
ResolveInv ==
    /\ Given
    /\ TypeOK
    /\ RequiredBefore
    /\ at \in {"optimize", "done"} => Len(placed) = Len(stages)

\* What the pipelines ask for is collected before anything is placed.
LEMMA CollectedInitially == Init => Collected
<1> SUFFICES ASSUME Init, NEW p \in Pipelines,
                    NEW t \in DOMAIN p.requires \cap ToSet(stages)
             PROVE  /\ p.requires[t] \subseteq required[t]
                    /\ \A s \in p.requires[t] \cap ToSet(stages) : t \in inverse[s]
    BY DEF Collected
<1> DEFINE entries == Declared(pipelines) \cup Ordered(pipelines)
           e == [stage |-> t, required |-> p.requires[t]]
<1>1. PICK i \in DOMAIN pipelines : p = pipelines[i]
    BY DEF Pipelines, ToSet
<1>2. e \in Declared(pipelines)
    BY <1>1 DEF Declared
<1>3. e \in entries /\ e.stage = t /\ e.required = p.requires[t]
    BY <1>2
<1>4. /\ required = [s \in ToSet(stages) |-> Required(entries, s)]
      /\ inverse = [s \in ToSet(stages) |-> {d.stage : d \in {c \in entries : s \in c.required}}]
    BY DEF Init
<1> HIDE DEF entries, e
<1>5. p.requires[t] \subseteq required[t]
    BY <1>3, <1>4 DEF Required
<1>6. ASSUME NEW s \in p.requires[t] \cap ToSet(stages)
      PROVE  t \in inverse[s]
    BY <1>3, <1>4
<1> QED
    BY <1>5, <1>6

\* Where a stage stands in a sequence that holds no stage twice.
LEMMA IndexIs ==
    ASSUME NEW o, IsInjective(o), NEW i \in DOMAIN o
    PROVE  IndexOf(o, o[i]) = i
<1>1. IndexOf(o, o[i]) \in DOMAIN o /\ o[IndexOf(o, o[i])] = o[i]
    BY DEF IndexOf
<1> QED
    BY <1>1 DEF IsInjective

\* Every entry is about registered stages and says what a pipeline asks for.
LEMMA EntriesTraced ==
    ASSUME pipelines \in Mounts, NEW R, R = UNION {StagesOf(p) : p \in Pipelines},
           NEW e \in Declared(pipelines) \cup Ordered(pipelines)
    PROVE  /\ e.stage \in R
           /\ e.required \subseteq R \cup {None}
           /\ e.required \subseteq Preceding(e.stage)
<1>1. \A i \in DOMAIN pipelines : pipelines[i] \in Pipelines
    BY DEF Pipelines, ToSet
<1>2. \A p \in Pipelines : StagesOf(p) \subseteq R
    OBVIOUS
<1>3. R = UNION {StagesOf(pipelines[k]) : k \in DOMAIN pipelines}
    BY DEF Pipelines, ToSet
<1>4. CASE e \in Declared(pipelines)
  <2>1. PICK i \in DOMAIN pipelines : \E s \in DOMAIN pipelines[i].requires :
            e = [stage |-> s, required |-> pipelines[i].requires[s]]
    BY <1>4 DEF Declared
  <2> DEFINE p == pipelines[i]
  <2>2. PICK s \in DOMAIN p.requires : e = [stage |-> s, required |-> p.requires[s]]
    BY <2>1
  <2>3. e.stage = s /\ e.required = p.requires[s]
    BY <2>2
  <2>4. p \in Pipelines /\ s \in StagesOf(p) /\ p.requires[s] \subseteq R \cup {None}
    BY <1>1, <1>3, MountsAssumption
  <2> HIDE DEF p
  <2>5. \A u \in p.requires[s] : u \in Preceding(s)
    BY <2>4, PrecedingMeans
  <2> QED
    BY <1>2, <2>3, <2>4, <2>5
<1>5. CASE e \in Ordered(pipelines)
  <2>1. PICK i \in DOMAIN pipelines : e \in Neighbours(pipelines[i])
    BY <1>5 DEF Ordered
  <2> DEFINE p == pipelines[i]
             o == p.stages
  <2>2. PICK j \in 1 .. Len(o) - 1 : e = [stage |-> o[j + 1], required |-> {o[j]}]
    BY <2>1 DEF Neighbours
  <2>3. e.stage = o[j + 1] /\ e.required = {o[j]}
    BY <2>2
  <2>4. p \in Pipelines /\ o \in Seq(StagesOf(p)) /\ IsInjective(o)
    BY <1>1, MountsAssumption
  <2> HIDE DEF p, o
  <2>5. j \in DOMAIN o /\ j + 1 \in DOMAIN o /\ o[j] \in StagesOf(p) /\ o[j + 1] \in StagesOf(p)
    BY <2>4
  <2>6. IndexOf(o, o[j + 1]) = j + 1
    BY <2>4, <2>5, IndexIs
  <2>7. o[j] \in Ahead(p, o[j + 1])
    BY <2>6 DEF Ahead, o
  <2>8. o[j] \in Preceding(o[j + 1])
    BY <2>4, <2>5, <2>7, PrecedingMeans
  <2> QED
    BY <1>2, <2>3, <2>4, <2>5, <2>8
<1> QED
    BY <1>4, <1>5

\* Nothing else is collected.
LEMMA TracedInitially ==
    ASSUME Init, ToSet(stages) = UNION {StagesOf(p) : p \in Pipelines}
    PROVE  /\ Traced
           /\ required \in [ToSet(stages) -> SUBSET (ToSet(stages) \cup {None})]
           /\ inverse \in [ToSet(stages) -> SUBSET ToSet(stages)]
<1> DEFINE entries == Declared(pipelines) \cup Ordered(pipelines)
<1>1. pipelines \in Mounts
    BY DEF Init
<1>2. \A e \in entries : /\ e.stage \in ToSet(stages)
                         /\ e.required \subseteq ToSet(stages) \cup {None}
                         /\ e.required \subseteq Preceding(e.stage)
    BY <1>1, EntriesTraced
<1>3. /\ required = [s \in ToSet(stages) |-> Required(entries, s)]
      /\ inverse = [s \in ToSet(stages) |-> {d.stage : d \in {c \in entries : s \in c.required}}]
    BY DEF Init
<1> HIDE DEF entries
<1>4. ASSUME NEW t \in ToSet(stages)
      PROVE  /\ Required(entries, t) \subseteq ToSet(stages) \cup {None}
             /\ Required(entries, t) \subseteq Preceding(t)
    BY <1>2 DEF Required
<1>5. ASSUME NEW t \in ToSet(stages), NEW u \in inverse[t]
      PROVE  u \in ToSet(stages) /\ t \in Preceding(u)
  <2>1. PICK d \in entries : t \in d.required /\ u = d.stage
    BY <1>3
  <2> QED
    BY <1>2, <2>1
<1> QED
    BY <1>3, <1>4, <1>5 DEF Traced

\* The order of a pipeline has been turned into dependencies between neighbours.
LEMMA ChainedInitially ==
    ASSUME Init, \A p \in Pipelines : StagesOf(p) \subseteq ToSet(stages)
    PROVE  Chained
<1> SUFFICES ASSUME Unshared, NEW p \in Pipelines, NEW j \in 1 .. Len(p.stages) - 1
             PROVE  /\ p.stages[j] \in required[p.stages[j + 1]]
                    /\ p.stages[j + 1] \in inverse[p.stages[j]]
    BY DEF Chained
<1> DEFINE o == p.stages
           e == [stage |-> o[j + 1], required |-> {o[j]}]
           entries == Declared(pipelines) \cup Ordered(pipelines)
<1>1. PICK i \in DOMAIN pipelines : p = pipelines[i]
    BY DEF Pipelines, ToSet
<1>2. pipelines \in Mounts /\ pipelines \in Seq(ToSet(pipelines))
    BY MountsAssumption DEF Init
<1>3. \A k \in DOMAIN pipelines : pipelines[k].stages \in Seq(StagesOf(pipelines[k]))
    BY <1>2, MountsAssumption
<1>4. o[j] \in StagesOf(p) /\ o[j + 1] \in StagesOf(p)
    BY <1>1, <1>3
<1>5. e \in Neighbours(p)
    BY DEF Neighbours
<1>6. ASSUME NEW k \in 1 .. i - 1, NEW d \in Neighbours(pipelines[k]) PROVE d.stage # e.stage
  <2>1. k \in DOMAIN pipelines /\ k # i
    BY <1>1, <1>2
  <2>2. PICK l \in 1 .. Len(pipelines[k].stages) - 1 :
            d = [stage |-> pipelines[k].stages[l + 1], required |-> {pipelines[k].stages[l]}]
    BY DEF Neighbours
  <2>3. d.stage = pipelines[k].stages[l + 1]
    BY <2>2
  <2>4. d.stage \in StagesOf(pipelines[k])
    BY <1>3, <2>1, <2>3
  <2>5. StagesOf(pipelines[k]) \cap StagesOf(p) = {}
    BY <1>1, <2>1 DEF Unshared
  <2> QED
    BY <1>4, <2>4, <2>5
<1>7. e \in Ordered(pipelines)
    BY <1>1, <1>5, <1>6 DEF Ordered
<1>8. e \in entries /\ e.stage = o[j + 1] /\ o[j] \in e.required
    BY <1>7
<1>9. /\ required = [s \in ToSet(stages) |-> Required(entries, s)]
      /\ inverse = [s \in ToSet(stages) |-> {d.stage : d \in {c \in entries : s \in c.required}}]
      /\ o[j] \in ToSet(stages) /\ o[j + 1] \in ToSet(stages)
    BY <1>4 DEF Init
<1> HIDE DEF entries, e
<1>10. o[j] \in Required(entries, o[j + 1])
    BY <1>8 DEF Required
<1>11. o[j + 1] \in {d.stage : d \in {c \in entries : o[j] \in c.required}}
    BY <1>8
<1> QED
    BY <1>9, <1>10, <1>11

\* The empty vector is in order.
LEMMA ResolveInitial == Init => ResolveInv
<1> SUFFICES ASSUME Init PROVE ResolveInv
    OBVIOUS
<1>1. pipelines \in Mounts /\ stages = Registered(pipelines)
    BY DEF Init
<1>2. /\ stages \in Seq(ToSet(stages)) /\ IsInjective(stages)
      /\ ToSet(stages) = UNION {StagesOf(pipelines[i]) : i \in DOMAIN pipelines}
    BY <1>1, RegisteredIs
<1>3. ToSet(stages) = UNION {StagesOf(p) : p \in Pipelines}
    BY <1>2 DEF Pipelines, ToSet
<1>4. \A p \in Pipelines : StagesOf(p) \subseteq ToSet(stages)
    BY <1>3
<1>5. Given
    BY <1>1, <1>2, <1>3, <1>4, CollectedInitially, TracedInitially, ChainedInitially
    DEF Given
<1>6. turn = 1 /\ pass = 0 /\ cursor = 1 /\ placed = <<>> /\ at = "insert"
    BY DEF Init
<1>7. Len(stages) \in Nat /\ placed \in Seq(ToSet(stages)) /\ RequiredBefore
    BY <1>2, <1>6 DEF RequiredBefore, Respects, IsInjective
<1>8. TypeOK
    BY <1>3, <1>6, <1>7, TracedInitially DEF TypeOK
<1> QED
    BY <1>5, <1>6, <1>7, <1>8 DEF ResolveInv

\* What precedes a stage does not change while the pipelines stay.
LEMMA PrecedingStays ==
    ASSUME pipelines' = pipelines, Respects(placed')
    PROVE  Respects(placed)'
<1>1. Pipelines' = Pipelines
    BY DEF Pipelines
<1>2. \A t : Preceding(t)' = Preceding(t)
    BY <1>1, Zenon DEF Preceding
<1> QED
    BY <1>2 DEF Respects

\* A stage that may stand behind some stages finds there all that precedes it, and
\* precedes none of them.
LEMMA CanInsertRight ==
    ASSUME ResolveInv, NEW s \in ToSet(stages), NEW X, X \subseteq ToSet(stages),
           CanInsert(s, X)
    PROVE  /\ s \notin X
           /\ Preceding(s) \subseteq X
           /\ \A t \in X : s \notin Preceding(t)
<1>1. /\ s \notin X /\ required[s] \subseteq X /\ inverse[s] \cap X = {}
      /\ \A p \in Pipelines : s \in StagesOf(p) =>
            Ahead(p, s) \subseteq X /\ FromOn(p, s) \cap X = {}
    BY DEF CanInsert
<1>2. ASSUME NEW u \in Preceding(s) PROVE u \in X
  <2>1. CASE \E p \in Pipelines : s \in DOMAIN p.requires /\ u \in p.requires[s]
    BY <1>1, <2>1 DEF ResolveInv, Given, TypeOK, Collected
  <2>2. CASE \E p \in Pipelines : s \in StagesOf(p) /\ u \in Ahead(p, s)
    BY <1>1, <2>2
  <2> QED
    BY <2>1, <2>2, PrecedingMeans
<1>3. ASSUME NEW t \in X, s \in Preceding(t) PROVE FALSE
  <2>1. ASSUME NEW p \in Pipelines, t \in DOMAIN p.requires, s \in p.requires[t]
        PROVE  FALSE
    BY <1>1, <2>1 DEF ResolveInv, Given, TypeOK, Collected
  <2>2. ASSUME NEW p \in Pipelines, t \in StagesOf(p), s \in Ahead(p, t)
        PROVE  FALSE
    <3>1. s \in StagesOf(p) /\ t \notin Ahead(p, s)
      BY <2>2, AheadOneWay DEF ResolveInv, Given, TypeOK
    <3>2. t \in FromOn(p, s)
      BY <2>2, <3>1 DEF FromOn
    <3> QED
      BY <1>1, <3>1, <3>2
  <2> QED
    BY <1>3, <2>1, <2>2, PrecedingMeans
<1>4. Preceding(s) \subseteq X
    BY <1>2, Zenon
<1>5. \A t \in X : s \notin Preceding(t)
    BY <1>3, Zenon
<1> QED
    BY <1>1, <1>4, <1>5

\* The vector r holds the stages of q, moved about by f, and at the place fresh one
\* that f does not take there.  No stage gets past one that it precedes.
Rearranges(q, r, f, fresh) ==
    /\ f \in [1 .. Len(q) -> 1 .. Len(r)]
    /\ \A j \in 1 .. Len(q) : r[f[j]] = q[j]
    /\ \A j \in 1 .. Len(q) : f[j] # fresh => \A l \in 1 .. j - 1 :
          f[l] < f[j] \/ q[l] \notin Preceding(q[j])
    /\ fresh \in 1 .. Len(r)
    /\ \A x \in 1 .. Len(r) : x # fresh =>
          r[x] # r[fresh] /\ \E j \in 1 .. Len(q) : f[j] = x
    /\ Preceding(r[fresh]) \subseteq {r[x] : x \in 1 .. fresh - 1}

\* So the order is kept.
LEMMA Rearranged ==
    ASSUME NEW q \in Seq(ToSet(stages)), NEW r \in Seq(ToSet(stages)),
           IsInjective(q), Respects(q),
           NEW f, NEW fresh, Rearranges(q, r, f, fresh)
    PROVE  IsInjective(r) /\ Respects(r)
<1> USE DEF Rearranges
<1>1. /\ Len(q) \in Nat /\ DOMAIN q = 1 .. Len(q)
      /\ Len(r) \in Nat /\ DOMAIN r = 1 .. Len(r)
    OBVIOUS
<1>2. ASSUME NEW x \in 1 .. Len(r), NEW y \in 1 .. Len(r), r[x] = r[y] PROVE x = y
  <2>1. CASE x = fresh \/ y = fresh
    BY <1>2, <2>1
  <2>2. CASE x # fresh /\ y # fresh
    <3>1. PICK i \in 1 .. Len(q), j \in 1 .. Len(q) : f[i] = x /\ f[j] = y
      BY <2>2
    <3>2. q[i] = q[j]
      BY <1>2, <3>1
    <3>3. i = j
      BY <1>1, <3>2 DEF IsInjective
    <3> QED
      BY <3>1, <3>3
  <2> QED
    BY <2>1, <2>2
<1>3. ASSUME NEW x \in 1 .. Len(r) PROVE Preceding(r[x]) \subseteq {r[y] : y \in 1 .. x - 1}
  <2>1. CASE x = fresh
    BY <2>1
  <2>2. CASE x # fresh
    <3>1. PICK j \in 1 .. Len(q) : f[j] = x
      BY <2>2
    <3>2. r[x] = q[j]
      BY <3>1
    <3>3. ASSUME NEW u \in Preceding(q[j]) PROVE \E y \in 1 .. x - 1 : u = r[y]
      <4>1. Preceding(q[j]) \subseteq {q[l] : l \in 1 .. j - 1}
        BY <1>1 DEF Respects
      <4>2. PICK l \in 1 .. j - 1 : u = q[l]
        BY <4>1
      <4>3. l \in 1 .. Len(q) /\ f[l] < x /\ r[f[l]] = u
        BY <1>1, <2>2, <3>1, <4>2
      <4>4. f[l] \in 1 .. x - 1
        BY <1>1, <4>3
      <4> QED
        BY <4>3, <4>4
    <3> QED
      BY <3>2, <3>3
  <2> QED
    BY <2>1, <2>2
<1>4. IsInjective(r)
    BY <1>1, <1>2 DEF IsInjective
<1>5. Respects(r)
    BY <1>1, <1>3 DEF Respects
<1> QED
    BY <1>4, <1>5

\* A turn of the loop over the registered stages.
LEMMA InsertRight ==
    ASSUME ResolveInv, Insert
    PROVE  /\ placed' \in Seq(ToSet(stages)) /\ RequiredBefore'
           /\ \/ placed' = placed /\ (Contains(placed, stages[turn]) \/ Gaps(stages[turn]) = {})
              \/ Len(placed') = Len(placed) + 1 /\ ~Contains(placed, stages[turn])
<1> DEFINE s == stages[turn]
           n == Len(placed)
           k == Min(Gaps(s))
<1>1. s \in ToSet(stages)
    BY DEF ResolveInv, Given, TypeOK, Insert, ToSet
<1>2. /\ placed \in Seq(ToSet(stages)) /\ n \in Nat /\ DOMAIN placed = 1 .. n
      /\ IsInjective(placed) /\ Respects(placed)
    BY DEF ResolveInv, Given, TypeOK, RequiredBefore
<1>3. pipelines' = pipelines
    BY DEF Insert, collected
<1>4. CASE placed' = placed /\ (Contains(placed, s) \/ Gaps(s) = {})
    BY <1>2, <1>3, <1>4, PrecedingStays DEF RequiredBefore, IsInjective
<1>5. CASE /\ ~Contains(placed, s) /\ Gaps(s) # {}
           /\ placed' = InsertAt(placed, k + 1, s)
  <2>1. Gaps(s) \subseteq Nat
    BY <1>2 DEF Gaps
  <2>2. k \in Gaps(s)
    BY <1>5, <2>1, FirstPosition
  <2>3. k \in 0 .. n /\ CanInsert(s, Prefix(k))
    BY <2>2 DEF Gaps
  <2>4. \A i \in 1 .. n : placed[i] # s
    BY <1>2, <1>5 DEF Contains
  <2> DEFINE fresh == k + 1
             r == InsertAt(placed, fresh, s)
             f == [j \in 1 .. n |-> IF j < fresh THEN j ELSE j + 1]
  <2>5. /\ placed \in Seq(ToSet(stages)) /\ s \in ToSet(stages)
        /\ fresh \in 1 .. Len(placed) + 1 /\ fresh - 1 = k
    BY <1>1, <1>2, <2>3
  <2> HIDE DEF s, k, fresh
  <2>6. /\ InsertAt(placed, fresh, s) \in Seq(ToSet(stages))
        /\ Len(InsertAt(placed, fresh, s)) = Len(placed) + 1
        /\ \A i \in 1 .. Len(placed) + 1 :
              InsertAt(placed, fresh, s)[i] =
                  IF i < fresh THEN placed[i] ELSE IF i = fresh THEN s ELSE placed[i - 1]
    <3>1. PICK S : S = ToSet(stages)
      OBVIOUS
    <3>2. placed \in Seq(S) /\ s \in S /\ fresh \in 1 .. Len(placed) + 1
      BY ONLY <2>5, <3>1
    <3>3. /\ InsertAt(placed, fresh, s) \in Seq(S)
          /\ Len(InsertAt(placed, fresh, s)) = Len(placed) + 1
          /\ \A i \in 1 .. Len(placed) + 1 :
                InsertAt(placed, fresh, s)[i] =
                    IF i < fresh THEN placed[i] ELSE IF i = fresh THEN s ELSE placed[i - 1]
      BY ONLY <3>2, InsertAtProperties, SMTT(30)
    <3> QED
      BY ONLY <3>1, <3>3
  <2> HIDE DEF r
  <2>7. /\ r \in Seq(ToSet(stages)) /\ Len(r) = n + 1
        /\ \A i \in 1 .. n + 1 :
              r[i] = IF i < fresh THEN placed[i] ELSE IF i = fresh THEN s ELSE placed[i - 1]
    BY <2>6 DEF r
  <2>8. f \in [1 .. n -> 1 .. Len(r)] /\ \A j \in 1 .. n : r[f[j]] = placed[j]
    BY <1>2, <2>5, <2>7
  <2>9. ASSUME NEW x \in 1 .. Len(r), x # fresh
        PROVE  (\E j \in 1 .. n : f[j] = x) /\ r[x] # r[fresh]
    <3>1. CASE x < fresh
      BY <1>2, <2>4, <2>5, <2>7, <3>1
    <3>2. CASE x > fresh
      <4>1. x - 1 \in 1 .. n /\ f[x - 1] = x /\ r[x] = placed[x - 1] /\ r[fresh] = s
        BY <1>2, <2>5, <2>7, <3>2
      <4> QED
        BY <2>4, <4>1
    <3> QED
      BY <1>2, <2>5, <2>7, <2>9, <3>1, <3>2
  <2>10. \A j \in 1 .. n : \A l \in 1 .. j - 1 : f[l] < f[j]
    BY <1>2, <2>5
  <2>11. Prefix(k) \subseteq ToSet(stages)
    BY <1>2, <2>3 DEF Prefix
  <2>12. Preceding(s) \subseteq Prefix(k)
    BY <1>1, <2>3, <2>11, CanInsertRight
  <2>13. Preceding(r[fresh]) \subseteq {r[x] : x \in 1 .. fresh - 1}
    <3>1. r[fresh] = s /\ \A x \in 1 .. k : r[x] = placed[x]
      BY <1>2, <2>5, <2>7
    <3> QED
      BY <2>5, <2>12, <3>1 DEF Prefix
  <2>14. Rearranges(placed, r, f, fresh)
    <3> HIDE DEF f
    <3> QED
      BY <2>5, <2>7, <2>8, <2>9, <2>10, <2>13 DEF Rearranges
  <2> HIDE DEF f
  <2>15. IsInjective(r) /\ Respects(r)
    BY <1>2, <2>7, <2>14, Rearranged
  <2>16. placed' = r /\ ~Contains(placed, stages[turn])
    BY <1>5 DEF r, fresh, s
  <2> QED
    BY <1>3, <2>7, <2>15, <2>16, PrecedingStays DEF RequiredBefore, IsInjective
<1>6. \/ placed' = placed /\ (Contains(placed, s) \/ Gaps(s) = {})
      \/ /\ ~Contains(placed, s) /\ Gaps(s) # {}
         /\ placed' = InsertAt(placed, k + 1, s)
    BY DEF Insert
<1> QED
    BY <1>4, <1>5, <1>6, Zenon

\* A stage lands where it could be inserted.
LEMMA LandingRight ==
    ASSUME placed \in Seq(ToSet(stages)), NEW i \in 1 .. Len(placed), Landing(i) > i
    PROVE  /\ Landing(i) \in i + 1 .. Len(placed) - 1
           /\ CanInsert(placed[i], Prefix(Landing(i)) \ {placed[i]})
<1> DEFINE others(k) == Prefix(k) \ {placed[i]}
           blocks(k) == k < Len(placed) => ~CanInsert(placed[i], others(k))
           S == {k \in i .. Len(placed) : blocks(k)}
<1>1. Len(placed) \in Nat
    OBVIOUS
<1>2. S \subseteq Nat /\ Len(placed) \in S
    BY <1>1
<1>3. Min(S) \in S /\ \A k \in S : Min(S) <= k
    BY <1>2, FirstPosition
<1>4. Landing(i) = IF Min(S) = i THEN i ELSE Min(S) - 1
    BY DEF Landing
<1> HIDE DEF others, blocks
<1>5. Landing(i) = Min(S) - 1 /\ Min(S) \in i .. Len(placed)
    BY <1>3, <1>4
<1>6. Landing(i) \in i + 1 .. Len(placed) - 1 /\ Landing(i) < Min(S)
    BY <1>1, <1>5
<1>7. Landing(i) \notin S
    BY <1>1, <1>3, <1>5, <1>6
<1>8. ~blocks(Landing(i))
    BY <1>1, <1>6, <1>7
<1> QED
    BY <1>6, <1>8 DEF blocks, others

\* A turn of the loop of the optimization: the stages that the moved one gets past
\* are among those behind which it could be inserted, and so do not ask for it.
LEMMA OptimizeRight ==
    ASSUME ResolveInv, Optimize
    PROVE  placed' \in Seq(ToSet(stages)) /\ RequiredBefore' /\ Len(placed') = Len(placed)
<1> DEFINE n == Len(placed)
           i == cursor
           s == placed[i]
           k == Landing(i)
<1>1. /\ placed \in Seq(ToSet(stages)) /\ n \in Nat /\ DOMAIN placed = 1 .. n
      /\ IsInjective(placed) /\ Respects(placed)
    BY DEF ResolveInv, Given, TypeOK, RequiredBefore
<1>2. i \in 1 .. n
    BY <1>1 DEF ResolveInv, Given, TypeOK, Optimize
<1>3. pipelines' = pipelines
    BY DEF Optimize, collected
<1>4. CASE placed' = placed
    BY <1>1, <1>3, <1>4, PrecedingStays DEF RequiredBefore, IsInjective
<1>5. CASE k > i /\ placed' = Move(i, k)
  <2> DEFINE X == Prefix(k) \ {s}
  <2>1. k \in i + 1 .. n - 1 /\ CanInsert(s, X)
    BY <1>1, <1>2, <1>5, LandingRight
  <2> DEFINE c == RemoveAt(placed, i)
             r == InsertAt(c, k, s)
             f == [j \in 1 .. n |-> IF j < i \/ j > k THEN j ELSE IF j = i THEN k ELSE j - 1]
  <2>2. placed' = r
    BY <1>5 DEF Move
  <2>3. s \in ToSet(stages)
    BY <1>1, <1>2
  <2> HIDE DEF s, k, i
  <2>4. placed \in Seq(ToSet(stages)) /\ i \in 1 .. Len(placed)
    BY <1>1, <1>2
  <2>5. /\ RemoveAt(placed, i) \in Seq(ToSet(stages))
        /\ Len(RemoveAt(placed, i)) = Len(placed) - 1
        /\ \A x \in 1 .. Len(placed) - 1 :
              RemoveAt(placed, i)[x] = IF x < i THEN placed[x] ELSE placed[x + 1]
    BY ONLY <2>4, RemoveAtProperties, SMTT(30)
  <2> HIDE DEF c
  <2>6. /\ c \in Seq(ToSet(stages)) /\ Len(c) = n - 1
        /\ \A x \in 1 .. n - 1 : c[x] = IF x < i THEN placed[x] ELSE placed[x + 1]
    BY <2>5 DEF c
  <2>7. c \in Seq(ToSet(stages)) /\ s \in ToSet(stages) /\ k \in 1 .. Len(c) + 1
    BY <1>1, <1>2, <2>1, <2>3, <2>6
  <2>8. /\ InsertAt(c, k, s) \in Seq(ToSet(stages))
        /\ Len(InsertAt(c, k, s)) = Len(c) + 1
        /\ \A x \in 1 .. Len(c) + 1 :
              InsertAt(c, k, s)[x] = IF x < k THEN c[x] ELSE IF x = k THEN s ELSE c[x - 1]
    BY ONLY <2>7, InsertAtProperties, SMTT(30)
  <2> HIDE DEF r
  <2>9. /\ r \in Seq(ToSet(stages)) /\ Len(r) = n
        /\ \A x \in 1 .. n : r[x] = IF x < k THEN c[x] ELSE IF x = k THEN s ELSE c[x - 1]
    <3>1. Len(c) + 1 = n
      BY <1>1, <2>6
    <3> QED
      BY ONLY <2>8, <3>1 DEF r
  <2>10. /\ \A x \in 1 .. i - 1 : r[x] = placed[x]
         /\ \A x \in i .. k - 1 : r[x] = placed[x + 1]
         /\ r[k] = s /\ s = placed[i]
         /\ \A x \in k + 1 .. n : r[x] = placed[x]
    <3>1. ASSUME NEW x \in 1 .. i - 1 PROVE r[x] = placed[x]
      <4>1. x \in 1 .. n /\ x \in 1 .. n - 1 /\ x < k /\ x < i
        BY <1>1, <1>2, <2>1
      <4> QED
        BY <2>6, <2>9, <4>1
    <3>2. ASSUME NEW x \in i .. k - 1 PROVE r[x] = placed[x + 1]
      <4>1. x \in 1 .. n /\ x \in 1 .. n - 1 /\ x < k /\ ~(x < i)
        BY <1>1, <1>2, <2>1
      <4>2. r[x] = c[x]
        BY <2>9, <4>1
      <4>3. c[x] = placed[x + 1]
        BY <2>6, <4>1
      <4> QED
        BY <4>2, <4>3
    <3>3. ASSUME NEW x \in k + 1 .. n PROVE r[x] = placed[x]
      <4>1. /\ x \in 1 .. n /\ ~(x < k) /\ x # k
            /\ x - 1 \in 1 .. n - 1 /\ ~(x - 1 < i) /\ (x - 1) + 1 = x
        BY <1>1, <1>2, <2>1
      <4>2. r[x] = c[x - 1]
        BY <2>9, <4>1
      <4>3. c[x - 1] = placed[(x - 1) + 1]
        BY <2>6, <4>1
      <4> QED
        BY <4>1, <4>2, <4>3
    <3>4. r[k] = s /\ s = placed[i]
      BY <1>1, <1>2, <2>1, <2>9 DEF s
    <3> QED
      BY <3>1, <3>2, <3>3, <3>4, Zenon
  <2>11. f \in [1 .. n -> 1 .. Len(r)]
    BY <1>1, <1>2, <2>1, <2>9
  <2>12. ASSUME NEW j \in 1 .. n PROVE r[f[j]] = placed[j]
    <3>1. CASE j < i \/ j > k
      <4>1. f[j] = j /\ (j \in 1 .. i - 1 \/ j \in k + 1 .. n)
        BY <1>1, <1>2, <2>1, <3>1
      <4> QED
        BY <2>10, <4>1
    <3>2. CASE j = i
      BY <1>1, <1>2, <2>1, <2>10, <3>2
    <3>3. CASE i < j /\ j <= k
      <4>1. f[j] = j - 1 /\ j - 1 \in i .. k - 1 /\ (j - 1) + 1 = j
        BY <1>2, <2>1, <3>3
      <4> QED
        BY <2>10, <4>1
    <3> QED
      BY <1>2, <2>1, <3>1, <3>2, <3>3
  <2>13. ASSUME NEW x \in 1 .. n, x # k PROVE r[x] # r[k] /\ \E j \in 1 .. n : f[j] = x
    <3>1. PICK j \in 1 .. n : f[j] = x /\ j # i
      <4>1. CASE x < i \/ x > k
        BY <1>1, <1>2, <2>1, <4>1
      <4>2. CASE i <= x /\ x < k
        <5>1. x + 1 \in 1 .. n /\ f[x + 1] = x /\ x + 1 # i
          BY <1>1, <1>2, <2>1, <4>2
        <5> QED
          BY <5>1
      <4> QED
        BY <1>2, <2>1, <2>13, <4>1, <4>2
    <3>2. r[x] = placed[j] /\ r[k] = placed[i]
      BY <2>10, <2>12, <3>1
    <3>3. placed[i] # placed[j]
      BY <1>1, <1>2, <3>1 DEF IsInjective
    <3> QED
      BY <3>1, <3>2, <3>3
  <2>14. X \subseteq ToSet(stages)
    BY <1>1, <2>1 DEF Prefix
  <2>15. Preceding(s) \subseteq X /\ \A t \in X : s \notin Preceding(t)
    BY <2>1, <2>3, <2>14, CanInsertRight
  <2>16. \A j \in i + 1 .. k : placed[j] \in X
    BY <1>1, <1>2, <2>1, <2>10 DEF Prefix, IsInjective
  <2>17. ASSUME NEW j \in 1 .. n, f[j] # k, NEW l \in 1 .. j - 1
         PROVE  f[l] < f[j] \/ placed[l] \notin Preceding(placed[j])
    <3>1. CASE l = i /\ j <= k
      BY <1>2, <2>1, <2>10, <2>15, <2>16, <3>1
    <3>2. CASE l # i \/ j > k
      BY <1>1, <1>2, <2>1, <2>17, <3>2
    <3> QED
      BY <1>2, <2>1, <3>1, <3>2
  <2>18. Preceding(r[k]) \subseteq {r[x] : x \in 1 .. k - 1}
    <3> SUFFICES ASSUME NEW u \in X PROVE u \in {r[x] : x \in 1 .. k - 1}
      BY <2>10, <2>15
    <3>1. PICK j \in 1 .. k : u = placed[j] /\ j # i
      BY <2>10 DEF Prefix
    <3>2. f[j] \in 1 .. k - 1 /\ r[f[j]] = u
      BY <1>1, <1>2, <2>1, <2>12, <3>1
    <3> QED
      BY <3>2
  <2>19. k \in 1 .. Len(r)
    BY <1>1, <1>2, <2>1, <2>9
  <2> HIDE DEF f
  <2>20. Rearranges(placed, r, f, k)
    BY <2>9, <2>11, <2>12, <2>13, <2>17, <2>18, <2>19 DEF Rearranges
  <2>21. IsInjective(r) /\ Respects(r)
    BY <1>1, <2>9, <2>20, Rearranged
  <2> QED
    BY <1>3, <2>2, <2>9, <2>21, PrecedingStays DEF RequiredBefore, IsInjective
<1>6. placed' = placed \/ (k > i /\ placed' = Move(i, k))
    BY DEF Optimize
<1> QED
    BY <1>4, <1>5, <1>6, Zenon

\* RequiredBefore depends on nothing but the vector and the pipelines.
LEMMA RequiredBeforeStays ==
    ASSUME RequiredBefore, pipelines' = pipelines, placed' = placed
    PROVE  RequiredBefore'
    BY PrecedingStays DEF RequiredBefore, IsInjective

\* Nothing that is given changes after the beginning.
LEMMA GivenStays ==
    ASSUME Given, collected' = collected
    PROVE  Given'
<1>1. pipelines' = pipelines /\ stages' = stages /\ required' = required /\ inverse' = inverse
    BY DEF collected
<1>2. Pipelines' = Pipelines /\ (Unshared' <=> Unshared)
    BY <1>1 DEF Pipelines, Unshared
<1>3. \A t : Preceding(t)' = Preceding(t)
    BY <1>2, Zenon DEF Preceding
<1>4. Collected'
    BY <1>1, <1>2 DEF Given, Collected
<1>5. Traced'
    BY <1>1, <1>3 DEF Given, Traced
<1>6. Chained'
    BY <1>1, <1>2 DEF Given, Chained
<1> QED
    BY <1>1, <1>2, <1>4, <1>5, <1>6 DEF Given

\* There are never more stages in the vector than there are.
LEMMA NotMore ==
    ASSUME Given, placed \in Seq(ToSet(stages)), IsInjective(placed)
    PROVE  /\ IsFiniteSet(ToSet(stages)) /\ Cardinality(ToSet(stages)) = Len(stages)
           /\ Len(placed) <= Len(stages) /\ Len(placed) \in Nat /\ Len(stages) \in Nat
           /\ Len(placed) = Len(stages) => ToSet(placed) = ToSet(stages)
           /\ ToSet(placed) = ToSet(stages) => Len(placed) = Len(stages)
<1>1. stages \in Seq(ToSet(stages)) /\ IsInjective(stages)
    BY DEF Given
<1>2. IsFiniteSet(ToSet(stages)) /\ Cardinality(ToSet(stages)) = Len(stages)
    BY <1>1, NothingTwice
<1>3. IsFiniteSet(ToSet(placed)) /\ Cardinality(ToSet(placed)) = Len(placed)
    BY NothingTwice
<1>4. ToSet(placed) \subseteq ToSet(stages)
    BY DEF ToSet
<1>5. /\ Cardinality(ToSet(placed)) <= Cardinality(ToSet(stages))
      /\ Cardinality(ToSet(stages)) = Cardinality(ToSet(placed)) => ToSet(stages) = ToSet(placed)
    BY <1>2, <1>4, FS_Subset
<1>6. Len(placed) \in Nat /\ Len(stages) \in Nat
    BY <1>1
<1> QED
    BY <1>2, <1>3, <1>5, <1>6

\* Every step of resolve() keeps the vector in order.
LEMMA ResolveInductive == ResolveInv /\ [Next]_vars => ResolveInv'
<1> SUFFICES ASSUME ResolveInv, [Next]_vars PROVE ResolveInv'
    OBVIOUS
<1>1. /\ TypeOK /\ Given /\ RequiredBefore /\ Len(stages) \in Nat /\ Len(placed) \in Nat
      /\ at \in {"optimize", "done"} => Len(placed) = Len(stages)
    BY DEF ResolveInv, Given, TypeOK
<1>2. ASSUME collected' = collected,
             turn' \in 1 .. Len(stages) + 1, pass' \in 0 .. Len(stages) + 1,
             cursor' \in 1 .. Len(stages) + 1, at' \in {"insert", "optimize", "done", "failed"},
             placed' \in Seq(ToSet(stages)), RequiredBefore',
             at' \in {"optimize", "done"} => Len(placed') = Len(stages)
      PROVE  ResolveInv'
  <2>1. stages' = stages /\ required' = required /\ inverse' = inverse
    BY <1>2 DEF collected
  <2>2. Given'
    BY <1>1, <1>2, GivenStays
  <2>3. TypeOK'
    BY <1>1, <1>2, <2>1 DEF TypeOK
  <2> QED
    BY <1>2, <2>1, <2>2, <2>3 DEF ResolveInv
<1>3. CASE Insert
  <2>1. placed' \in Seq(ToSet(stages)) /\ RequiredBefore'
    BY <1>3, InsertRight
  <2>2. /\ collected' = collected /\ turn' = turn + 1 /\ turn <= Len(stages)
        /\ pass' = pass /\ cursor' = cursor /\ at' = at /\ at = "insert"
    BY <1>3 DEF Insert
  <2>3. turn' \in 1 .. Len(stages) + 1
    BY <1>1, <2>2 DEF TypeOK
  <2> QED
    BY <1>1, <1>2, <2>1, <2>2, <2>3 DEF TypeOK
<1>4. CASE EndPass
  <2>1. /\ collected' = collected /\ turn' = 1 /\ cursor' = cursor /\ placed' = placed
        /\ pipelines' = pipelines
    BY <1>4 DEF EndPass, collected
  <2>2. RequiredBefore'
    BY <1>1, <2>1, RequiredBeforeStays
  <2>3. /\ pass' \in 0 .. Len(stages) + 1 /\ at' \in {"insert", "optimize", "failed"}
        /\ at' = "optimize" => Len(placed) = Len(stages)
    BY <1>1, <1>4 DEF EndPass, MaxIteration, TypeOK
  <2>4. turn' \in 1 .. Len(stages) + 1 /\ placed' \in Seq(ToSet(stages))
    BY <1>1, <2>1 DEF TypeOK
  <2> QED
    BY <1>1, <1>2, <2>1, <2>2, <2>3, <2>4 DEF TypeOK
<1>5. CASE Optimize
  <2>1. placed' \in Seq(ToSet(stages)) /\ RequiredBefore' /\ Len(placed') = Len(placed)
    BY <1>5, OptimizeRight
  <2>2. /\ collected' = collected /\ turn' = turn /\ pass' = pass /\ at' = at /\ at = "optimize"
        /\ cursor' = cursor + 1 /\ cursor <= Len(placed)
    BY <1>5 DEF Optimize
  <2>3. cursor' \in 1 .. Len(stages) + 1
    BY <1>1, <2>2 DEF TypeOK
  <2> QED
    BY <1>1, <1>2, <2>1, <2>2, <2>3 DEF TypeOK
<1>6. CASE Finish \/ Return \/ UNCHANGED vars
  <2>1. /\ collected' = collected /\ turn' = turn /\ cursor' = cursor /\ pass' = pass
        /\ placed' = placed /\ pipelines' = pipelines
        /\ at' = at \/ (at = "optimize" /\ at' = "done")
    BY <1>6 DEF Finish, Return, vars, collected
  <2>2. RequiredBefore'
    BY <1>1, <2>1, RequiredBeforeStays
  <2> QED
    BY <1>1, <1>2, <2>1, <2>2 DEF TypeOK
<1> QED
    BY <1>3, <1>4, <1>5, <1>6 DEF Next

\* What is collected agrees with what is declared, and the vector is in order.
THEOREM ResolveInvariant == Spec => []ResolveInv
<1>1. Init => ResolveInv
    BY ResolveInitial
<1>2. ResolveInv /\ [Next]_vars => ResolveInv'
    BY ResolveInductive
<1> QED
    BY <1>1, <1>2, PTL DEF Spec

\* resolve(): at every moment, for all pipelines, every stage of the vector stands
\* behind all that the pipelines say must come before it.
THEOREM RequiredTheorem == Spec => []RequiredBefore
<1>1. ResolveInv => RequiredBefore
    BY DEF ResolveInv, Given, TypeOK
<1> QED
    BY <1>1, ResolveInvariant, PTL

\* resolve() leaves the types of its state as they are.
THEOREM ResolveTypeTheorem == Spec => []TypeOK
<1>1. ResolveInv => TypeOK
    BY DEF ResolveInv
<1> QED
    BY <1>1, ResolveInvariant, PTL
------------------------------------------------------------------------------
\* There is an order that would do.
Solvable == \E order \in SetToSeqs(ToSet(stages)) : Respects(order)

\* A stage that is still to be placed, and that nothing keeps from being placed at the
\* end of the vector.
Ready(s) == s \notin ToSet(placed) /\ Preceding(s) \subseteq ToSet(placed)

\* Why the passes suffice: in each of them a stage is placed, for there is one that is
\* ready when it begins, which the loop has either still ahead of it or has placed.
Progress ==
    Solvable =>
        /\ at = "insert" =>
              \/ Len(placed) = Len(stages)
              \/ Len(placed) > pass
              \/ Len(placed) = pass /\ \E i \in turn .. Len(stages) : Ready(stages[i])
        /\ at # "failed"

\* Of two stages of a pipeline one is mounted ahead of the other.
LEMMA AheadOrBehind ==
    ASSUME pipelines \in Mounts, NEW p \in Pipelines,
           NEW s \in StagesOf(p), NEW t \in FromOn(p, s), s # t
    PROVE  s \in Ahead(p, t)
<1> DEFINE o == p.stages
<1>1. o \in Seq(StagesOf(p)) /\ IsInjective(o)
    BY MountsAssumption DEF Pipelines, ToSet
<1>2. DOMAIN o = 1 .. Len(o) /\ Len(o) \in Nat /\ StagesOf(p) = {o[i] : i \in DOMAIN o}
    BY <1>1 DEF StagesOf, ToSet
<1>3. PICK i \in 1 .. Len(o), j \in 1 .. Len(o) : s = o[i] /\ t = o[j]
    BY <1>2 DEF FromOn
<1>4. IndexOf(o, s) = i /\ IndexOf(o, t) = j
    BY <1>1, <1>2, <1>3, IndexIs
<1>5. ~(j < i)
  <2> SUFFICES ASSUME j < i PROVE FALSE
    OBVIOUS
  <2>1. j \in 1 .. i - 1
    BY <1>3
  <2>2. t \in Ahead(p, s)
    BY <1>3, <1>4, <2>1 DEF Ahead
  <2> QED
    BY <2>2 DEF FromOn
<1>6. i \in 1 .. j - 1
    BY <1>3, <1>5
<1> QED
    BY <1>3, <1>4, <1>6 DEF Ahead

\* A stage that is ready can be inserted at the end of the vector.
LEMMA ReadyFits ==
    ASSUME ResolveInv, NEW s \in ToSet(stages), Ready(s)
    PROVE  ~Contains(placed, s) /\ Gaps(s) # {}
<1> DEFINE n == Len(placed)
<1>1. /\ placed \in Seq(ToSet(stages)) /\ n \in Nat /\ DOMAIN placed = 1 .. n
      /\ Respects(placed) /\ pipelines \in Mounts /\ Traced
    BY DEF ResolveInv, Given, TypeOK, RequiredBefore
<1>2. Prefix(n) = ToSet(placed)
    BY <1>1 DEF Prefix, ToSet
<1>3. s \notin ToSet(placed) /\ Preceding(s) \subseteq ToSet(placed)
    BY DEF Ready
<1>4. \A u \in ToSet(placed) : s \notin Preceding(u)
  <2> SUFFICES ASSUME NEW u \in ToSet(placed), s \in Preceding(u) PROVE FALSE
    OBVIOUS
  <2>1. PICK k \in 1 .. n : u = placed[k]
    BY <1>1 DEF ToSet
  <2>2. s \in {placed[i] : i \in 1 .. k - 1}
    BY <1>1, <2>1 DEF Respects
  <2> QED
    BY <1>1, <1>3, <2>2 DEF ToSet
<1>5. required[s] \subseteq ToSet(placed)
    BY <1>1, <1>3 DEF Traced
<1>6. inverse[s] \cap ToSet(placed) = {}
    BY <1>1, <1>4 DEF Traced
<1>7. ASSUME NEW p \in Pipelines, s \in StagesOf(p)
      PROVE  Ahead(p, s) \subseteq ToSet(placed) /\ FromOn(p, s) \cap ToSet(placed) = {}
  <2>1. ASSUME NEW u \in Ahead(p, s) PROVE u \in ToSet(placed)
    BY <1>3, <1>7, <2>1, PrecedingMeans
  <2>2. ASSUME NEW u \in FromOn(p, s), u \in ToSet(placed) PROVE FALSE
    <3>1. s # u
      BY <1>3, <2>2
    <3>2. s \in Ahead(p, u) /\ u \in StagesOf(p)
      BY <1>1, <1>7, <3>1, AheadOrBehind DEF FromOn
    <3>3. s \in Preceding(u)
      BY <3>2, PrecedingMeans
    <3> QED
      BY <1>4, <2>2, <3>3
  <2> QED
    BY <2>1, <2>2
<1>8. CanInsert(s, Prefix(n))
    BY <1>2, <1>3, <1>5, <1>6, <1>7, Zenon DEF CanInsert
<1>9. n \in Gaps(s)
    BY <1>1, <1>8 DEF Gaps
<1>10. ~Contains(placed, s)
    BY <1>1, <1>3 DEF Contains, ToSet
<1> QED
    BY <1>9, <1>10

\* The sequences of a set hold nothing but its elements, and each of them once.
LEMMA AllInOrder ==
    ASSUME NEW R, IsFiniteSet(R), NEW order \in SetToSeqs(R)
    PROVE  /\ order \in Seq(R) /\ IsInjective(order) /\ ToSet(order) = R
           /\ Len(order) = Cardinality(R) /\ DOMAIN order = 1 .. Cardinality(R)
<1> DEFINE n == Cardinality(R)
<1>1. n \in Nat
    BY FS_CardinalityType
<1>2. order \in [1 .. n -> R] /\ \A i, j \in 1 .. n : i # j => order[i] # order[j]
    BY DEF SetToSeqs
<1> HIDE DEF n
<1>3. order \in Seq(R) /\ Len(order) = n /\ IsInjective(order) /\ DOMAIN order = 1 .. n
    BY <1>1, <1>2 DEF IsInjective
<1>4. IsFiniteSet(ToSet(order)) /\ Cardinality(ToSet(order)) = Cardinality(R)
    BY <1>3, NothingTwice DEF n
<1>5. ToSet(order) \subseteq R
    BY <1>3 DEF ToSet
<1>6. ToSet(order) = R
    BY <1>4, <1>5, FS_Subset
<1> QED
    BY <1>3, <1>6 DEF n

\* As long as a stage is missing, one is ready, if there is an order that would do: the
\* first of that order that is not placed yet.
LEMMA SomeReady ==
    ASSUME ResolveInv, Solvable, Len(placed) # Len(stages)
    PROVE  \E i \in 1 .. Len(stages) : Ready(stages[i])
<1> DEFINE R == ToSet(stages)
<1>1. /\ Given /\ placed \in Seq(R) /\ IsInjective(placed) /\ pipelines \in Mounts
      /\ stages \in Seq(R)
    BY DEF ResolveInv, Given, TypeOK, RequiredBefore
<1>2. /\ IsFiniteSet(R) /\ Cardinality(R) = Len(stages) /\ Len(stages) \in Nat
      /\ ToSet(placed) # R
    BY <1>1, NotMore
<1>3. ToSet(placed) \subseteq R
    BY <1>1 DEF ToSet
<1>4. PICK order \in SetToSeqs(R) : Respects(order)
    BY DEF Solvable
<1> HIDE DEF R
<1>5. /\ order \in Seq(R) /\ Len(order) = Len(stages) /\ ToSet(order) = R
      /\ DOMAIN order = 1 .. Len(stages)
    BY <1>2, <1>4, AllInOrder
<1> DEFINE T == {i \in 1 .. Len(stages) : order[i] \notin ToSet(placed)}
<1>6. T # {} /\ T \subseteq Nat
    BY <1>2, <1>3, <1>5 DEF ToSet
<1>7. Min(T) \in T /\ \A i \in T : Min(T) <= i
    BY <1>6, FirstPosition
<1>8. PICK m \in 1 .. Len(stages) :
            /\ order[m] \notin ToSet(placed)
            /\ \A i \in 1 .. Len(stages) : i < m => order[i] \in ToSet(placed)
    BY <1>2, <1>7
<1>9. Preceding(order[m]) \subseteq {order[i] : i \in 1 .. m - 1}
    BY <1>4, <1>5, <1>8 DEF Respects
<1>10. {order[i] : i \in 1 .. m - 1} \subseteq ToSet(placed)
    BY <1>2, <1>8
<1>11. Ready(order[m])
    BY <1>8, <1>9, <1>10 DEF Ready
<1>12. order[m] \in R /\ DOMAIN stages = 1 .. Len(stages)
    BY <1>1, <1>5, <1>8
<1>13. PICK j \in 1 .. Len(stages) : stages[j] = order[m]
    BY <1>12 DEF R, ToSet
<1> QED
    BY <1>11, <1>13

\* None of that changes while the pipelines and the vector stay.
LEMMA ReadyStays ==
    ASSUME collected' = collected
    PROVE  /\ Solvable' <=> Solvable
           /\ placed' = placed => \A i : Ready(stages[i])' <=> Ready(stages[i])
<1>1. pipelines' = pipelines /\ stages' = stages
    BY DEF collected
<1>2. Pipelines' = Pipelines
    BY <1>1 DEF Pipelines
<1>3. \A t : Preceding(t)' = Preceding(t)
    BY <1>2, Zenon DEF Preceding
<1>4. ASSUME NEW o PROVE Respects(o)' <=> Respects(o)
    BY <1>3 DEF Respects
<1>5. Solvable' <=> Solvable
  <2>1. ToSet(stages)' = ToSet(stages)
    BY <1>1
  <2> QED
    BY <1>4, <2>1, Zenon DEF Solvable
<1>6. ASSUME placed' = placed, NEW i PROVE Ready(stages[i])' <=> Ready(stages[i])
    BY <1>1, <1>3, <1>6 DEF Ready
<1> QED
    BY <1>5, <1>6

\* The first pass finds a stage that is ready.
LEMMA ProgressInitial == Init => Progress
<1> SUFFICES ASSUME Init, Solvable, Len(placed) # Len(stages)
             PROVE  \E i \in turn .. Len(stages) : Ready(stages[i])
    BY DEF Init, Progress
<1>1. ResolveInv /\ turn = 1
    BY ResolveInitial DEF Init
<1> QED
    BY <1>1, SomeReady

\* Every pass places a stage.
LEMMA ProgressInductive == ResolveInv /\ Progress /\ [Next]_vars => Progress'
<1> SUFFICES ASSUME ResolveInv, Progress, [Next]_vars, Solvable' PROVE Progress'
    BY DEF Progress
<1>1. collected' = collected /\ pipelines' = pipelines /\ stages' = stages
    BY DEF Next, vars, collected, Insert, EndPass, Optimize, Finish, Return
<1>2. Solvable /\ (placed' = placed => \A i : Ready(stages[i])' <=> Ready(stages[i]))
    BY <1>1, ReadyStays
<1>3. /\ TypeOK /\ Given /\ Len(placed) \in Nat /\ Len(stages) \in Nat
      /\ Len(placed) <= Len(stages) /\ stages \in Seq(ToSet(stages))
      /\ turn \in 1 .. Len(stages) + 1 /\ pass \in 0 .. Len(stages) + 1
    BY NotMore DEF ResolveInv, Given, TypeOK, RequiredBefore
<1>4. CASE Insert
  <2>1. at = "insert" /\ at' = at /\ pass' = pass /\ turn' = turn + 1 /\ turn <= Len(stages)
    BY <1>4 DEF Insert
  <2>2. \/ placed' = placed /\ (Contains(placed, stages[turn]) \/ Gaps(stages[turn]) = {})
        \/ Len(placed') = Len(placed) + 1 /\ ~Contains(placed, stages[turn])
    BY <1>4, InsertRight
  <2>3. stages[turn] \in ToSet(stages) /\ placed \in Seq(ToSet(stages)) /\ IsInjective(placed)
    BY <1>3, <2>1 DEF ToSet, ResolveInv, TypeOK, RequiredBefore
  <2>4. CASE Len(placed') = Len(placed) + 1 /\ ~Contains(placed, stages[turn])
    <3>1. stages[turn] \notin ToSet(placed)
      BY <2>3, <2>4 DEF Contains, ToSet
    <3>2. Len(placed) # Len(stages)
      BY <1>3, <2>3, <3>1, NotMore
    <3>3. Len(placed') = Len(stages') \/ Len(placed') > pass'
      BY <1>1, <1>2, <1>3, <2>1, <2>4, <3>2 DEF Progress
    <3> QED
      BY <2>1, <3>3 DEF Progress
  <2>5. CASE placed' = placed /\ (Contains(placed, stages[turn]) \/ Gaps(stages[turn]) = {})
    <3>1. ~Ready(stages[turn])
      BY <2>3, <2>5, ReadyFits
    <3>2. \/ Len(placed) = Len(stages) \/ Len(placed) > pass
          \/ Len(placed) = pass /\ \E i \in turn .. Len(stages) : Ready(stages[i])
      BY <1>2, <2>1 DEF Progress
    <3>3. ASSUME NEW i \in turn .. Len(stages), Ready(stages[i])
          PROVE  i \in turn' .. Len(stages') /\ Ready(stages[i])'
      <4>1. i # turn
        BY <3>1, <3>3
      <4>2. i \in turn' .. Len(stages')
        BY <1>1, <1>3, <2>1, <4>1
      <4> QED
        BY <1>1, <1>2, <2>5, <3>3, <4>2
    <3> QED
      BY <1>1, <2>1, <2>5, <3>2, <3>3 DEF Progress
  <2> QED
    BY <2>2, <2>4, <2>5, Zenon
<1>5. CASE EndPass
  <2>1. at = "insert" /\ turn > Len(stages) /\ turn' = 1 /\ placed' = placed
    BY <1>5 DEF EndPass
  <2>2. Len(placed) = Len(stages) \/ Len(placed) > pass
    BY <1>2, <1>3, <2>1 DEF Progress
  <2>3. CASE Len(placed) = Len(stages)
    BY <1>5, <2>3 DEF EndPass, Progress
  <2>4. CASE Len(placed) # Len(stages)
    <3>1. pass # MaxIteration
      BY <1>3, <2>2, <2>4 DEF MaxIteration
    <3>2. at' = "insert" /\ pass' = pass + 1
      BY <1>5, <2>4, <3>1 DEF EndPass
    <3>3. \E i \in 1 .. Len(stages) : Ready(stages[i])
      BY <1>2, <2>4, SomeReady
    <3>4. \E i \in turn' .. Len(stages') : Ready(stages[i])'
      BY <1>1, <1>2, <2>1, <3>3
    <3>5. Len(placed') > pass' \/ Len(placed') = pass'
      BY <1>3, <2>1, <2>2, <2>4, <3>2
    <3> QED
      BY <3>2, <3>4, <3>5 DEF Progress
  <2> QED
    BY <2>3, <2>4
<1>6. CASE Optimize \/ Finish
    BY <1>6 DEF Optimize, Finish, Progress
<1>7. CASE Return \/ UNCHANGED vars
  <2>1. turn' = turn /\ pass' = pass /\ at' = at /\ placed' = placed
    BY <1>7 DEF Return, vars
  <2>2. at # "failed" /\ (at = "insert" =>
            \/ Len(placed) = Len(stages) \/ Len(placed) > pass
            \/ Len(placed) = pass /\ \E i \in turn .. Len(stages) : Ready(stages[i]))
    BY <1>2 DEF Progress
  <2>3. \A i \in turn .. Len(stages) : Ready(stages[i]) => Ready(stages[i])'
    BY <1>1, <1>2, <2>1
  <2> QED
    BY <1>1, <2>1, <2>2, <2>3 DEF Progress
<1> QED
    BY <1>4, <1>5, <1>6, <1>7 DEF Next

\* resolve() throws only for pipelines that no order satisfies: the greedy insertion
\* and the bound on its passes overlook none, for all pipelines.
THEOREM FailsTheorem == Spec => []FailsOnlyIfUnsolvable
<1>1. Init => ResolveInv /\ Progress
    BY ResolveInitial, ProgressInitial
<1>2. ResolveInv /\ Progress /\ [Next]_vars => (ResolveInv /\ Progress)'
    BY ResolveInductive, ProgressInductive
<1>3. ResolveInv /\ Progress => FailsOnlyIfUnsolvable
    BY DEF Progress, Solvable, FailsOnlyIfUnsolvable
<1> QED
    BY <1>1, <1>2, <1>3, PTL DEF Spec
------------------------------------------------------------------------------
\* What DependsOn() has found after each of its rounds.
Finds(t, found) ==
    /\ found[0] = required[t]
    /\ \A i \in Nat : i < Len(placed) =>
          found[i + 1] = found[i] \cup UNION {required[s] : s \in found[i]}

\* The recursive function in DependsOn() exists and says what its equations say.
LEMMA DependsOnIs ==
    ASSUME placed \in Seq(ToSet(stages)), NEW t \in ToSet(stages),
           \A s \in ToSet(stages) : required[s] \subseteq ToSet(stages)
    PROVE  \E found : Finds(t, found) /\ DependsOn(t) = found[Len(placed)]
<1> DEFINE N == Len(placed)
           R == ToSet(stages)
           g == [p \in Nat \X SUBSET R |-> p[2] \cup UNION {required[s] : s \in p[2]}]
           found[n \in 0 .. Len(placed)] ==
              IF n = 0 THEN required[t]
              ELSE LET before == found[n - 1]
                   IN  before \cup UNION {required[s] : s \in before}
<1>1. N \in Nat
    OBVIOUS
<1>2. PICK S : S = SUBSET R
    OBVIOUS
<1>3. PICK e \in S : e = required[t]
    BY <1>2
<1>4. \A i \in Nat : \A v \in SUBSET R : g[<<i, v>>] = v \cup UNION {required[s] : s \in v}
    OBVIOUS
<1>5. ASSUME NEW i \in Nat, NEW v \in SUBSET R PROVE g[<<i, v>>] \in SUBSET R
  <2>1. v \cup UNION {required[s] : s \in v} \subseteq R
    OBVIOUS
  <2> QED
    BY <1>4, <2>1, Zenon
<1>6. \A i \in Nat : \A v \in S : g[<<i, v>>] \in S
    BY <1>2, <1>5
<1> HIDE DEF g
<1> DEFINE h == Unfolded(S, e, g)
<1>7. /\ \A i \in Nat : h[i] \in S
      /\ h[0] = e /\ \A i \in Nat : h[i + 1] = g[<<i, h[i]>>]
    BY ONLY e \in S, <1>6, Recursion
<1> HIDE DEF h
<1>8. \A i \in Nat : h[i + 1] = h[i] \cup UNION {required[s] : s \in h[i]}
    BY <1>2, <1>4, <1>7, Zenon
<1> DEFINE f == [n \in 0 .. N |-> h[n]]
<1>9. f = [n \in 0 .. N |->
              IF n = 0 THEN required[t]
              ELSE LET before == f[n - 1] IN before \cup UNION {required[s] : s \in before}]
  <2> SUFFICES ASSUME NEW n \in 0 .. N, n # 0
               PROVE  h[n] = f[n - 1] \cup UNION {required[s] : s \in f[n - 1]}
    BY <1>3, <1>7
  <2>1. n - 1 \in Nat /\ n - 1 \in 0 .. N /\ (n - 1) + 1 = n
    BY <1>1
  <2> QED
    BY <1>8, <2>1
<1>10. found = [n \in 0 .. N |->
              IF n = 0 THEN required[t]
              ELSE LET before == found[n - 1] IN before \cup UNION {required[s] : s \in before}]
    BY <1>9
<1>11. DependsOn(t) = found[N]
    BY DEF DependsOn
<1> HIDE DEF found
<1>12. Finds(t, found)
  <2>1. found[0] = required[t]
    BY <1>1, <1>10
  <2>2. ASSUME NEW i \in Nat, i < N
        PROVE  found[i + 1] = found[i] \cup UNION {required[s] : s \in found[i]}
    <3>1. i + 1 \in 0 .. N /\ i + 1 # 0 /\ (i + 1) - 1 = i
      BY <1>1, <2>2
    <3> QED
      BY <1>10, <3>1
  <2> QED
    BY <2>1, <2>2 DEF Finds
<1> QED
    BY <1>11, <1>12

\* Whoever precedes a stage is found by going back from neighbour to neighbour.
LEMMA Suffices == ResolveInv => DependenciesSuffice
<1> SUFFICES ASSUME ResolveInv, at = "done", Unshared, NEW t \in ToSet(placed),
                    NEW u \in Preceding(t)
             PROVE  u \in DependsOn(t)
    BY DEF DependenciesSuffice
<1> DEFINE R == ToSet(stages)
           N == Len(placed)
<1>1. /\ Given /\ placed \in Seq(R) /\ IsInjective(placed) /\ Respects(placed)
      /\ N = Len(stages)
    BY DEF ResolveInv, TypeOK, RequiredBefore
<1>2. /\ ToSet(placed) = R /\ N \in Nat /\ IsFiniteSet(R) /\ Cardinality(R) = N
    BY <1>1, NotMore
<1>3. /\ pipelines \in Mounts /\ Collected /\ Traced /\ Chained
      /\ \A p \in Pipelines : StagesOf(p) \subseteq R
    BY <1>1 DEF Given
<1> HIDE DEF R
<1>4. ASSUME NEW s \in R PROVE required[s] \subseteq R
  <2>1. PICK k \in 1 .. N : s = placed[k]
    BY <1>1, <1>2 DEF ToSet
  <2>2. Preceding(s) \subseteq {placed[i] : i \in 1 .. k - 1}
    BY <1>1, <2>1 DEF Respects
  <2>3. \A i \in 1 .. k - 1 : placed[i] \in R
    BY <1>1, <1>2
  <2>4. required[s] \subseteq Preceding(s)
    BY <1>3 DEF Traced, R
  <2> QED
    BY <2>2, <2>3, <2>4
<1>5. t \in R
    BY <1>2
<1>6. PICK found : Finds(t, found) /\ DependsOn(t) = found[N]
    BY <1>1, <1>4, <1>5, DependsOnIs DEF R
<1>7. CASE \E p \in Pipelines : t \in DOMAIN p.requires /\ u \in p.requires[t]
  <2>1. u \in required[t]
    BY <1>3, <1>5, <1>7 DEF Collected, R
  <2> DEFINE T == {n \in Nat : n <= N => u \in found[n]}
  <2>2. 0 \in T
    BY <1>6, <2>1 DEF Finds
  <2>3. ASSUME NEW n \in Nat, n \in T PROVE n + 1 \in T
    <3> SUFFICES ASSUME n + 1 <= N PROVE u \in found[n + 1]
      OBVIOUS
    <3>1. n < N /\ u \in found[n]
      BY <1>2, <2>3
    <3> QED
      BY <1>6, <3>1 DEF Finds
  <2> HIDE DEF T
  <2>4. \A n \in Nat : n \in T
    BY <2>2, <2>3, AllNumbers
  <2> QED
    BY <1>2, <1>6, <2>4 DEF T
<1>8. CASE \E p \in Pipelines : t \in StagesOf(p) /\ u \in Ahead(p, t)
  <2>1. PICK p \in Pipelines : t \in StagesOf(p) /\ u \in Ahead(p, t)
    BY <1>8
  <2> DEFINE o == p.stages
             m == IndexOf(o, t)
  <2>2. o \in Seq(StagesOf(p)) /\ IsInjective(o) /\ DOMAIN o = 1 .. Len(o) /\ Len(o) \in Nat
    <3>1. PICK i \in DOMAIN pipelines : p = pipelines[i]
      BY DEF Pipelines, ToSet
    <3>2. o \in Seq(StagesOf(p)) /\ IsInjective(o)
      BY <1>3, <3>1, MountsAssumption
    <3> QED
      BY <3>2
  <2>3. m \in 1 .. Len(o) /\ o[m] = t
    <3>1. \E i \in DOMAIN o : o[i] = t
      BY <2>1 DEF StagesOf, ToSet
    <3> QED
      BY <2>2, <3>1 DEF IndexOf
  <2>4. PICK j \in 1 .. m - 1 : u = o[j]
    BY <2>1 DEF Ahead
  <2>5. Len(o) <= N
    <3>1. IsFiniteSet(StagesOf(p)) /\ Cardinality(StagesOf(p)) = Len(o)
      BY <2>2, NothingTwice DEF StagesOf
    <3>2. StagesOf(p) \subseteq R
      BY <1>3
    <3>3. Cardinality(StagesOf(p)) <= Cardinality(R)
      BY <1>2, <3>2, FS_Subset
    <3> QED
      BY <1>2, <3>1, <3>3
  <2>6. \A i \in 1 .. Len(o) - 1 : o[i] \in required[o[i + 1]]
    BY <1>3 DEF Chained
  <2> HIDE DEF o, m
  \* A round finds the stage in front of those found before.
  <2> DEFINE T == {n \in Nat : n <= N => \A i \in 1 .. m - 1 : i >= m - 1 - n => o[i] \in found[n]}
  <2>7. 0 \in T
    <3> SUFFICES ASSUME NEW i \in 1 .. m - 1, i >= m - 1 PROVE o[i] \in found[0]
      BY <2>3
    <3>1. i + 1 = m /\ i \in 1 .. Len(o) - 1
      BY <2>2, <2>3
    <3> QED
      BY <1>6, <2>3, <2>6, <3>1 DEF Finds
  <2>8. ASSUME NEW n \in Nat, n \in T PROVE n + 1 \in T
    <3> SUFFICES ASSUME n + 1 <= N, NEW i \in 1 .. m - 1, i >= m - 1 - (n + 1)
                 PROVE  o[i] \in found[n + 1]
      OBVIOUS
    <3>1. n < N /\ \A l \in 1 .. m - 1 : l >= m - 1 - n => o[l] \in found[n]
      BY <1>2, <2>8
    <3>2. found[n + 1] = found[n] \cup UNION {required[s] : s \in found[n]}
      BY <1>6, <3>1 DEF Finds
    <3>3. CASE i >= m - 1 - n
      BY <3>1, <3>2, <3>3
    <3>4. CASE ~(i >= m - 1 - n)
      <4>1. i + 1 \in 1 .. m - 1 /\ i + 1 >= m - 1 - n /\ i \in 1 .. Len(o) - 1
        BY <2>2, <2>3, <3>4
      <4>2. o[i + 1] \in found[n] /\ o[i] \in required[o[i + 1]]
        BY <2>6, <3>1, <4>1
      <4> QED
        BY <3>2, <4>2
    <3> QED
      BY <3>3, <3>4
  <2> HIDE DEF T
  <2>9. \A n \in Nat : n \in T
    BY <2>7, <2>8, AllNumbers
  <2>10. j >= m - 1 - N
    BY <1>2, <2>2, <2>3, <2>4, <2>5
  <2> QED
    BY <1>2, <1>6, <2>4, <2>9, <2>10 DEF T
<1> QED
    BY <1>7, <1>8, PrecedingMeans

\* The direct dependencies, which are all that the run time sees, order whatever the
\* pipelines want ordered, for all pipelines of which no two mount the same stage.
THEOREM SufficeTheorem == Spec => []DependenciesSuffice
<1>1. ResolveInv => DependenciesSuffice
    BY Suffices
<1> QED
    BY <1>1, ResolveInvariant, PTL
------------------------------------------------------------------------------
\* The two orderings side by side, as the run has them.
LEMMA BothInitial == ResolveInit => ResolveInv /\ Progress /\ OrderInv
    BY ResolveInitial, ProgressInitial, OrderInitial DEF ResolveInit

\* Only one of them moves.
LEMMA BothInductive ==
    ResolveInv /\ Progress /\ OrderInv /\ [ResolveNext]_allVars =>
        (ResolveInv /\ Progress /\ OrderInv)'
<1> SUFFICES ASSUME ResolveInv, Progress, OrderInv, [ResolveNext]_allVars
             PROVE  (ResolveInv /\ Progress /\ OrderInv)'
    OBVIOUS
<1>1. [Next]_vars /\ [OrderNext]_orderVars
    BY DEF ResolveNext, allVars, vars, collected, orderVars
<1>2. ResolveInv' /\ Progress'
    BY <1>1, ResolveInductive, ProgressInductive
<1>3. OrderInv'
    BY <1>1, OrderInductive
<1> QED
    BY <1>2, <1>3

\* In every reachable state of the run, what is known of both orderings holds.
THEOREM BothInvariant == ResolveSpec => [](ResolveInv /\ Progress /\ OrderInv)
    BY BothInitial, BothInductive, PTL DEF ResolveSpec

\* Both keep the types of their state.
THEOREM ResolveTypes == ResolveSpec => []ResolveTypeOK
<1>1. ResolveInv /\ Progress /\ OrderInv => ResolveTypeOK
    BY DEF ResolveInv, OrderInv, ResolveTypeOK
<1> QED
    BY <1>1, BothInvariant, PTL
------------------------------------------------------------------------------
\* An order for the stages of the engine.
EngineOrder == <<"TickBegin", "InputTick", "ActorTick", "ReflowTick", "SceneBroadcast",
                 "SceneUpdate", "ScenePostProcess", "RenderTick", "ActorHousekeeping",
                 "TickEnd">>

EnginePipelines == {Core, Actor, Scene, RenderScene, InputPipe, Reflow}

\* The stages that each pipeline mounts.
LEMMA EngineStages ==
    /\ StagesOf(Core) = {"TickBegin", "TickEnd"}
    /\ StagesOf(Actor) = {"ActorTick", "ActorHousekeeping"}
    /\ StagesOf(Scene) = {"SceneBroadcast", "SceneUpdate", "ScenePostProcess"}
    /\ StagesOf(RenderScene) = {"RenderTick"}
    /\ StagesOf(InputPipe) = {"InputTick"}
    /\ StagesOf(Reflow) = {"ReflowTick"}
    BY DEF StagesOf, ToSet, Core, Actor, Scene, RenderScene, InputPipe, Reflow

\* What is registered when the pipelines of the engine are resolved.
LEMMA EngineMounted ==
    ASSUME pipelines \in EngineMounts
    PROVE  Pipelines = EnginePipelines /\ Unshared
<1>1. IsFiniteSet(EnginePipelines)
  <2>1. IsFiniteSet({Core})
    BY FS_Singleton
  <2>2. IsFiniteSet({Core} \cup {Actor})
    BY <2>1, FS_AddElement
  <2>3. IsFiniteSet(({Core} \cup {Actor}) \cup {Scene})
    BY <2>2, FS_AddElement
  <2>4. IsFiniteSet((({Core} \cup {Actor}) \cup {Scene}) \cup {RenderScene})
    BY <2>3, FS_AddElement
  <2>5. IsFiniteSet(((({Core} \cup {Actor}) \cup {Scene}) \cup {RenderScene}) \cup {InputPipe})
    BY <2>4, FS_AddElement
  <2>6. IsFiniteSet((((({Core} \cup {Actor}) \cup {Scene}) \cup {RenderScene}) \cup {InputPipe})
                        \cup {Reflow})
    BY <2>5, FS_AddElement
  <2>7. EnginePipelines = (((({Core} \cup {Actor}) \cup {Scene}) \cup {RenderScene})
                               \cup {InputPipe}) \cup {Reflow}
    BY DEF EnginePipelines
  <2> QED
    BY <2>6, <2>7
<1>2. pipelines \in SetToSeqs(EnginePipelines)
    BY DEF EngineMounts, EnginePipelines
<1>3. ToSet(pipelines) = EnginePipelines /\ IsInjective(pipelines)
    BY <1>1, <1>2, AllInOrder
<1>4. \A p, q \in EnginePipelines : p = q \/ StagesOf(p) \cap StagesOf(q) = {}
    BY EngineStages DEF EnginePipelines
<1>5. Unshared
  <2> SUFFICES ASSUME NEW k \in DOMAIN pipelines, NEW l \in DOMAIN pipelines, k # l
               PROVE  StagesOf(pipelines[k]) \cap StagesOf(pipelines[l]) = {}
    BY DEF Unshared
  <2>1. pipelines[k] \in EnginePipelines /\ pipelines[l] \in EnginePipelines
    BY <1>3 DEF ToSet
  <2>2. pipelines[k] # pipelines[l]
    BY <1>3 DEF IsInjective
  <2> QED
    BY <1>4, <2>1, <2>2
<1> QED
    BY <1>3, <1>5 DEF Pipelines

\* What a pipeline mounts ahead of its stages.
LEMMA EngineAhead ==
    /\ Ahead(Core, "TickBegin") = {} /\ Ahead(Core, "TickEnd") = {"TickBegin"}
    /\ Ahead(Actor, "ActorTick") = {} /\ Ahead(Actor, "ActorHousekeeping") = {"ActorTick"}
    /\ Ahead(Scene, "SceneBroadcast") = {} /\ Ahead(Scene, "SceneUpdate") = {"SceneBroadcast"}
    /\ Ahead(Scene, "ScenePostProcess") = {"SceneBroadcast", "SceneUpdate"}
    /\ Ahead(RenderScene, "RenderTick") = {} /\ Ahead(InputPipe, "InputTick") = {}
    /\ Ahead(Reflow, "ReflowTick") = {}
<1> DEFINE InFront(o, k) == {o[i] : i \in 1 .. k - 1}
<1>1. ASSUME NEW p, NEW o, o = p.stages, IsInjective(o), NEW k \in DOMAIN o
      PROVE  Ahead(p, o[k]) = InFront(o, k)
    BY <1>1, IndexIs DEF Ahead
<1> HIDE DEF InFront
<1>2. Ahead(Core, "TickBegin") = {} /\ Ahead(Core, "TickEnd") = {"TickBegin"}
  <2>1. PICK o : o = Core.stages
    OBVIOUS
  <2>2. o = <<"TickBegin", "TickEnd">>
    BY <2>1 DEF Core
  <2>3. DOMAIN o = 1 .. 2 /\ o[1] = "TickBegin" /\ o[2] = "TickEnd"
    BY <2>2
  <2>4. IsInjective(o)
    BY <2>3 DEF IsInjective
  <2>5. \A k \in DOMAIN o : Ahead(Core, o[k]) = InFront(o, k)
    BY <1>1, <2>1, <2>4, Zenon
  <2>6. Ahead(Core, o[1]) = {} /\ Ahead(Core, o[2]) = {o[1]}
    BY <2>3, <2>5 DEF InFront
  <2> QED
    BY <2>3, <2>6
<1>3. Ahead(Actor, "ActorTick") = {} /\ Ahead(Actor, "ActorHousekeeping") = {"ActorTick"}
  <2>1. PICK o : o = Actor.stages
    OBVIOUS
  <2>2. o = <<"ActorTick", "ActorHousekeeping">>
    BY <2>1 DEF Actor
  <2>3. DOMAIN o = 1 .. 2 /\ o[1] = "ActorTick" /\ o[2] = "ActorHousekeeping"
    BY <2>2
  <2>4. IsInjective(o)
    BY <2>3 DEF IsInjective
  <2>5. \A k \in DOMAIN o : Ahead(Actor, o[k]) = InFront(o, k)
    BY <1>1, <2>1, <2>4, Zenon
  <2>6. Ahead(Actor, o[1]) = {} /\ Ahead(Actor, o[2]) = {o[1]}
    BY <2>3, <2>5 DEF InFront
  <2> QED
    BY <2>3, <2>6
<1>4. /\ Ahead(Scene, "SceneBroadcast") = {} /\ Ahead(Scene, "SceneUpdate") = {"SceneBroadcast"}
      /\ Ahead(Scene, "ScenePostProcess") = {"SceneBroadcast", "SceneUpdate"}
  <2>1. PICK o : o = Scene.stages
    OBVIOUS
  <2>2. o = <<"SceneBroadcast", "SceneUpdate", "ScenePostProcess">>
    BY <2>1 DEF Scene
  <2>3. /\ DOMAIN o = 1 .. 3 /\ o[1] = "SceneBroadcast" /\ o[2] = "SceneUpdate"
        /\ o[3] = "ScenePostProcess"
    BY <2>2
  <2>4. IsInjective(o)
    BY <2>3 DEF IsInjective
  <2>5. \A k \in DOMAIN o : Ahead(Scene, o[k]) = InFront(o, k)
    BY <1>1, <2>1, <2>4, Zenon
  <2>6. Ahead(Scene, o[1]) = {} /\ Ahead(Scene, o[2]) = {o[1]} /\ Ahead(Scene, o[3]) = {o[1], o[2]}
    BY <2>3, <2>5 DEF InFront
  <2> QED
    BY <2>3, <2>6
<1>5. /\ Ahead(RenderScene, "RenderTick") = {} /\ Ahead(InputPipe, "InputTick") = {}
      /\ Ahead(Reflow, "ReflowTick") = {}
  <2>1. ASSUME NEW p, NEW s, p.stages = <<s>> PROVE Ahead(p, s) = {}
    <3>1. PICK o : o = p.stages
      OBVIOUS
    <3>2. DOMAIN o = 1 .. 1 /\ o[1] = s
      BY <2>1, <3>1
    <3>3. IsInjective(o)
      BY <3>2 DEF IsInjective
    <3>4. \A k \in DOMAIN o : Ahead(p, o[k]) = InFront(o, k)
      BY <1>1, <3>1, <3>3, Zenon
    <3> QED
      BY <3>2, <3>4 DEF InFront
  <2> QED
    BY <2>1 DEF RenderScene, InputPipe, Reflow
<1> QED
    BY <1>2, <1>3, <1>4, <1>5

\* s comes before t in that order.
Earlier(s, t) ==
    \E k \in DOMAIN EngineOrder : EngineOrder[k] = t /\
        \E i \in 1 .. k - 1 : EngineOrder[i] = s

\* The order holds each stage of the engine once.
LEMMA EngineOrderIs ==
    /\ EngineOrder \in Seq(ToSet(EngineOrder)) /\ Len(EngineOrder) = 10
    /\ DOMAIN EngineOrder = 1 .. 10 /\ IsInjective(EngineOrder)
    /\ ToSet(EngineOrder) = UNION {StagesOf(p) : p \in EnginePipelines}
<1>1. PICK o : o = EngineOrder
    OBVIOUS
<1>2. /\ DOMAIN o = 1 .. 10 /\ o[1] = "TickBegin" /\ o[2] = "InputTick" /\ o[3] = "ActorTick"
      /\ o[4] = "ReflowTick" /\ o[5] = "SceneBroadcast" /\ o[6] = "SceneUpdate"
      /\ o[7] = "ScenePostProcess" /\ o[8] = "RenderTick" /\ o[9] = "ActorHousekeeping"
      /\ o[10] = "TickEnd" /\ Len(o) = 10
    BY <1>1 DEF EngineOrder
<1>3. IsInjective(o)
    BY <1>2 DEF IsInjective
<1>4. o = [i \in 1 .. 10 |-> o[i]]
    BY <1>1 DEF EngineOrder
<1>5. o \in Seq(ToSet(o))
    BY <1>2, <1>4 DEF ToSet
<1>6. ToSet(o) = {"TickBegin", "InputTick", "ActorTick", "ReflowTick", "SceneBroadcast",
                  "SceneUpdate", "ScenePostProcess", "RenderTick", "ActorHousekeeping", "TickEnd"}
    BY <1>2 DEF ToSet
<1>7. UNION {StagesOf(p) : p \in EnginePipelines} =
          StagesOf(Core) \cup StagesOf(Actor) \cup StagesOf(Scene) \cup StagesOf(RenderScene)
              \cup StagesOf(InputPipe) \cup StagesOf(Reflow)
    BY DEF EnginePipelines
<1>8. ToSet(o) = UNION {StagesOf(p) : p \in EnginePipelines}
    BY <1>6, <1>7, EngineStages
<1> QED
    BY <1>1, <1>2, <1>3, <1>5, <1>8

\* Which stages come before which.
LEMMA EngineEarlier ==
    /\ \A s \in {"RenderTick", "ActorHousekeeping", "TickBegin"} : Earlier(s, "TickEnd")
    /\ \A s \in {"TickBegin", "InputTick"} : Earlier(s, "ActorTick")
    /\ \A s \in {"RenderTick", "ActorTick"} : Earlier(s, "ActorHousekeeping")
    /\ \A s \in {"TickBegin", "InputTick", "ActorTick"} : Earlier(s, "SceneBroadcast")
    /\ \A s \in {"SceneBroadcast"} : Earlier(s, "SceneUpdate")
    /\ \A s \in {"SceneBroadcast", "SceneUpdate"} : Earlier(s, "ScenePostProcess")
    /\ \A s \in {"TickBegin", "ActorTick", "ReflowTick", "ScenePostProcess"} :
          Earlier(s, "RenderTick")
    /\ \A s \in {"TickBegin"} : Earlier(s, "InputTick")
    /\ \A s \in {"TickBegin", "InputTick", "ActorTick"} : Earlier(s, "ReflowTick")
<1>1. PICK o : o = EngineOrder
    OBVIOUS
<1>2. /\ DOMAIN o = 1 .. 10 /\ o[1] = "TickBegin" /\ o[2] = "InputTick" /\ o[3] = "ActorTick"
      /\ o[4] = "ReflowTick" /\ o[5] = "SceneBroadcast" /\ o[6] = "SceneUpdate"
      /\ o[7] = "ScenePostProcess" /\ o[8] = "RenderTick" /\ o[9] = "ActorHousekeeping"
      /\ o[10] = "TickEnd"
    BY <1>1 DEF EngineOrder
<1>3. ASSUME NEW k \in 1 .. 10, NEW i \in 1 .. k - 1 PROVE Earlier(o[i], o[k])
    BY <1>1, <1>2 DEF Earlier
<1>4. \A i \in {8, 9, 1} : Earlier(o[i], o[10])
    BY <1>3
<1>5. \A i \in {1, 2} : Earlier(o[i], o[3])
    BY <1>3
<1>6. \A i \in {8, 3} : Earlier(o[i], o[9])
    BY <1>3
<1>7. \A i \in {1, 2, 3} : Earlier(o[i], o[5])
    BY <1>3
<1>8. \A i \in {5} : Earlier(o[i], o[6])
    BY <1>3
<1>9. \A i \in {5, 6} : Earlier(o[i], o[7])
    BY <1>3
<1>10. \A i \in {1, 3, 4, 7} : Earlier(o[i], o[8])
    BY <1>3
<1>11. \A i \in {1} : Earlier(o[i], o[2])
    BY <1>3
<1>12. \A i \in {1, 2, 3} : Earlier(o[i], o[4])
    BY <1>3
<1> QED
    BY <1>2, <1>4, <1>5, <1>6, <1>7, <1>8, <1>9, <1>10, <1>11, <1>12

\* Whatever precedes a stage comes before it in that order.
LEMMA EnginePreceding ==
    ASSUME pipelines \in EngineMounts, NEW t, NEW u \in Preceding(t)
    PROVE  Earlier(u, t)
<1>1. Pipelines = EnginePipelines
    BY EngineMounted
<1>2. ASSUME NEW p \in Pipelines, t \in DOMAIN p.requires, u \in p.requires[t]
      PROVE  Earlier(u, t)
  <2>1. CASE p = Core
    BY <1>2, <2>1, EngineEarlier DEF Core
  <2>2. CASE p = Actor
    BY <1>2, <2>2, EngineEarlier DEF Actor
  <2>3. CASE p = Scene
    BY <1>2, <2>3, EngineEarlier DEF Scene
  <2>4. CASE p = RenderScene
    BY <1>2, <2>4, EngineEarlier DEF RenderScene
  <2>5. CASE p = InputPipe
    BY <1>2, <2>5, EngineEarlier DEF InputPipe
  <2>6. CASE p = Reflow
    BY <1>2, <2>6, EngineEarlier DEF Reflow
  <2> QED
    BY <1>1, <1>2, <2>1, <2>2, <2>3, <2>4, <2>5, <2>6 DEF EnginePipelines
<1>3. ASSUME NEW p \in Pipelines, t \in StagesOf(p), u \in Ahead(p, t)
      PROVE  Earlier(u, t)
  <2>1. CASE p = Core
    BY <1>3, <2>1, EngineStages, EngineAhead, EngineEarlier
  <2>2. CASE p = Actor
    BY <1>3, <2>2, EngineStages, EngineAhead, EngineEarlier
  <2>3. CASE p = Scene
    BY <1>3, <2>3, EngineStages, EngineAhead, EngineEarlier
  <2>4. CASE p = RenderScene
    BY <1>3, <2>4, EngineStages, EngineAhead
  <2>5. CASE p = InputPipe
    BY <1>3, <2>5, EngineStages, EngineAhead
  <2>6. CASE p = Reflow
    BY <1>3, <2>6, EngineStages, EngineAhead
  <2> QED
    BY <1>1, <1>3, <2>1, <2>2, <2>3, <2>4, <2>5, <2>6 DEF EnginePipelines
<1> QED
    BY <1>2, <1>3, PrecedingMeans

\* So there is an order for the stages of the engine.
LEMMA EngineSolvable ==
    ASSUME ResolveInv, pipelines \in EngineMounts
    PROVE  Solvable /\ ToSet(stages) = ToSet(EngineOrder)
<1>1. ToSet(stages) = ToSet(EngineOrder)
    BY EngineMounted, EngineOrderIs DEF ResolveInv, Given
<1>2. IsFiniteSet(ToSet(EngineOrder)) /\ Cardinality(ToSet(EngineOrder)) = 10
    BY EngineOrderIs, NothingTwice
<1>3. EngineOrder \in [1 .. 10 -> ToSet(EngineOrder)]
  <2>1. PICK S : S = ToSet(EngineOrder)
    OBVIOUS
  <2>2. EngineOrder \in Seq(S) /\ Len(EngineOrder) = 10
    BY <2>1, EngineOrderIs
  <2>3. \A o \in Seq(S) : o \in [1 .. Len(o) -> S]
    OBVIOUS
  <2>4. EngineOrder \in [1 .. Len(EngineOrder) -> S]
    BY <2>2, <2>3, Zenon
  <2> QED
    BY <2>1, <2>2, <2>4
<1>4. EngineOrder \in SetToSeqs(ToSet(EngineOrder))
    BY <1>2, <1>3, EngineOrderIs DEF SetToSeqs, IsInjective
<1>5. Respects(EngineOrder)
  <2> SUFFICES ASSUME NEW k \in DOMAIN EngineOrder, NEW u \in Preceding(EngineOrder[k])
               PROVE  u \in {EngineOrder[i] : i \in 1 .. k - 1}
    BY DEF Respects
  <2>1. PICK l \in DOMAIN EngineOrder : /\ EngineOrder[l] = EngineOrder[k]
                                       /\ \E i \in 1 .. l - 1 : EngineOrder[i] = u
    BY EnginePreceding DEF Earlier
  <2>2. l = k
    BY <2>1, EngineOrderIs DEF IsInjective
  <2> QED
    BY <2>1, <2>2
<1> QED
    BY <1>1, <1>4, <1>5 DEF Solvable

\* One stage of the engine depends on nothing, and one has nothing that depends on it.
LEMMA EngineEnds ==
    ASSUME ResolveInv, pipelines \in EngineMounts, NEW t \in ToSet(stages)
    PROVE  /\ t # "TickBegin" => required[t] # {}
           /\ t # "TickEnd" => inverse[t] # {}
<1>1. /\ Pipelines = EnginePipelines /\ Collected
      /\ ToSet(stages) = {"TickBegin", "TickEnd", "ActorTick", "ActorHousekeeping",
                          "SceneBroadcast", "SceneUpdate", "ScenePostProcess", "RenderTick",
                          "InputTick", "ReflowTick"}
  <2>1. Pipelines = EnginePipelines /\ Collected
    BY EngineMounted DEF ResolveInv, Given
  <2>2. ToSet(stages) = StagesOf(Core) \cup StagesOf(Actor) \cup StagesOf(Scene)
            \cup StagesOf(RenderScene) \cup StagesOf(InputPipe) \cup StagesOf(Reflow)
    BY <2>1 DEF ResolveInv, Given, EnginePipelines
  <2> QED
    BY <2>1, <2>2, EngineStages
\* What the pipelines declare.
<1>2. ASSUME NEW p \in EnginePipelines, NEW s \in DOMAIN p.requires \cap ToSet(stages),
             NEW u \in p.requires[s] \cap ToSet(stages)
      PROVE  u \in required[s] /\ s \in inverse[u]
    BY <1>1 DEF Collected
<1>3. /\ required["TickEnd"] # {} /\ inverse["RenderTick"] # {}
      /\ inverse["ActorHousekeeping"] # {}
  <2>1. /\ Core \in EnginePipelines /\ "TickEnd" \in DOMAIN Core.requires
        /\ Core.requires["TickEnd"] = {"RenderTick", "ActorHousekeeping"}
    BY DEF EnginePipelines, Core
  <2> QED
    BY <1>1, <1>2, <2>1
<1>4. /\ required["ActorTick"] # {} /\ required["ActorHousekeeping"] # {}
      /\ inverse["TickBegin"] # {} /\ inverse["InputTick"] # {}
  <2>1. /\ Actor \in EnginePipelines
        /\ "ActorTick" \in DOMAIN Actor.requires /\ "ActorHousekeeping" \in DOMAIN Actor.requires
        /\ Actor.requires["ActorTick"] = {"TickBegin", "InputTick"}
        /\ Actor.requires["ActorHousekeeping"] = {"RenderTick"}
    BY DEF EnginePipelines, Actor
  <2> QED
    BY <1>1, <1>2, <2>1
<1>5. required["SceneBroadcast"] # {} /\ inverse["ActorTick"] # {}
  <2>1. /\ Scene \in EnginePipelines /\ "SceneBroadcast" \in DOMAIN Scene.requires
        /\ Scene.requires["SceneBroadcast"] = {"TickBegin", "InputTick", "ActorTick"}
    BY DEF EnginePipelines, Scene
  <2> QED
    BY <1>1, <1>2, <2>1
<1>6. /\ required["RenderTick"] # {} /\ inverse["ReflowTick"] # {}
      /\ inverse["ScenePostProcess"] # {}
  <2>1. /\ RenderScene \in EnginePipelines /\ "RenderTick" \in DOMAIN RenderScene.requires
        /\ RenderScene.requires["RenderTick"] =
              {"TickBegin", "ActorTick", "ReflowTick", "ScenePostProcess"}
    BY DEF EnginePipelines, RenderScene
  <2> QED
    BY <1>1, <1>2, <2>1
<1>7. required["InputTick"] # {}
  <2>1. /\ InputPipe \in EnginePipelines /\ "InputTick" \in DOMAIN InputPipe.requires
        /\ InputPipe.requires["InputTick"] = {"TickBegin"}
    BY DEF EnginePipelines, InputPipe
  <2> QED
    BY <1>1, <1>2, <2>1
<1>8. required["ReflowTick"] # {}
  <2>1. /\ Reflow \in EnginePipelines /\ "ReflowTick" \in DOMAIN Reflow.requires
        /\ Reflow.requires["ReflowTick"] = {"TickBegin", "InputTick", "ActorTick"}
    BY DEF EnginePipelines, Reflow
  <2> QED
    BY <1>1, <1>2, <2>1
\* The order of the scene stages.
<1>9. /\ required["SceneUpdate"] # {} /\ required["ScenePostProcess"] # {}
      /\ inverse["SceneBroadcast"] # {} /\ inverse["SceneUpdate"] # {}
  <2>1. PICK o : o = Scene.stages
    OBVIOUS
  <2>2. /\ Len(o) = 3 /\ o[1] = "SceneBroadcast" /\ o[2] = "SceneUpdate"
        /\ o[3] = "ScenePostProcess"
    BY <2>1 DEF Scene
  <2>3. \A j \in 1 .. Len(o) - 1 : o[j] \in required[o[j + 1]] /\ o[j + 1] \in inverse[o[j]]
    BY <1>1, <2>1, EngineMounted DEF ResolveInv, Given, Chained, EnginePipelines
  <2>4. /\ o[1] \in required[o[1 + 1]] /\ o[1 + 1] \in inverse[o[1]]
        /\ o[2] \in required[o[2 + 1]] /\ o[2 + 1] \in inverse[o[2]]
    BY <2>2, <2>3
  <2> QED
    BY <2>2, <2>4
<1> QED
    BY <1>1, <1>3, <1>4, <1>5, <1>6, <1>7, <1>8, <1>9

\* The vector of the engine begins and ends as the run time assumes.
LEMMA EngineFits ==
    ASSUME ResolveInv, Progress, pipelines \in EngineMounts
    PROVE  EngineResolves
<1> DEFINE n == Len(placed)
<1>1. at # "failed"
    BY EngineSolvable DEF Progress
<1>2. /\ placed \in Seq(ToSet(stages)) /\ n \in Nat /\ DOMAIN placed = 1 .. n
      /\ IsInjective(placed) /\ Respects(placed) /\ Given
    BY DEF ResolveInv, TypeOK, RequiredBefore
<1>3. ASSUME at = "done" PROVE ToSet(placed) = ToSet(stages)
    BY <1>2, <1>3, NotMore DEF ResolveInv
<1>4. ASSUME NEW i \in 1 .. n
      PROVE  /\ placed[i] # "TickBegin" => required[placed[i]] # {}
             /\ placed[i] # "TickEnd" => inverse[placed[i]] # {}
    BY <1>2, EngineEnds
<1>5. ASSUME 1 \in 1 .. n PROVE required[placed[1]] = {}
  <2>1. Preceding(placed[1]) \subseteq {placed[i] : i \in 1 .. 1 - 1}
    BY <1>2, <1>5 DEF Respects
  <2>2. required[placed[1]] \subseteq Preceding(placed[1])
    BY <1>2, <1>5 DEF Given, Traced
  <2> QED
    BY <2>1, <2>2
<1>6. ASSUME at = "done", n \in 1 .. n PROVE inverse[placed[n]] = {}
  <2> SUFFICES ASSUME NEW u \in inverse[placed[n]] PROVE FALSE
    OBVIOUS
  <2>1. placed[n] \in ToSet(stages)
    BY <1>2, <1>6
  <2>2. u \in ToSet(placed) /\ placed[n] \in Preceding(u)
    BY <1>2, <1>3, <1>6, <2>1 DEF ResolveInv, TypeOK, Given, Traced
  <2>3. PICK k \in 1 .. n : u = placed[k]
    BY <1>2, <2>2 DEF ToSet
  <2>4. PICK l \in 1 .. k - 1 : placed[n] = placed[l]
    BY <1>2, <2>2, <2>3 DEF Respects
  <2>5. n \in Nat /\ k \in 1 .. n /\ l \in 1 .. k - 1
    BY <1>2, <2>3, <2>4
  <2>6. l \in 1 .. n /\ l # n
    BY ONLY <2>5
  <2> QED
    BY <1>2, <1>6, <2>4, <2>6 DEF IsInjective
<1>7. ASSUME at = "done", NEW i \in 1 .. n
      PROVE  (i # 1 <=> required[placed[i]] # {}) /\ (i # n <=> inverse[placed[i]] # {})
  <2>1. 1 \in 1 .. n /\ n \in 1 .. n
    BY <1>2, <1>7
  <2>2. placed[1] = "TickBegin" /\ placed[n] = "TickEnd"
    BY <1>4, <1>5, <1>6, <1>7, <2>1
  <2>3. (i # 1 => placed[i] # placed[1]) /\ (i # n => placed[i] # placed[n])
    BY <1>2, <1>7, <2>1 DEF IsInjective
  <2> QED
    BY <1>4, <1>5, <1>6, <1>7, <2>1, <2>2, <2>3
<1> QED
    BY <1>1, <1>2, <1>7 DEF EngineResolves

\* What resolve() leaves behind is what the run time of the pipelines relies on: the
\* dependencies suffice, and the pipelines of the engine can be resolved in whatever
\* order they are added, to a vector with one stage that begins every chain, in front,
\* and one that ends every chain, at the end.
THEOREM EngineTheorem == ResolveSpec => []ResolvedForRunTime
<1>1. ResolveInv /\ Progress /\ OrderInv => ResolvedForRunTime
    BY Suffices, EngineFits DEF ResolvedForRunTime
<1> QED
    BY <1>1, BothInvariant, PTL
==============================================================================
