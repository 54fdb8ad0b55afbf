---------------------------- MODULE MemoryPoolProofs ----------------------------
(***************************************************************************)
(* Theorems about MemoryPool, for all sizes and any number of roots: the   *)
(* pool is tiled by what is free and what is handed out, and it is not     *)
(* kept in pieces.                                                         *)
(*                                                                         *)
(* What is free, split or handed out are the leaves and the inner nodes of *)
(* trees of halves.  allocate() and treeMerge() change them by one split   *)
(* or merge after the other, and each of these leaves a tree.              *)
(***************************************************************************)
EXTENDS MemoryPool, SequenceLemmas

-------------------------------------------------------------------------------
\* A size is halved again and again.
LEMMA HalvedIs ==
    ASSUME NEW n \in Nat
    PROVE  /\ Halved(n, 0) = n
           /\ \A k \in Nat : Halved(n, k) \in Nat /\ Halved(n, k + 1) = Halved(n, k) \div 2
<1> DEFINE D(f) == f = [i \in Nat |-> IF i = 0 THEN n ELSE f[i - 1] \div 2]
<1> DEFINE size[i \in Nat] == IF i = 0 THEN n ELSE size[i - 1] \div 2
<1>1. \A k : Halved(n, k) = size[k]
  BY DEF Halved
<1>2. \E f \in [Nat -> Nat] : f = [i \in Nat |-> IF i = 0 THEN n ELSE f[i - 1] \div 2]
  <2> DEFINE g == [p \in Nat \X Nat |-> p[2] \div 2]
  <2>1. g \in [Nat \X Nat -> Nat]
    OBVIOUS
  <2>2. \A i, v \in Nat : g[<<i, v>>] = v \div 2
    OBVIOUS
  <2> HIDE DEF g
  <2>3. PICK f \in [Nat -> Nat] : f[0] = n /\ \A i \in Nat : f[i + 1] = g[<<i, f[i]>>]
    BY <2>1, NumberRecursion
  <2>4. \A i \in Nat : f[i] = IF i = 0 THEN n ELSE f[i - 1] \div 2
    <3>1. ASSUME NEW i \in Nat, i # 0 PROVE f[i] = f[i - 1] \div 2
      <4>1. i - 1 \in Nat /\ i - 1 + 1 = i
        BY <3>1
      <4> QED
        BY <2>2, <2>3, <4>1
    <3> QED
      BY <2>3, <3>1
  <2> QED
    BY <2>4
<1>3. size = [i \in Nat |-> IF i = 0 THEN n ELSE size[i - 1] \div 2]
  BY <1>2
<1> HIDE DEF size
<1>4. size[0] = n /\ \A k \in Nat : size[k + 1] = size[k] \div 2
  <2>1. \A k \in Nat : size[k] = IF k = 0 THEN n ELSE size[k - 1] \div 2
    BY <1>3
  <2>2. \A k \in Nat : k + 1 \in Nat /\ k + 1 # 0 /\ k + 1 - 1 = k
    OBVIOUS
  <2> QED
    BY <2>1, <2>2
<1>5. \A k \in Nat : size[k] \in Nat
  <2> DEFINE T == {k \in Nat : size[k] \in Nat}
  <2>1. 0 \in T
    BY <1>4
  <2>2. ASSUME NEW k \in Nat, k \in T PROVE k + 1 \in T
    BY <1>4, <2>2
  <2> HIDE DEF T
  <2>3. \A k \in Nat : k \in T
    BY <2>1, <2>2, AllNumbers
  <2> QED
    BY <2>3 DEF T
<1> QED
  BY <1>1, <1>4, <1>5

-------------------------------------------------------------------------------
(***************************************************************************)
(* Blocks, and what is above, within and a half of them.                   *)
(***************************************************************************)

\* A block, as it is written in the model.
Block == [root : Nat, path : Seq({0, 1})]

LEMMA PathIs ==
    ASSUME NEW p \in Seq({0, 1})
    PROVE  Len(p) \in Nat /\ \A i \in 1 .. Len(p) : p[i] \in {0, 1}
  OBVIOUS

LEMMA BlockIs ==
    ASSUME NEW b \in Block
    PROVE  /\ b.root \in Nat /\ b.path \in Seq({0, 1}) /\ Depth(b) \in Nat
           /\ \A i \in 1 .. Depth(b) : b.path[i] \in {0, 1}
  BY PathIs DEF Block, Depth

\* A block is known by its root and by its halves.
LEMMA SamePath ==
    ASSUME NEW p \in Seq({0, 1}), NEW q \in Seq({0, 1}), Len(p) = Len(q),
           \A i \in 1 .. Len(p) : p[i] = q[i]
    PROVE  p = q
  OBVIOUS

LEMMA SameBlock ==
    ASSUME NEW b \in Block, NEW c \in Block, b.root = c.root, Depth(b) = Depth(c),
           \A i \in 1 .. Depth(b) : b.path[i] = c.path[i]
    PROVE  b = c
<1>1. b.path = c.path
  BY SamePath DEF Block, Depth
<1> QED
  BY <1>1 DEF Block

LEMMA PathBlock ==
    ASSUME NEW b \in Block, NEW p \in Seq({0, 1})
    PROVE  /\ [b EXCEPT !.path = p] \in Block
           /\ [b EXCEPT !.path = p].root = b.root
           /\ [b EXCEPT !.path = p].path = p
  BY DEF Block

LEMMA AboveIs ==
    ASSUME NEW b \in Block, NEW i \in 0 .. Depth(b)
    PROVE  /\ Above(b, i) \in Block /\ Above(b, i).root = b.root /\ Depth(Above(b, i)) = i
           /\ \A j \in 1 .. i : Above(b, i).path[j] = b.path[j]
<1>1. PICK p : p = SubSeq(b.path, 1, i)
  OBVIOUS
<1>2. p \in Seq({0, 1}) /\ Len(p) = i /\ \A j \in 1 .. i : p[j] = b.path[j]
  <2>1. b.path \in Seq({0, 1}) /\ Len(b.path) \in Nat /\ i \in 0 .. Len(b.path)
    BY BlockIs DEF Depth
  <2> QED
    BY <1>1, <2>1
<1>3. Above(b, i) = [b EXCEPT !.path = p]
  BY <1>1 DEF Above
<1> QED
  BY <1>2, <1>3, PathBlock DEF Depth

LEMMA HalfIs ==
    ASSUME NEW b \in Block, NEW h \in {0, 1}
    PROVE  /\ Half(b, h) \in Block /\ Half(b, h).root = b.root
           /\ Depth(Half(b, h)) = Depth(b) + 1 /\ Half(b, h).path[Depth(b) + 1] = h
           /\ \A j \in 1 .. Depth(b) : Half(b, h).path[j] = b.path[j]
<1>1. PICK p : p = Append(b.path, h)
  OBVIOUS
<1>2. /\ p \in Seq({0, 1}) /\ Len(p) = Len(b.path) + 1 /\ p[Len(b.path) + 1] = h
      /\ \A j \in 1 .. Len(b.path) : p[j] = b.path[j]
  <2>1. b.path \in Seq({0, 1}) /\ Len(b.path) \in Nat
    BY BlockIs DEF Depth
  <2> QED
    BY <1>1, <2>1
<1>3. Half(b, h) = [b EXCEPT !.path = p]
  BY <1>1 DEF Half
<1> QED
  BY <1>2, <1>3, PathBlock DEF Depth

LEMMA SecondIs ==
    ASSUME NEW b \in Block, NEW k \in Nat
    PROVE  /\ Second(b, k) \in Block /\ Second(b, k).root = b.root
           /\ Depth(Second(b, k)) = Depth(b) + k
           /\ \A j \in 1 .. Depth(b) : Second(b, k).path[j] = b.path[j]
           /\ \A j \in Depth(b) + 1 .. Depth(b) + k : Second(b, k).path[j] = 1
<1>1. PICK p : p = b.path \o [j \in 1 .. k |-> 1]
  OBVIOUS
<1>2. /\ p \in Seq({0, 1}) /\ Len(p) = Len(b.path) + k
      /\ \A j \in 1 .. Len(b.path) : p[j] = b.path[j]
      /\ \A j \in Len(b.path) + 1 .. Len(b.path) + k : p[j] = 1
  <2>1. b.path \in Seq({0, 1}) /\ Len(b.path) \in Nat
    BY BlockIs DEF Depth
  <2>2. PICK q : q = [j \in 1 .. k |-> 1]
    OBVIOUS
  <2>3. q \in Seq({0, 1}) /\ Len(q) = k /\ \A j \in 1 .. k : q[j] = 1
    BY <2>2
  <2> QED
    BY <1>1, <2>1, <2>2, <2>3
<1>3. Second(b, k) = [b EXCEPT !.path = p]
  BY <1>1 DEF Second
<1> QED
  BY <1>2, <1>3, PathBlock DEF Depth

\* A block is above itself, and what is above a block above it is above it.
LEMMA AboveSelf ==
    ASSUME NEW b \in Block
    PROVE  Above(b, Depth(b)) = b
  BY BlockIs, AboveIs, SameBlock

LEMMA AboveAbove ==
    ASSUME NEW b \in Block, NEW i \in 0 .. Depth(b), NEW j \in 0 .. i
    PROVE  Above(Above(b, i), j) = Above(b, j)
<1>1. Depth(b) \in Nat /\ j \in 0 .. Depth(b) /\ \A m \in 1 .. j : m \in 1 .. i
  BY BlockIs
<1>2. PICK c : c = Above(b, i)
  OBVIOUS
<1>3. c \in Block /\ c.root = b.root /\ Depth(c) = i /\ \A m \in 1 .. i : c.path[m] = b.path[m]
  BY <1>2, AboveIs
<1>4. /\ Above(c, j) \in Block /\ Above(c, j).root = c.root /\ Depth(Above(c, j)) = j
      /\ \A m \in 1 .. j : Above(c, j).path[m] = c.path[m]
  BY <1>3, AboveIs
<1>5. /\ Above(b, j) \in Block /\ Above(b, j).root = b.root /\ Depth(Above(b, j)) = j
      /\ \A m \in 1 .. j : Above(b, j).path[m] = b.path[m]
  BY <1>1, AboveIs
<1>6. Above(c, j) = Above(b, j)
  BY <1>1, <1>3, <1>4, <1>5, SameBlock
<1> QED
  BY <1>2, <1>6

LEMMA AboveHalf ==
    ASSUME NEW b \in Block, NEW h \in {0, 1}, NEW i \in 0 .. Depth(b)
    PROVE  Above(Half(b, h), i) = Above(b, i)
<1>1. Depth(b) \in Nat
  BY BlockIs
<1>2. PICK c : c = Half(b, h)
  OBVIOUS
<1>3. /\ c \in Block /\ c.root = b.root /\ Depth(c) = Depth(b) + 1
      /\ \A m \in 1 .. Depth(b) : c.path[m] = b.path[m]
  BY <1>2, HalfIs
<1>4. /\ Above(c, i) \in Block /\ Above(c, i).root = c.root /\ Depth(Above(c, i)) = i
      /\ \A m \in 1 .. i : Above(c, i).path[m] = c.path[m]
  BY <1>1, <1>3, AboveIs
<1>5. /\ Above(b, i) \in Block /\ Above(b, i).root = b.root /\ Depth(Above(b, i)) = i
      /\ \A m \in 1 .. i : Above(b, i).path[m] = b.path[m]
  BY AboveIs
<1>6. Above(c, i) = Above(b, i)
  BY <1>1, <1>3, <1>4, <1>5, SameBlock
<1> QED
  BY <1>2, <1>6

\* A block that is not a root is a half of the one above it.
LEMMA HalfOfAbove ==
    ASSUME NEW b \in Block, NEW i \in 1 .. Depth(b)
    PROVE  /\ i - 1 \in 0 .. Depth(b) /\ b.path[i] \in {0, 1}
           /\ Above(b, i) = Half(Above(b, i - 1), b.path[i])
<1>1. Depth(b) \in Nat /\ i - 1 \in 0 .. Depth(b) /\ i \in 0 .. Depth(b) /\ b.path[i] \in {0, 1}
  BY BlockIs
<1>2. PICK a : a = Above(b, i - 1)
  OBVIOUS
<1>3. a \in Block /\ a.root = b.root /\ Depth(a) = i - 1 /\ \A j \in 1 .. i - 1 : a.path[j] = b.path[j]
  BY <1>1, <1>2, AboveIs
<1>4. PICK c : c = Half(a, b.path[i])
  OBVIOUS
<1>5. /\ c \in Block /\ c.root = b.root /\ Depth(c) = i /\ c.path[i] = b.path[i]
      /\ \A j \in 1 .. i - 1 : c.path[j] = b.path[j]
  <2>1. /\ c \in Block /\ c.root = a.root /\ Depth(c) = Depth(a) + 1
        /\ c.path[Depth(a) + 1] = b.path[i]
        /\ \A j \in 1 .. Depth(a) : c.path[j] = a.path[j]
    BY <1>1, <1>3, <1>4, HalfIs
  <2>2. Depth(a) + 1 = i
    BY <1>3
  <2> QED
    BY <1>3, <2>1, <2>2
<1>6. /\ Above(b, i) \in Block /\ Above(b, i).root = b.root /\ Depth(Above(b, i)) = i
      /\ \A j \in 1 .. i : Above(b, i).path[j] = b.path[j]
  BY <1>1, AboveIs
<1>7. \A j \in 1 .. i : j = i \/ j \in 1 .. i - 1
  OBVIOUS
<1>8. Above(b, i) = c
  BY <1>1, <1>5, <1>6, <1>7, SameBlock
<1> QED
  BY <1>1, <1>2, <1>4, <1>8

\* Half says which block it is a half of, and which half.
LEMMA HalfOnce ==
    ASSUME NEW b \in Block, NEW c \in Block, NEW h \in {0, 1}, NEW k \in {0, 1},
           Half(b, h) = Half(c, k)
    PROVE  b = c /\ h = k
<1>1. Depth(b) \in Nat /\ Depth(c) \in Nat
  BY BlockIs
<1>2. PICK x : x = Half(b, h) /\ x = Half(c, k)
  OBVIOUS
<1>3. /\ x.root = b.root /\ Depth(x) = Depth(b) + 1 /\ x.path[Depth(b) + 1] = h
      /\ \A j \in 1 .. Depth(b) : x.path[j] = b.path[j]
  <2>1. /\ Half(b, h).root = b.root /\ Depth(Half(b, h)) = Depth(b) + 1
        /\ Half(b, h).path[Depth(b) + 1] = h
        /\ \A j \in 1 .. Depth(b) : Half(b, h).path[j] = b.path[j]
    BY HalfIs
  <2> QED
    BY <1>2, <2>1
<1>4. /\ x.root = c.root /\ Depth(x) = Depth(c) + 1 /\ x.path[Depth(c) + 1] = k
      /\ \A j \in 1 .. Depth(c) : x.path[j] = c.path[j]
  <2>1. /\ Half(c, k).root = c.root /\ Depth(Half(c, k)) = Depth(c) + 1
        /\ Half(c, k).path[Depth(c) + 1] = k
        /\ \A j \in 1 .. Depth(c) : Half(c, k).path[j] = c.path[j]
    BY HalfIs
  <2> QED
    BY <1>2, <2>1
<1>5. Depth(b) = Depth(c)
  BY <1>1, <1>3, <1>4
<1>6. b = c
  BY <1>3, <1>4, <1>5, SameBlock
<1> QED
  BY <1>3, <1>4, <1>6

LEMMA BuddyIs ==
    ASSUME NEW b \in Block, NEW i \in 1 .. Depth(b)
    PROVE  /\ 1 - b.path[i] \in {0, 1}
           /\ Buddy(Above(b, i)) = Half(Above(b, i - 1), 1 - b.path[i])
<1>1. Depth(b) \in Nat /\ i - 1 \in 0 .. Depth(b) /\ i \in 0 .. Depth(b) /\ b.path[i] \in {0, 1}
  BY BlockIs
<1>2. PICK a : a = Above(b, i)
  OBVIOUS
<1>3. a \in Block /\ Depth(a) = i /\ a.path[i] = b.path[i]
  BY <1>1, <1>2, AboveIs
<1>4. Last(a.path) = b.path[i]
  BY <1>3 DEF Last, Depth
<1>5. Above(a, i - 1) = Above(b, i - 1)
  BY <1>1, <1>2, AboveAbove
<1> QED
  BY <1>1, <1>2, <1>3, <1>4, <1>5 DEF Buddy

LEMMA SecondNone ==
    ASSUME NEW b \in Block
    PROVE  Second(b, 0) = b
<1>1. Depth(b) \in Nat
  BY BlockIs
<1>2. /\ Second(b, 0) \in Block /\ Second(b, 0).root = b.root
      /\ Depth(Second(b, 0)) = Depth(b) + 0
      /\ \A j \in 1 .. Depth(b) : Second(b, 0).path[j] = b.path[j]
  BY SecondIs
<1> QED
  BY <1>1, <1>2, SameBlock

LEMMA SecondNext ==
    ASSUME NEW b \in Block, NEW k \in Nat
    PROVE  Half(Second(b, k), 1) = Second(b, k + 1)
<1>1. Depth(b) \in Nat /\ k + 1 \in Nat
  BY BlockIs
<1>2. PICK s : s = Second(b, k)
  OBVIOUS
<1>3. /\ s \in Block /\ s.root = b.root /\ Depth(s) = Depth(b) + k
      /\ \A j \in 1 .. Depth(b) : s.path[j] = b.path[j]
      /\ \A j \in Depth(b) + 1 .. Depth(b) + k : s.path[j] = 1
  BY <1>2, SecondIs
<1>4. PICK t : t = Second(b, k + 1)
  OBVIOUS
<1>5. /\ t \in Block /\ t.root = b.root /\ Depth(t) = Depth(b) + (k + 1)
      /\ \A j \in 1 .. Depth(b) : t.path[j] = b.path[j]
      /\ \A j \in Depth(b) + 1 .. Depth(b) + (k + 1) : t.path[j] = 1
  BY <1>1, <1>4, SecondIs
<1>6. PICK c : c = Half(s, 1)
  OBVIOUS
<1>7. /\ c \in Block /\ c.root = s.root /\ Depth(c) = Depth(s) + 1 /\ c.path[Depth(s) + 1] = 1
      /\ \A j \in 1 .. Depth(s) : c.path[j] = s.path[j]
  BY <1>3, <1>6, HalfIs
<1>8. ASSUME NEW j \in 1 .. Depth(c) PROVE c.path[j] = t.path[j]
  <2>1. CASE j \in 1 .. Depth(b)
    BY <1>1, <1>3, <1>5, <1>7, <2>1
  <2>2. CASE j \in Depth(b) + 1 .. Depth(b) + k
    BY <1>1, <1>3, <1>5, <1>7, <2>2
  <2>3. CASE j = Depth(s) + 1
    BY <1>1, <1>3, <1>5, <1>7, <2>3
  <2> QED
    BY <1>1, <1>3, <1>7, <2>1, <2>2, <2>3
<1>9. Depth(c) = Depth(t)
  BY <1>1, <1>3, <1>5, <1>7
<1>10. c = t
  BY <1>3, <1>5, <1>7, <1>8, <1>9, SameBlock
<1> QED
  BY <1>2, <1>4, <1>6, <1>10

\* To lie within a block is to have it above oneself.
LEMMA WithinIs ==
    ASSUME NEW b \in Block, NEW s \in Block
    PROVE  Within(b, s) <=> Depth(s) \in 0 .. Depth(b) /\ Above(b, Depth(s)) = s
<1>1. Depth(b) \in Nat /\ Depth(s) \in Nat /\ b.path \in Seq({0, 1}) /\ s.path \in Seq({0, 1})
  BY BlockIs
<1>2. Within(b, s) <=> b.root = s.root /\ Depth(s) <= Depth(b)
                       /\ SubSeq(s.path, 1, Depth(s)) = SubSeq(b.path, 1, Depth(s))
  BY DEF Within, IsPrefix, Depth
<1>3. SubSeq(s.path, 1, Depth(s)) = s.path
  BY <1>1 DEF Depth
<1>4. ASSUME Depth(s) \in 0 .. Depth(b)
      PROVE  Above(b, Depth(s)).path = SubSeq(b.path, 1, Depth(s))
             /\ Above(b, Depth(s)).root = b.root /\ Above(b, Depth(s)) \in Block
  <2>1. SubSeq(b.path, 1, Depth(s)) \in Seq({0, 1})
    BY <1>1, <1>4 DEF Depth
  <2> QED
    BY <2>1, PathBlock DEF Above
<1>5. ASSUME NEW c \in Block, c.root = s.root, c.path = s.path PROVE c = s
  BY <1>5 DEF Block
<1>6. ASSUME Within(b, s) PROVE Depth(s) \in 0 .. Depth(b) /\ Above(b, Depth(s)) = s
  <2>1. Depth(s) \in 0 .. Depth(b)
    BY <1>1, <1>2, <1>6
  <2> QED
    BY <1>2, <1>3, <1>4, <1>5, <1>6, <2>1
<1>7. ASSUME Depth(s) \in 0 .. Depth(b), Above(b, Depth(s)) = s PROVE Within(b, s)
  <2>1. s.root = b.root /\ s.path = SubSeq(b.path, 1, Depth(s)) /\ Depth(s) <= Depth(b)
    BY <1>1, <1>4, <1>7
  <2> QED
    BY <1>2, <1>3, <2>1
<1> QED
  BY <1>6, <1>7

-------------------------------------------------------------------------------
(***************************************************************************)
(* The inductive invariant: the blocks make up trees.                      *)
(***************************************************************************)

\* Blocks in memory, split blocks and blocks that are handed out are distinct; all
\* that is above one of them has been split, and no half of a split block is missing.
Tree(M, P, H) ==
    /\ M \cup P \cup H \subseteq Block
    /\ M \cap P = {} /\ M \cap H = {} /\ P \cap H = {}
    /\ \A b \in M \cup P \cup H : \A i \in 0 .. Depth(b) - 1 : Above(b, i) \in P
    /\ \A s \in P, h \in {0, 1} : Half(s, h) \in M \cup P \cup H

\* SizeOf, for the sizes of the roots in rs.
Size(rs, b) == Halved(rs[b.root], Depth(b))

\* Two halves lie in memory only if they do not make up the block they are halves of.
NoPair(rs, M, P) ==
    \A s \in P : Half(s, 0) \in M /\ Half(s, 1) \in M => Size(rs, s) % 2 = 1

\* No block lies within another.
Apart(B) == \A b, c \in B : Within(b, c) => b = c

Handed == {l.block : l \in live}

\* What is handed out.
Lent(rs, L) ==
    /\ Apart({l.block : l \in L})
    /\ \A l, m \in L : l.block = m.block => l = m
    /\ \A l \in L : /\ l.block \in Block /\ l.block.root \in DOMAIN rs /\ l.need \in Sizes
                    /\ l.need <= Size(rs, l.block) /\ Size(rs, l.block) < 2 * l.need

\* What the pool keeps, the blocks in H being handed out.
Sized(rs, B) == \A x \in B : x.root \in DOMAIN rs /\ Size(rs, x) > 0
Kept(rs, M, P, H) ==
    /\ Tree(M, P, H) /\ NoPair(rs, M, P)
    /\ Sized(rs, M \cup P)
    /\ \A x \in M : x.path # <<>>

PoolInv ==
    /\ rootSize \in Seq(Nat \ {0}) /\ Len(rootSize) <= MaxRoots
    /\ totalMemory \in Nat /\ poolPhase \in {"up", "tidying", "gone", "aborted"}
    /\ Lent(rootSize, live)
    /\ poolPhase = "gone" => memory = {} /\ pooling = {}
    /\ poolPhase # "gone" => Kept(rootSize, memory, pooling, Handed)

LEMMA TreeApart ==
    ASSUME NEW M, NEW P, NEW H, Tree(M, P, H)
    PROVE  Apart(M \cup H)
<1> SUFFICES ASSUME NEW b \in M \cup H, NEW c \in M \cup H, Within(b, c), b # c PROVE FALSE
  BY DEF Apart
<1>1. b \in Block /\ c \in Block /\ c \notin P
  BY DEF Tree
<1>2. Depth(b) \in Nat /\ Depth(c) \in 0 .. Depth(b) /\ Above(b, Depth(c)) = c
  BY <1>1, BlockIs, WithinIs
<1>3. Depth(c) # Depth(b)
  BY <1>1, <1>2, AboveSelf
<1>4. Depth(c) \in 0 .. Depth(b) - 1
  BY <1>2, <1>3
<1> QED
  BY <1>1, <1>2, <1>4 DEF Tree

\* A block that is taken, split, or merged with its other half leaves a tree.
LEMMA MoveTree ==
    ASSUME NEW M, NEW P, NEW H, Tree(M, P, H), NEW b \in M
    PROVE  Tree(M \ {b}, P, H \cup {b})
<1>1. (M \ {b}) \cup P \cup (H \cup {b}) = M \cup P \cup H
  OBVIOUS
<1> QED
  BY <1>1 DEF Tree

LEMMA StoreTree ==
    ASSUME NEW M, NEW P, NEW H, Tree(M, P, H), NEW b \in H
    PROVE  Tree(M \cup {b}, P, H \ {b})
<1>1. (M \cup {b}) \cup P \cup (H \ {b}) = M \cup P \cup H
  OBVIOUS
<1> QED
  BY <1>1 DEF Tree

LEMMA DropTree ==
    ASSUME NEW M, NEW P, NEW H, Tree(M, P, H), NEW b \in H, Depth(b) = 0
    PROVE  Tree(M, P, H \ {b})
<1>1. b \in Block
  BY DEF Tree
<1>2. ASSUME NEW s \in P, NEW h \in {0, 1} PROVE Half(s, h) # b
  <2>1. s \in Block
    BY DEF Tree
  <2>2. Depth(s) \in Nat /\ Depth(Half(s, h)) = Depth(s) + 1
    BY <2>1, BlockIs, HalfIs
  <2> QED
    BY <2>2
<1> QED
  BY <1>2 DEF Tree

LEMMA SplitTree ==
    ASSUME NEW M, NEW P, NEW H, Tree(M, P, H), NEW b \in H
    PROVE  Tree(M \cup {Half(b, 0)}, P \cup {b}, (H \ {b}) \cup {Half(b, 1)})
<1>1. b \in Block /\ b \notin M /\ b \notin P /\ Depth(b) \in Nat
  BY BlockIs DEF Tree
<1>2. ASSUME NEW h \in {0, 1}
      PROVE  /\ Half(b, h) \in Block /\ Half(b, h) \notin M \cup P \cup H
             /\ \A i \in 0 .. Depth(Half(b, h)) - 1 : Above(Half(b, h), i) \in P \cup {b}
  <2>1. Half(b, h) \in Block /\ Depth(Half(b, h)) = Depth(b) + 1
    BY <1>1, HalfIs
  <2>2. Above(Half(b, h), Depth(b)) = b
    BY <1>1, AboveHalf, AboveSelf
  <2>3. Half(b, h) \notin M \cup P \cup H
    <3>1. Depth(b) \in 0 .. Depth(Half(b, h)) - 1
      BY <1>1, <2>1
    <3> QED
      BY <1>1, <2>2, <3>1 DEF Tree
  <2>4. ASSUME NEW i \in 0 .. Depth(Half(b, h)) - 1 PROVE Above(Half(b, h), i) \in P \cup {b}
    <3>1. i = Depth(b) \/ i \in 0 .. Depth(b) - 1
      BY <1>1, <2>1
    <3>2. ASSUME i \in 0 .. Depth(b) - 1 PROVE Above(Half(b, h), i) \in P
      <4>1. Above(Half(b, h), i) = Above(b, i)
        BY <1>1, <3>2, AboveHalf
      <4> QED
        BY <3>2, <4>1 DEF Tree
    <3> QED
      BY <2>2, <3>1, <3>2
  <2> QED
    BY <2>1, <2>3, <2>4
<1>3. PICK p, q : p = Half(b, 0) /\ q = Half(b, 1)
  OBVIOUS
<1>4. p # q
  BY <1>1, <1>3, HalfOnce
<1>5. /\ p \in Block /\ p \notin M \cup P \cup H
      /\ q \in Block /\ q \notin M \cup P \cup H
      /\ \A i \in 0 .. Depth(p) - 1 : Above(p, i) \in P \cup {b}
      /\ \A i \in 0 .. Depth(q) - 1 : Above(q, i) \in P \cup {b}
  BY <1>2, <1>3
<1>6. (M \cup {p}) \cup (P \cup {b}) \cup ((H \ {b}) \cup {q}) = (M \cup P \cup H) \cup {p, q}
  OBVIOUS
<1>7. \A s \in P \cup {b}, h \in {0, 1} : Half(s, h) \in (M \cup P \cup H) \cup {p, q}
  BY <1>3 DEF Tree
<1>8. \A x \in (M \cup P \cup H) \cup {p, q} : \A i \in 0 .. Depth(x) - 1 : Above(x, i) \in P \cup {b}
  BY <1>5 DEF Tree
<1>9. (M \cup P \cup H) \cup {p, q} \subseteq Block
  BY <1>5 DEF Tree
<1>10. /\ (M \cup {p}) \cap (P \cup {b}) = {}
       /\ (M \cup {p}) \cap ((H \ {b}) \cup {q}) = {}
       /\ (P \cup {b}) \cap ((H \ {b}) \cup {q}) = {}
  BY <1>1, <1>4, <1>5 DEF Tree
<1>11. Tree(M \cup {p}, P \cup {b}, (H \ {b}) \cup {q})
  BY <1>6, <1>7, <1>8, <1>9, <1>10 DEF Tree
<1> QED
  BY <1>3, <1>11

LEMMA MergeTree ==
    ASSUME NEW M, NEW P, NEW H, Tree(M, P, H), NEW s \in P, NEW h \in {0, 1},
           Half(s, h) \in H, Half(s, 1 - h) \in M
    PROVE  Tree(M \ {Half(s, 1 - h)}, P \ {s}, (H \ {Half(s, h)}) \cup {s})
<1>1. s \in Block /\ s \notin M /\ s \notin H /\ Depth(s) \in Nat
  BY BlockIs DEF Tree
<1>2. PICK p, q : p = Half(s, h) /\ q = Half(s, 1 - h)
  OBVIOUS
<1>3. p \in H /\ q \in M /\ p \notin P /\ q \notin P /\ p \notin M /\ q \notin H
  BY <1>2 DEF Tree
<1>4. \A g \in {0, 1} : Half(s, g) \in {p, q}
  BY <1>2
<1>5. (M \ {q}) \cup (P \ {s}) \cup ((H \ {p}) \cup {s}) = (M \cup P \cup H) \ {p, q}
  BY <1>1, <1>3
<1>6. ASSUME NEW x \in (M \cup P \cup H) \ {p, q}, NEW i \in 0 .. Depth(x) - 1
      PROVE  Above(x, i) \in P \ {s}
  <2>1. x \in Block /\ Depth(x) \in Nat /\ i \in 0 .. Depth(x) /\ Above(x, i) \in P
    BY BlockIs DEF Tree
  <2>2. ASSUME Above(x, i) = s PROVE FALSE
    <3>1. i + 1 \in 1 .. Depth(x) /\ i + 1 - 1 = i
      BY <2>1
    <3>2. x.path[i + 1] \in {0, 1} /\ Above(x, i + 1) = Half(Above(x, i), x.path[i + 1])
      BY <2>1, <3>1, HalfOfAbove
    <3>3. Above(x, i + 1) \in {p, q}
      BY <1>4, <2>2, <3>2
    <3>4. ASSUME i + 1 = Depth(x) PROVE FALSE
      BY <2>1, <3>3, <3>4, AboveSelf
    <3>5. i + 1 \in 0 .. Depth(x) - 1
      BY <2>1, <3>1, <3>4
    <3>6. Above(x, i + 1) \in P
      BY <3>5 DEF Tree
    <3> QED
      BY <1>3, <3>3, <3>6
  <2> QED
    BY <2>1, <2>2
<1>7. ASSUME NEW t \in P \ {s}, NEW g \in {0, 1} PROVE Half(t, g) \in (M \cup P \cup H) \ {p, q}
  <2>1. t \in Block /\ Half(t, g) \in M \cup P \cup H
    BY DEF Tree
  <2>2. \A k \in {0, 1} : Half(t, g) # Half(s, k)
    BY <1>1, <2>1, HalfOnce
  <2> QED
    BY <1>2, <2>1, <2>2
<1>8. (M \cup P \cup H) \ {p, q} \subseteq Block
  BY DEF Tree
<1>9. /\ (M \ {q}) \cap (P \ {s}) = {} /\ (M \ {q}) \cap ((H \ {p}) \cup {s}) = {}
      /\ (P \ {s}) \cap ((H \ {p}) \cup {s}) = {}
  BY <1>1 DEF Tree
<1>10. Tree(M \ {q}, P \ {s}, (H \ {p}) \cup {s})
  BY <1>5, <1>6, <1>7, <1>8, <1>9 DEF Tree
<1> QED
  BY <1>2, <1>10

LEMMA HalfNew ==
    ASSUME NEW M, NEW P, NEW H, Tree(M, P, H), NEW b \in H, NEW h \in {0, 1}
    PROVE  Half(b, h) \notin M \cup P \cup H
<1>1. b \in Block /\ b \notin P /\ Depth(b) \in Nat
  BY BlockIs DEF Tree
<1>2. Depth(b) \in 0 .. Depth(Half(b, h)) - 1
  <2>1. Depth(Half(b, h)) = Depth(b) + 1
    BY <1>1, HalfIs
  <2> QED
    BY <1>1, <2>1
<1>3. Above(Half(b, h), Depth(b)) = b
  BY <1>1, AboveHalf, AboveSelf
<1> QED
  BY <1>1, <1>2, <1>3 DEF Tree

LEMMA SplitNoPair ==
    ASSUME NEW rs, NEW M, NEW P, NEW H, Tree(M, P, H), NoPair(rs, M, P), NEW b \in H
    PROVE  NoPair(rs, M \cup {Half(b, 0)}, P \cup {b})
<1>1. b \in Block /\ b \notin P /\ Half(b, 1) \notin M /\ Half(b, 0) # Half(b, 1)
  BY HalfNew, HalfOnce DEF Tree
<1>2. ASSUME NEW s \in P, NEW h \in {0, 1} PROVE Half(s, h) # Half(b, 0)
  BY <1>1, HalfOnce DEF Tree
<1>3. ASSUME NEW s \in P \cup {b}, Half(s, 0) \in M \cup {Half(b, 0)}, Half(s, 1) \in M \cup {Half(b, 0)}
      PROVE  Size(rs, s) % 2 = 1
  <2>1. s \in P
    BY <1>1, <1>3
  <2>2. Half(s, 0) \in M /\ Half(s, 1) \in M
    BY <1>2, <1>3, <2>1
  <2> QED
    BY <2>1, <2>2 DEF NoPair
<1> QED
  BY <1>3 DEF NoPair

\* Blocks that are split, and the block that is handed out, when b is split k times.
Split(b, k) == {Second(b, i) : i \in 0 .. k - 1}

LEMMA SpliceTree ==
    ASSUME NEW rs, NEW M, NEW P, NEW H, Tree(M, P, H), NoPair(rs, M, P), NEW b \in M
    PROVE  \A k \in Nat :
                /\ Tree((M \ {b}) \cup treeSplice(b, k), P \cup Split(b, k), H \cup {Second(b, k)})
                /\ NoPair(rs, (M \ {b}) \cup treeSplice(b, k), P \cup Split(b, k))
                /\ Second(b, k) \notin H
<1> DEFINE T == {k \in Nat :
        /\ Tree((M \ {b}) \cup treeSplice(b, k), P \cup Split(b, k), H \cup {Second(b, k)})
        /\ NoPair(rs, (M \ {b}) \cup treeSplice(b, k), P \cup Split(b, k))
        /\ Second(b, k) \notin H}
<1>1. b \in Block /\ b \notin H
  BY DEF Tree
<1>2. 0 \in T
  <2>1. Second(b, 0) = b
    BY <1>1, SecondNone
  <2>2. treeSplice(b, 0) = {} /\ Split(b, 0) = {}
    BY DEF treeSplice, Split
  <2>3. (M \ {b}) \cup treeSplice(b, 0) = M \ {b} /\ P \cup Split(b, 0) = P
    BY <2>2
  <2>4. Tree(M \ {b}, P, H \cup {b})
    BY MoveTree
  <2>5. NoPair(rs, M \ {b}, P)
    BY DEF NoPair
  <2> QED
    BY <1>1, <2>1, <2>3, <2>4, <2>5
<1>3. ASSUME NEW k \in Nat, k \in T PROVE k + 1 \in T
  <2>1. PICK N, Q, s : /\ N = (M \ {b}) \cup treeSplice(b, k) /\ Q = P \cup Split(b, k)
                       /\ s = Second(b, k)
    OBVIOUS
  <2>2. Tree(N, Q, H \cup {s}) /\ NoPair(rs, N, Q) /\ s \notin H
    BY <1>3, <2>1
  <2>3. \A i : i \in 0 .. (k + 1) - 1 <=> i \in 0 .. k - 1 \/ i = k
    OBVIOUS
  <2>4. treeSplice(b, k + 1) = treeSplice(b, k) \cup {Half(s, 0)}
    BY <2>1, <2>3 DEF treeSplice
  <2>5. Split(b, k + 1) = Split(b, k) \cup {s}
    BY <2>1, <2>3 DEF Split
  <2>6. Second(b, k + 1) = Half(s, 1)
    BY <1>1, <2>1, SecondNext
  <2>7. Tree(N \cup {Half(s, 0)}, Q \cup {s}, ((H \cup {s}) \ {s}) \cup {Half(s, 1)})
    BY <2>2, SplitTree
  <2>8. (H \cup {s}) \ {s} = H
    BY <2>2
  <2>9. NoPair(rs, N \cup {Half(s, 0)}, Q \cup {s})
    BY <2>2, SplitNoPair
  <2>10. Half(s, 1) \notin H
    BY <2>2, HalfNew
  <2>11. /\ (M \ {b}) \cup treeSplice(b, k + 1) = N \cup {Half(s, 0)}
         /\ P \cup Split(b, k + 1) = Q \cup {s}
    BY <2>1, <2>4, <2>5
  <2> QED
    BY <2>6, <2>7, <2>8, <2>9, <2>10, <2>11
<1> HIDE DEF T
<1>4. \A k \in Nat : k \in T
  BY <1>2, <1>3, AllNumbers
<1> QED
  BY <1>4 DEF T

\* Where a block that is split lies.
LEMMA SplicePlace ==
    ASSUME NEW b \in Block, NEW k \in Nat,
           NEW x \in treeSplice(b, k) \cup Split(b, k) \cup {Second(b, k)}
    PROVE  x \in Block /\ x.root = b.root /\ Depth(x) \in Depth(b) .. Depth(b) + k
<1>1. Depth(b) \in Nat
  BY BlockIs
<1>2. \A i \in 0 .. k : /\ Second(b, i) \in Block /\ Second(b, i).root = b.root
                        /\ Depth(Second(b, i)) = Depth(b) + i
  BY SecondIs
<1>3. ASSUME x \in treeSplice(b, k) PROVE x \in Block /\ x.root = b.root /\ Depth(x) \in Depth(b) .. Depth(b) + k
  <2>1. PICK i \in 0 .. k - 1 : x = Half(Second(b, i), 0)
    BY <1>3 DEF treeSplice
  <2>2. PICK s : s = Second(b, i)
    OBVIOUS
  <2>3. s \in Block /\ s.root = b.root /\ Depth(s) = Depth(b) + i
    BY <1>2, <2>2
  <2>4. x \in Block /\ x.root = s.root /\ Depth(x) = Depth(s) + 1
    BY <2>1, <2>2, <2>3, HalfIs
  <2> QED
    BY <1>1, <2>3, <2>4
<1>4. ASSUME x \in Split(b, k) \cup {Second(b, k)}
      PROVE  x \in Block /\ x.root = b.root /\ Depth(x) \in Depth(b) .. Depth(b) + k
  <2>1. PICK i \in 0 .. k : x = Second(b, i)
    BY <1>4 DEF Split
  <2> QED
    BY <1>1, <1>2, <2>1
<1> QED
  BY <1>3, <1>4

\* Other halves of b and of the blocks above it down from top, and the blocks that
\* they make up with these.
Buddies(b, top) == {Buddy(Above(b, i)) : i \in top + 1 .. Depth(b)}
Parents(b, top) == {Above(b, i - 1) : i \in top + 1 .. Depth(b)}

LEMMA MergeAll ==
    ASSUME NEW M, NEW P, NEW H, Tree(M, P, H), NEW b \in H, NEW top \in 0 .. Depth(b),
           Buddies(b, top) \subseteq M
    PROVE  /\ Tree(M \ Buddies(b, top), P \ Parents(b, top), (H \ {b}) \cup {Above(b, top)})
           /\ Above(b, top) \notin H \ {b}
<1> DEFINE d == Depth(b)
           T == {m \in Nat : m <= d - top =>
                    /\ Tree(M \ Buddies(b, d - m), P \ Parents(b, d - m),
                            (H \ {b}) \cup {Above(b, d - m)})
                    /\ Above(b, d - m) \notin H \ {b}}
<1>1. b \in Block /\ d \in Nat /\ top \in Nat /\ top <= d
  BY BlockIs DEF Tree
<1> HIDE DEF d
<1>2. 0 \in T
  <2>1. d - 0 = d /\ Above(b, d) = b
    BY <1>1, AboveSelf DEF d
  <2>2. Buddies(b, d) = {} /\ Parents(b, d) = {}
    BY <1>1 DEF Buddies, Parents, d
  <2>3. M \ Buddies(b, d) = M /\ P \ Parents(b, d) = P /\ (H \ {b}) \cup {b} = H
    BY <2>2
  <2> QED
    BY <2>1, <2>3
<1>3. ASSUME NEW m \in Nat, m \in T PROVE m + 1 \in T
  <2> SUFFICES ASSUME m + 1 <= d - top
               PROVE  /\ Tree(M \ Buddies(b, d - (m + 1)), P \ Parents(b, d - (m + 1)),
                              (H \ {b}) \cup {Above(b, d - (m + 1))})
                      /\ Above(b, d - (m + 1)) \notin H \ {b}
    OBVIOUS
  <2>1. PICK i : i = d - m
    OBVIOUS
  <2>2. i \in 1 .. d /\ i \in 0 .. d /\ i - 1 \in 0 .. d - 1 /\ i - 1 \in 0 .. d /\ i - 1 = d - (m + 1)
        /\ m <= d - top /\ i \in top + 1 .. d
    BY <1>1, <2>1
  <2>3. PICK N, Q, a, s : /\ N = M \ Buddies(b, i) /\ Q = P \ Parents(b, i)
                          /\ a = Above(b, i) /\ s = Above(b, i - 1)
    OBVIOUS
  <2>4. Tree(N, Q, (H \ {b}) \cup {a}) /\ a \notin H \ {b}
    BY <1>3, <2>1, <2>2, <2>3
  <2>5. s \in P /\ s \in Block /\ s.root = b.root /\ Depth(s) = i - 1
    BY <1>1, <2>2, <2>3, AboveIs DEF Tree, d
  <2>6. PICK h \in {0, 1} : h = b.path[i]
    BY <1>1, <2>2, BlockIs DEF d
  <2>7. a = Half(s, h) /\ 1 - h \in {0, 1} /\ Buddy(a) = Half(s, 1 - h)
    BY <1>1, <2>2, <2>3, <2>6, HalfOfAbove, BuddyIs DEF d
  <2>8. Buddy(a) \in M
    BY <2>2, <2>3 DEF Buddies, d
  <2>9. ASSUME NEW j \in i + 1 .. d PROVE Buddy(Above(b, j)) # Buddy(a) /\ Above(b, j - 1) # s
    <3>1. j \in 1 .. d /\ j - 1 \in 0 .. d /\ j - 1 # i - 1 /\ j # i
      BY <1>1, <2>2, <2>9
    <3>2. Above(b, j - 1) \in Block /\ Depth(Above(b, j - 1)) = j - 1
      BY <1>1, <3>1, AboveIs DEF d
    <3>3. 1 - b.path[j] \in {0, 1} /\ Buddy(Above(b, j)) = Half(Above(b, j - 1), 1 - b.path[j])
      BY <1>1, <3>1, BuddyIs DEF d
    <3>4. Above(b, j - 1) # s
      BY <2>5, <3>1, <3>2
    <3> QED
      BY <2>5, <2>7, <3>2, <3>3, <3>4, HalfOnce
  <2>10. Buddy(a) \in N /\ s \in Q
    BY <2>3, <2>5, <2>8, <2>9 DEF Buddies, Parents, d
  <2>11. Tree(N \ {Half(s, 1 - h)}, Q \ {s}, (((H \ {b}) \cup {a}) \ {a}) \cup {s})
    <3>1. PICK K : K = (H \ {b}) \cup {a}
      OBVIOUS
    <3>2. /\ Tree(N, Q, K) /\ s \in Q /\ h \in {0, 1}
          /\ Half(s, h) \in K /\ Half(s, 1 - h) \in N
      BY <2>4, <2>7, <2>10, <3>1
    <3>3. Tree(N \ {Half(s, 1 - h)}, Q \ {s}, (K \ {Half(s, h)}) \cup {s})
      BY <3>2, MergeTree
    <3> QED
      BY <2>7, <3>1, <3>3
  <2>12. \A j : j \in (i - 1) + 1 .. d <=> j = i \/ j \in i + 1 .. d
    BY <1>1, <2>2
  <2>13. Buddies(b, i - 1) = Buddies(b, i) \cup {Buddy(a)}
    BY <2>3, <2>12 DEF Buddies, d
  <2>14. Parents(b, i - 1) = Parents(b, i) \cup {s}
    BY <2>3, <2>12 DEF Parents, d
  <2>15. /\ M \ Buddies(b, i - 1) = N \ {Half(s, 1 - h)} /\ P \ Parents(b, i - 1) = Q \ {s}
         /\ ((H \ {b}) \cup {a}) \ {a} = H \ {b}
    BY <2>3, <2>4, <2>7, <2>13, <2>14
  <2>16. s \notin H \ {b}
    BY <2>5 DEF Tree
  <2> QED
    BY <2>2, <2>3, <2>11, <2>15, <2>16
<1> HIDE DEF T
<1>4. \A m \in Nat : m \in T
  BY <1>2, <1>3, AllNumbers
<1>5. PICK m : m = d - top
  OBVIOUS
<1>6. m \in Nat /\ m <= d - top /\ d - m = top
  BY <1>1, <1>5
<1>7. m \in T
  BY <1>4, <1>6
<1>8. /\ Tree(M \ Buddies(b, d - m), P \ Parents(b, d - m), (H \ {b}) \cup {Above(b, d - m)})
      /\ Above(b, d - m) \notin H \ {b}
  BY <1>6, <1>7 DEF T
<1> QED
  BY <1>6, <1>8

-------------------------------------------------------------------------------
(***************************************************************************)
(* Sizes, and how far allocate() and treeMerge() go.                       *)
(***************************************************************************)
LEMMA HalvedMore ==
    ASSUME NEW n \in Nat, NEW d \in Nat
    PROVE  \A k \in Nat : Halved(Halved(n, d), k) = Halved(n, d + k)
<1> DEFINE T == {k \in Nat : Halved(Halved(n, d), k) = Halved(n, d + k)}
<1>1. Halved(n, d) \in Nat
  BY HalvedIs
<1>2. 0 \in T
  <2>1. d + 0 = d
    OBVIOUS
  <2> QED
    BY <1>1, <2>1, HalvedIs
<1>3. ASSUME NEW k \in Nat, k \in T PROVE k + 1 \in T
  <2>1. d + k \in Nat /\ d + (k + 1) = (d + k) + 1
    OBVIOUS
  <2>2. Halved(Halved(n, d), k + 1) = Halved(Halved(n, d), k) \div 2
    BY <1>1, HalvedIs
  <2>3. Halved(n, (d + k) + 1) = Halved(n, d + k) \div 2
    BY <2>1, HalvedIs
  <2> QED
    BY <1>3, <2>1, <2>2, <2>3
<1> HIDE DEF T
<1>4. \A k \in Nat : k \in T
  BY <1>2, <1>3, AllNumbers
<1> QED
  BY <1>4 DEF T

\* A size gets no larger, and is zero after as many halvings as it counts.
LEMMA HalvedLess ==
    ASSUME NEW n \in Nat
    PROVE  \A k \in Nat : Halved(n, k) <= n /\ (Halved(n, k) = 0 \/ Halved(n, k) + k <= n)
<1> DEFINE T == {k \in Nat : Halved(n, k) <= n /\ (Halved(n, k) = 0 \/ Halved(n, k) + k <= n)}
<1>1. 0 \in T
  BY HalvedIs
<1>2. ASSUME NEW k \in Nat, k \in T PROVE k + 1 \in T
  <2>1. PICK v, w : v = Halved(n, k) /\ w = Halved(n, k + 1)
    OBVIOUS
  <2>2. v \in Nat /\ w \in Nat /\ w = v \div 2 /\ v <= n /\ (v = 0 \/ v + k <= n)
    BY <1>2, <2>1, HalvedIs
  <2>3. w <= n /\ (w = 0 \/ w + (k + 1) <= n)
    BY <2>2
  <2> QED
    BY <2>1, <2>3
<1> HIDE DEF T
<1>3. \A k \in Nat : k \in T
  BY <1>1, <1>2, AllNumbers
<1> QED
  BY <1>3 DEF T

LEMMA HalvedDown ==
    ASSUME NEW n \in Nat, NEW k \in Nat, NEW j \in 0 .. k
    PROVE  Halved(n, k) <= Halved(n, j)
<1>1. k - j \in Nat /\ j + (k - j) = k
  OBVIOUS
<1>2. Halved(n, j) \in Nat
  BY HalvedIs
<1>3. Halved(Halved(n, j), k - j) = Halved(n, j + (k - j))
  BY <1>1, HalvedMore
<1>4. Halved(Halved(n, j), k - j) <= Halved(n, j)
  BY <1>1, <1>2, HalvedLess
<1> QED
  BY <1>1, <1>3, <1>4

\* allocate() halves a block as long as the halves are large enough.
LEMMA TakenIs ==
    ASSUME NEW size \in Nat, NEW n \in Nat, n > 0, size >= n
    PROVE  /\ Taken(size, n) \in Nat
           /\ Halved(size, Taken(size, n)) >= n /\ Halved(size, Taken(size, n)) < 2 * n
<1> DEFINE S == {k \in 0 .. size : Halved(size, k) >= n}
<1>1. 0 \in S
  BY HalvedIs
<1>2. S \subseteq Nat /\ S # {} /\ \A k \in S : k <= size
  BY <1>1
<1>3. \E x \in S : \A y \in S : x >= y
  <2> HIDE DEF S
  <2> QED
    BY <1>2, GreatestNumber
<1>4. PICK k : k = Taken(size, n)
  OBVIOUS
<1>5. k \in S /\ \A y \in S : k >= y
  BY <1>3, <1>4 DEF Taken, Max
<1>6. k \in Nat /\ k <= size /\ k + 1 \in Nat /\ Halved(size, k) \in Nat /\ Halved(size, k) >= n
  BY <1>5, HalvedIs
<1>7. Halved(size, k) + k <= size
  BY <1>6, HalvedLess
<1>8. k + 1 \notin S /\ k + 1 \in 0 .. size
  BY <1>5, <1>6, <1>7
<1>9. Halved(size, k + 1) = Halved(size, k) \div 2 /\ ~(Halved(size, k + 1) >= n)
  BY <1>6, <1>8, HalvedIs
<1>10. Halved(size, k) < 2 * n
  BY <1>6, <1>9
<1> QED
  BY <1>4, <1>6, <1>10

\* treeMerge() goes up as long as the other half is free and the sizes add up.
Merges(b, i) ==
    /\ Buddy(Above(b, i)) \in memory
    /\ 2 * SizeOf(Above(b, i)) = SizeOf(Above(b, i - 1))

LEMMA TopIs ==
    ASSUME NEW b \in Block
    PROVE  /\ Top(b) \in 0 .. Depth(b)
           /\ \A i \in Top(b) + 1 .. Depth(b) : Merges(b, i)
           /\ Top(b) > 0 => ~Merges(b, Top(b))
<1> DEFINE S == {j \in 0 .. Depth(b) : \A i \in j + 1 .. Depth(b) : Merges(b, i)}
<1>1. Depth(b) \in Nat
  BY BlockIs
<1>2. Top(b) = CHOOSE x \in S : \A y \in S : x <= y
  BY DEF Top, Min, Merges
<1>3. Depth(b) \in S
  BY <1>1
<1>4. S \subseteq Nat /\ S # {}
  BY <1>1, <1>3
<1>5. \E x \in S : \A y \in S : x <= y
  <2> HIDE DEF S
  <2> QED
    BY <1>4, FirstPosition
<1>6. PICK t : t = Top(b)
  OBVIOUS
<1>7. t \in S /\ \A y \in S : t <= y
  <2> HIDE DEF S
  <2> QED
    BY <1>2, <1>5, <1>6
<1>8. ASSUME t > 0, Merges(b, t) PROVE FALSE
  <2>1. t \in Nat /\ t <= Depth(b) /\ t - 1 \in 0 .. Depth(b) /\ ~(t <= t - 1)
    BY <1>1, <1>7, <1>8
  <2>2. \A i \in (t - 1) + 1 .. Depth(b) : i = t \/ i \in t + 1 .. Depth(b)
    BY <1>1, <2>1
  <2>3. t - 1 \in S
    BY <1>7, <1>8, <2>1, <2>2
  <2> QED
    BY <1>7, <2>1, <2>3
<1> QED
  BY <1>6, <1>7, <1>8

LEMMA SizeIs ==
    ASSUME NEW rs \in Seq(Nat \ {0}), NEW b \in Block, b.root \in DOMAIN rs
    PROVE  /\ rs[b.root] \in Nat /\ Size(rs, b) \in Nat
           /\ Size(rs, b) > 0 => Depth(b) <= rs[b.root]
           /\ \A i \in 0 .. Depth(b) :
                /\ Size(rs, Above(b, i)) = Halved(rs[b.root], i)
                /\ Size(rs, Above(b, i)) \in Nat /\ Size(rs, Above(b, i)) >= Size(rs, b)
           /\ \A i \in 1 .. Depth(b) :
                Size(rs, Above(b, i)) = Size(rs, Above(b, i - 1)) \div 2
<1>1. PICK n : n = rs[b.root]
  OBVIOUS
<1>2. n \in Nat /\ Depth(b) \in Nat
  BY <1>1, BlockIs
<1>3. Size(rs, b) = Halved(n, Depth(b))
  BY <1>1 DEF Size
<1>4. Size(rs, b) \in Nat
  BY <1>2, <1>3, HalvedIs
<1>5. Size(rs, b) > 0 => Depth(b) <= n
  BY <1>2, <1>3, <1>4, HalvedLess
<1>6. ASSUME NEW i \in 0 .. Depth(b)
      PROVE  /\ Size(rs, Above(b, i)) = Halved(n, i)
             /\ Size(rs, Above(b, i)) \in Nat /\ Size(rs, Above(b, i)) >= Size(rs, b)
  <2>1. Above(b, i).root = b.root /\ Depth(Above(b, i)) = i
    BY AboveIs
  <2>2. Size(rs, Above(b, i)) = Halved(n, i)
    BY <1>1, <2>1 DEF Size
  <2>3. Halved(n, Depth(b)) <= Halved(n, i) /\ Halved(n, i) \in Nat
    <3>1. i \in Nat
      BY <1>2
    <3> QED
      BY <1>2, <3>1, HalvedDown, HalvedIs
  <2> QED
    BY <1>3, <1>4, <2>2, <2>3
<1>7. ASSUME NEW i \in 1 .. Depth(b)
      PROVE  Size(rs, Above(b, i)) = Size(rs, Above(b, i - 1)) \div 2
  <2>1. i - 1 \in Nat /\ i - 1 + 1 = i /\ i - 1 \in 0 .. Depth(b) /\ i \in 0 .. Depth(b)
    BY <1>2
  <2>2. Halved(n, i) = Halved(n, i - 1) \div 2
    BY <1>2, <2>1, HalvedIs
  <2> QED
    BY <1>6, <2>1, <2>2
<1> QED
  BY <1>1, <1>2, <1>4, <1>5, <1>6, <1>7

\* A root that the pool is augmented by is a root more.
Grows(rs, t) ==
    /\ rs \in Seq(Nat \ {0}) /\ t \in Seq(Nat \ {0})
    /\ \A r \in DOMAIN rs : r \in DOMAIN t /\ t[r] = rs[r]

LEMMA GrowsSize ==
    ASSUME NEW rs, NEW t, Grows(rs, t), NEW b, b.root \in DOMAIN rs
    PROVE  b.root \in DOMAIN t /\ Size(t, b) = Size(rs, b)
  BY DEF Grows, Size

LEMMA GrowsLent ==
    ASSUME NEW rs, NEW t, Grows(rs, t), NEW L, Lent(rs, L)
    PROVE  Lent(t, L)
<1>1. \A l \in L : l.block.root \in DOMAIN t /\ Size(t, l.block) = Size(rs, l.block)
  BY GrowsSize DEF Lent
<1> QED
  BY <1>1 DEF Lent

LEMMA GrowsKept ==
    ASSUME NEW rs, NEW t, Grows(rs, t), NEW M, NEW P, NEW H, Kept(rs, M, P, H)
    PROVE  Kept(t, M, P, H)
<1>1. \A x \in M \cup P : x.root \in DOMAIN t /\ Size(t, x) = Size(rs, x)
  BY GrowsSize DEF Kept, Sized
<1> QED
  BY <1>1 DEF Kept, Sized, NoPair

\* A request is served from a block b of F, which may be a root that has been pushed.
LEMMA ServeKept ==
    ASSUME NEW rs \in Seq(Nat \ {0}), NEW F, NEW P, NEW L, Lent(rs, L),
           Tree(F, P, {l.block : l \in L}), NoPair(rs, F, P), Sized(rs, F \cup P),
           NEW n \in Sizes, NEW b \in F, Size(rs, b) >= n,
           \A x \in F : x.path = <<>> => x = b,
           NEW k, k = Taken(Size(rs, b), n)
    PROVE  /\ Kept(rs, (F \ {b}) \cup treeSplice(b, k), P \cup Split(b, k),
                   {l.block : l \in L} \cup {Second(b, k)})
           /\ Lent(rs, L \cup {[block |-> Second(b, k), need |-> n]})
<1>1. PICK H : H = {l.block : l \in L}
  OBVIOUS
<1>2. b \in Block /\ b.root \in DOMAIN rs /\ Depth(b) \in Nat /\ n \in Nat /\ n > 0
  BY BlockIs, PoolAssumption DEF Tree, Sized
<1>3. PICK r : r = rs[b.root]
  OBVIOUS
<1>4. r \in Nat /\ Size(rs, b) = Halved(r, Depth(b)) /\ Size(rs, b) \in Nat
  BY <1>2, <1>3, SizeIs DEF Size
<1>5. k \in Nat /\ Halved(Size(rs, b), k) >= n /\ Halved(Size(rs, b), k) < 2 * n
  BY <1>2, <1>4, TakenIs
<1>6. Halved(Size(rs, b), k) = Halved(r, Depth(b) + k)
  BY <1>2, <1>4, <1>5, HalvedMore
<1>7. ASSUME NEW x \in treeSplice(b, k) \cup Split(b, k) \cup {Second(b, k)}
      PROVE  x \in Block /\ x.root \in DOMAIN rs /\ Size(rs, x) > 0
  <2>1. x \in Block /\ x.root = b.root /\ Depth(x) \in Depth(b) .. Depth(b) + k
    BY <1>2, <1>5, SplicePlace
  <2>2. Depth(b) + k \in Nat /\ Depth(x) \in 0 .. Depth(b) + k /\ Depth(x) \in Nat
    BY <1>2, <1>5, <2>1
  <2>3. Halved(r, Depth(b) + k) <= Halved(r, Depth(x))
    BY <1>4, <2>2, HalvedDown
  <2>4. Size(rs, x) = Halved(r, Depth(x)) /\ Halved(r, Depth(x)) \in Nat /\ Halved(r, Depth(b) + k) \in Nat
    BY <1>3, <1>4, <2>1, <2>2, HalvedIs DEF Size
  <2>5. Size(rs, x) > 0
    BY <1>2, <1>5, <1>6, <2>3, <2>4
  <2> QED
    BY <1>2, <2>1, <2>5
<1>8. /\ Tree((F \ {b}) \cup treeSplice(b, k), P \cup Split(b, k), H \cup {Second(b, k)})
      /\ NoPair(rs, (F \ {b}) \cup treeSplice(b, k), P \cup Split(b, k))
      /\ Second(b, k) \notin H
  BY <1>1, <1>5, SpliceTree
<1>9. Sized(rs, ((F \ {b}) \cup treeSplice(b, k)) \cup (P \cup Split(b, k)))
  BY <1>7 DEF Sized
<1>10. ASSUME NEW x \in (F \ {b}) \cup treeSplice(b, k) PROVE x.path # <<>>
  <2>1. CASE x \in F \ {b}
    BY <2>1
  <2>2. CASE x \in treeSplice(b, k)
    <3>1. PICK i \in 0 .. k - 1 : x = Half(Second(b, i), 0)
      BY <2>2 DEF treeSplice
    <3>2. PICK s : s = Second(b, i)
      OBVIOUS
    <3>3. s \in Block /\ Depth(s) \in Nat
      <4>1. i \in Nat
        BY <1>5, <3>1
      <4>2. s \in Block
        BY <1>2, <3>2, <4>1, SecondIs
      <4> QED
        BY <4>2, BlockIs
    <3>4. Depth(x) = Depth(s) + 1
      BY <3>1, <3>2, <3>3, HalfIs
    <3>5. Depth(x) # 0
      BY <3>3, <3>4
    <3>6. Len(<<>>) = 0
      OBVIOUS
    <3> QED
      BY <3>5, <3>6 DEF Depth
  <2> QED
    BY <2>1, <2>2
<1>11. Kept(rs, (F \ {b}) \cup treeSplice(b, k), P \cup Split(b, k), H \cup {Second(b, k)})
  BY <1>8, <1>9, <1>10 DEF Kept
<1>12. PICK new : new = [block |-> Second(b, k), need |-> n]
  OBVIOUS
<1>13. new.block = Second(b, k) /\ new.need = n
  BY <1>12
<1>14. {l.block : l \in L \cup {new}} = H \cup {Second(b, k)}
  BY <1>1, <1>13
<1>15. Apart({l.block : l \in L \cup {new}})
  <2>1. Apart(((F \ {b}) \cup treeSplice(b, k)) \cup (H \cup {Second(b, k)}))
    BY <1>8, TreeApart
  <2> QED
    BY <1>14, <2>1 DEF Apart
<1>16. ASSUME NEW l \in L \cup {new}, NEW m \in L \cup {new}, l.block = m.block PROVE l = m
  <2>1. \A x \in L : x.block # new.block
    BY <1>1, <1>8, <1>13
  <2> QED
    BY <1>16, <2>1 DEF Lent
<1>17. /\ new.block \in Block /\ new.block.root \in DOMAIN rs /\ new.need \in Sizes
       /\ new.need <= Size(rs, new.block) /\ Size(rs, new.block) < 2 * new.need
  <2>1. Second(b, k) \in Block /\ Second(b, k).root = b.root /\ Depth(Second(b, k)) = Depth(b) + k
    BY <1>2, <1>5, SecondIs
  <2>2. Size(rs, Second(b, k)) = Halved(r, Depth(b) + k) /\ Halved(r, Depth(b) + k) \in Nat
    <3>1. Size(rs, Second(b, k)) = Halved(r, Depth(b) + k)
      BY <1>3, <2>1 DEF Size
    <3>2. Depth(b) + k \in Nat
      BY <1>2, <1>5
    <3> QED
      BY <1>4, <3>1, <3>2, HalvedIs
  <2> QED
    BY <1>2, <1>5, <1>6, <1>13, <2>1, <2>2
<1>18. Lent(rs, L \cup {new})
  BY <1>15, <1>16, <1>17 DEF Lent
<1> QED
  BY <1>1, <1>11, <1>12, <1>18

\* A block is given back, and merged up to the depth top.
LEMMA GiveKept ==
    ASSUME NEW rs \in Seq(Nat \ {0}), NEW M, NEW P, NEW H, Kept(rs, M, P, H),
           NEW b \in H, Sized(rs, {b}), NEW top \in 0 .. Depth(b), Buddies(b, top) \subseteq M,
           top > 0 /\ Buddy(Above(b, top)) \in M =>
                2 * Size(rs, Above(b, top)) # Size(rs, Above(b, top - 1))
    PROVE  Kept(rs, (M \ Buddies(b, top)) \cup (IF top = 0 THEN {} ELSE {Above(b, top)}),
                P \ Parents(b, top), H \ {b})
<1>1. PICK N, Q, G, a : /\ N = M \ Buddies(b, top) /\ Q = P \ Parents(b, top)
                        /\ G = (H \ {b}) \cup {a} /\ a = Above(b, top)
  OBVIOUS
<1>2. b \in Block /\ Depth(b) \in Nat /\ b.root \in DOMAIN rs /\ Size(rs, b) > 0
  BY BlockIs DEF Kept, Tree, Sized
<1>3. a \in Block /\ a.root = b.root /\ Depth(a) = top
  BY <1>1, <1>2, AboveIs
<1>4. Tree(N, Q, G) /\ a \notin H \ {b} /\ a \in G /\ G \ {a} = H \ {b}
  <2>1. /\ Tree(M \ Buddies(b, top), P \ Parents(b, top), (H \ {b}) \cup {Above(b, top)})
        /\ Above(b, top) \notin H \ {b}
    BY MergeAll DEF Kept
  <2> QED
    BY <1>1, <2>1
<1>5. NoPair(rs, N, Q) /\ Sized(rs, N \cup Q) /\ \A x \in N : x.path # <<>>
  BY <1>1 DEF Kept, NoPair, Sized
<1>6. CASE top = 0
  <2>1. Tree(N, Q, H \ {b})
    BY <1>3, <1>4, <1>6, DropTree
  <2>2. (M \ Buddies(b, top)) \cup (IF top = 0 THEN {} ELSE {Above(b, top)}) = N
    BY <1>1, <1>6
  <2> QED
    BY <1>1, <1>5, <2>1, <2>2 DEF Kept
<1>7. CASE top # 0
  <2>1. Tree(N \cup {a}, Q, H \ {b})
    BY <1>4, StoreTree
  <2>2. top \in 1 .. Depth(b) /\ top \in Nat
    BY <1>2, <1>7
  <2>3. Size(rs, a) > 0
    BY <1>1, <1>2, SizeIs
  <2>4. a.path # <<>>
    <3>1. Len(<<>>) = 0
      OBVIOUS
    <3> QED
      BY <1>3, <1>7, <3>1 DEF Depth
  <2>5. PICK s, h : s = Above(b, top - 1) /\ h = b.path[top]
    OBVIOUS
  <2>6. h \in {0, 1} /\ 1 - h \in {0, 1} /\ a = Half(s, h) /\ Buddy(a) = Half(s, 1 - h) /\ s \in Block
    BY <1>1, <1>2, <2>2, <2>5, HalfOfAbove, BuddyIs, AboveIs
  <2>7. ASSUME NEW t \in Q, Half(t, 0) \in N \cup {a}, Half(t, 1) \in N \cup {a}
        PROVE  Size(rs, t) % 2 = 1
    <3>1. t \in Block
      BY <1>4 DEF Tree
    <3>2. CASE t = s
      <4>1. Half(s, 1 - h) \in N
        <5>1. Half(s, 1 - h) # Half(s, h)
          BY <2>6, HalfOnce
        <5> QED
          BY <2>6, <2>7, <3>2, <5>1
      <4>2. Buddy(Above(b, top)) \in M
        BY <1>1, <2>6, <4>1
      <4>3. 2 * Size(rs, a) # Size(rs, s)
        BY <1>1, <2>2, <2>5, <4>2
      <4>4. Size(rs, a) = Size(rs, s) \div 2 /\ Size(rs, s) \in Nat
        <5>1. top - 1 \in 0 .. Depth(b)
          BY <1>2, <2>2
        <5> QED
          BY <1>1, <1>2, <2>2, <2>5, <5>1, SizeIs
      <4>5. Size(rs, s) % 2 = 1
        BY <4>3, <4>4
      <4> QED
        BY <3>2, <4>5
    <3>3. CASE t # s
      <4>1. \A g \in {0, 1} : Half(t, g) # a
        BY <2>6, <3>1, <3>3, HalfOnce
      <4>2. Half(t, 0) \in N /\ Half(t, 1) \in N
        BY <2>7, <4>1
      <4> QED
        BY <1>5, <4>2 DEF NoPair
    <3> QED
      BY <3>2, <3>3
  <2>8. NoPair(rs, N \cup {a}, Q)
    BY <2>7 DEF NoPair
  <2>9. Sized(rs, (N \cup {a}) \cup Q) /\ \A x \in N \cup {a} : x.path # <<>>
    BY <1>2, <1>3, <1>5, <2>3, <2>4 DEF Sized
  <2>10. (M \ Buddies(b, top)) \cup (IF top = 0 THEN {} ELSE {Above(b, top)}) = N \cup {a}
    BY <1>1, <1>7
  <2> QED
    BY <1>1, <2>1, <2>8, <2>9, <2>10 DEF Kept
<1> QED
  BY <1>6, <1>7

-------------------------------------------------------------------------------
(***************************************************************************)
(* The actions keep the invariant.                                         *)
(***************************************************************************)
LEMMA SizeOfIs == \A b : SizeOf(b) = Size(rootSize, b) /\ SizeOf(b)' = Size(rootSize', b)
  BY DEF SizeOf, Size

LEMMA PoolInitInv == PoolInit => PoolInv
<1> SUFFICES ASSUME PoolInit PROVE PoolInv
  OBVIOUS
<1>1. rootSize = <<>> /\ memory = {} /\ pooling = {} /\ live = {} /\ totalMemory = 0 /\ poolPhase = "up"
  BY DEF PoolInit
<1>2. rootSize \in Seq(Nat \ {0}) /\ Len(rootSize) <= MaxRoots
  BY <1>1, PoolAssumption
<1>3. Lent(rootSize, live)
  BY <1>1 DEF Lent, Apart
<1>4. Kept(rootSize, memory, pooling, Handed)
  <2>1. Handed = {}
    BY <1>1 DEF Handed
  <2> QED
    BY <1>1, <2>1 DEF Kept, Tree, NoPair, Sized
<1> QED
  BY <1>1, <1>2, <1>3, <1>4 DEF PoolInv

\* Serve() with the blocks of memory, and of a root that has just been pushed.
LEMMA ServeInv ==
    ASSUME PoolInv, poolPhase = "up", NEW n \in Sizes, NEW F, Serve(F, n),
           Grows(rootSize, rootSize'), Len(rootSize') <= MaxRoots, totalMemory' \in Nat,
           Tree(F, pooling, Handed), NoPair(rootSize', F, pooling), Sized(rootSize', F \cup pooling),
           \A x, y \in F : x.path = <<>> /\ Size(rootSize', y) >= n => y = x
    PROVE  PoolInv'
<1>1. /\ rootSize' \in Seq(Nat \ {0}) /\ Len(rootSize') <= MaxRoots /\ totalMemory' \in Nat
      /\ Lent(rootSize', live) /\ Kept(rootSize', memory, pooling, Handed)
  BY GrowsLent, GrowsKept DEF PoolInv, Grows
<1>2. PICK b \in F :
        /\ Size(rootSize', b) >= n
        /\ LET k == Taken(Size(rootSize', b), n)
           IN  IF k = 0 /\ b.path = <<>> /\ Size(rootSize', b) # n
               THEN poolPhase' = "aborted" /\ UNCHANGED <<memory, pooling, live>>
               ELSE /\ memory' = (F \ {b}) \cup treeSplice(b, k)
                    /\ pooling' = pooling \cup {Second(b, i) : i \in 0 .. k - 1}
                    /\ live' = live \cup {[block |-> Second(b, k), need |-> n]}
                    /\ UNCHANGED poolPhase
  BY SizeOfIs DEF Serve
<1>3. PICK k : k = Taken(Size(rootSize', b), n)
  OBVIOUS
<1>4. CASE poolPhase' = "aborted" /\ UNCHANGED <<memory, pooling, live>>
  <2>1. Handed' = Handed
    BY <1>4 DEF Handed
  <2> QED
    BY <1>1, <1>4, <2>1 DEF PoolInv
<1>5. CASE /\ memory' = (F \ {b}) \cup treeSplice(b, k)
           /\ pooling' = pooling \cup Split(b, k)
           /\ live' = live \cup {[block |-> Second(b, k), need |-> n]}
           /\ UNCHANGED poolPhase
  <2>1. /\ rootSize' \in Seq(Nat \ {0}) /\ Lent(rootSize', live)
        /\ Tree(F, pooling, {l.block : l \in live}) /\ NoPair(rootSize', F, pooling)
        /\ Sized(rootSize', F \cup pooling) /\ n \in Sizes /\ b \in F /\ Size(rootSize', b) >= n
        /\ \A x \in F : x.path = <<>> => x = b
        /\ k = Taken(Size(rootSize', b), n)
    BY <1>1, <1>2, <1>3 DEF Handed
  <2>2. PICK rs, m, p, l : rs = rootSize' /\ m = memory' /\ p = pooling' /\ l = live'
    OBVIOUS
  <2>3. /\ Kept(rs, m, p, {x.block : x \in live} \cup {Second(b, k)})
        /\ Lent(rs, l)
    <3>1. /\ Kept(rs, (F \ {b}) \cup treeSplice(b, k), pooling \cup Split(b, k),
                  {x.block : x \in live} \cup {Second(b, k)})
          /\ Lent(rs, live \cup {[block |-> Second(b, k), need |-> n]})
      BY ONLY <2>1, <2>2, ServeKept
    <3> QED
      BY <1>5, <2>2, <3>1
  <2>4. Handed' = {x.block : x \in live} \cup {Second(b, k)}
    <3>1. PICK new : new = [block |-> Second(b, k), need |-> n]
      OBVIOUS
    <3>2. new.block = Second(b, k) /\ live' = live \cup {new}
      BY <1>5, <3>1
    <3> QED
      BY <3>2 DEF Handed
  <2> QED
    BY <1>1, <1>5, <2>2, <2>3, <2>4 DEF PoolInv
<1> QED
  BY <1>2, <1>3, <1>4, <1>5 DEF Split

LEMMA AllocateInv ==
    ASSUME PoolInv, NEW n \in Sizes, Allocate(n)
    PROVE  PoolInv'
<1>1. /\ poolPhase = "up" /\ rootSize' = rootSize /\ totalMemory' = totalMemory /\ Serve(memory, n)
  BY DEF Allocate
<1>2. Kept(rootSize, memory, pooling, Handed)
  BY <1>1 DEF PoolInv
<1>3. /\ Grows(rootSize, rootSize') /\ Len(rootSize') <= MaxRoots /\ totalMemory' \in Nat
      /\ Tree(memory, pooling, Handed) /\ NoPair(rootSize', memory, pooling)
      /\ Sized(rootSize', memory \cup pooling)
      /\ \A x, y \in memory : x.path = <<>> /\ Size(rootSize', y) >= n => y = x
  BY <1>1, <1>2 DEF PoolInv, Kept, Grows
<1> QED
  BY <1>1, <1>3, ServeInv

\* The pool is augmented by what is requested at least.
LEMMA PoolSize ==
    ASSUME totalMemory \in Nat, NEW n \in Sizes
    PROVE  nextPoolSize(n) \in Nat \ {0}
<1>1. n \in Nat /\ n > 0 /\ Align \in Nat /\ Align > 0
  BY PoolAssumption
<1>2. PICK t : t = IF totalMemory < n THEN n ELSE totalMemory
  OBVIOUS
<1>3. t \in Nat /\ t > 0
  BY <1>1, <1>2
<1>4. PICK q : q = (t + Align - 1) \div Align
  OBVIOUS
<1>5. q \in Nat /\ q >= 1
  BY <1>1, <1>3, <1>4
<1>6. q * Align \in Nat /\ q * Align # 0
  BY <1>1, <1>5
<1>7. nextPoolSize(n) = q * Align
  BY <1>2, <1>4 DEF nextPoolSize
<1> QED
  BY <1>6, <1>7

LEMMA AugmentInv ==
    ASSUME PoolInv, NEW n \in Sizes, AllocateAugmented(n)
    PROVE  PoolInv'
<1>1. /\ poolPhase = "up" /\ Len(rootSize) < MaxRoots
      /\ rootSize' = Append(rootSize, nextPoolSize(n))
      /\ totalMemory' = totalMemory + nextPoolSize(n)
      /\ Serve(memory \cup {Root(Len(rootSize'))}, n)
  BY DEF AllocateAugmented
<1>2. PICK v : v = nextPoolSize(n)
  OBVIOUS
<1>3. v \in Nat \ {0} /\ rootSize \in Seq(Nat \ {0}) /\ totalMemory \in Nat /\ MaxRoots \in Nat
  BY <1>2, PoolSize, PoolAssumption DEF PoolInv
<1>4. PICK rs, t : rs = rootSize /\ t = rootSize'
  OBVIOUS
<1>5. /\ t \in Seq(Nat \ {0}) /\ rs \in Seq(Nat \ {0})
      /\ Len(rs) \in Nat /\ Len(t) = Len(rs) + 1 /\ DOMAIN rs = 1 .. Len(rs) /\ DOMAIN t = 1 .. Len(t)
      /\ t[Len(t)] = v /\ \A r \in 1 .. Len(rs) : t[r] = rs[r]
  BY <1>1, <1>2, <1>3, <1>4
<1>6. Grows(rs, t)
  BY <1>5 DEF Grows
<1>7. PICK a : a = Root(Len(t))
  OBVIOUS
<1>8. /\ a \in Block /\ a.root = Len(t) /\ a.path = <<>> /\ Depth(a) = 0
  <2>1. <<>> \in Seq({0, 1}) /\ Len(<<>>) = 0 /\ Len(t) \in Nat
    BY <1>5
  <2> QED
    BY <1>7, <2>1 DEF Root, Block, Depth
<1>9. Kept(rs, memory, pooling, Handed) /\ Kept(t, memory, pooling, Handed)
  BY <1>1, <1>4, <1>6, GrowsKept DEF PoolInv
<1>10. \A x \in memory \cup pooling \cup Handed : x.root \in DOMAIN rs
  BY <1>4, <1>9 DEF PoolInv, Kept, Sized, Lent, Handed
<1>11. a \notin memory \cup pooling \cup Handed /\ \A s \in pooling, h \in {0, 1} : Half(s, h) # a
  <2>1. a.root \notin DOMAIN rs
    BY <1>5, <1>8
  <2>2. \A s \in pooling, h \in {0, 1} : Half(s, h).root \in DOMAIN rs
    BY <1>9, <1>10, HalfIs DEF Kept, Tree
  <2> QED
    BY <1>10, <2>1, <2>2
<1>12. Tree(memory \cup {a}, pooling, Handed)
  <2>1. Tree(memory, pooling, Handed)
    BY <1>9 DEF Kept
  <2>2. \A i \in 0 .. Depth(a) - 1 : Above(a, i) \in pooling
    BY <1>8
  <2> QED
    BY <1>8, <1>11, <2>1, <2>2 DEF Tree
<1>13. NoPair(t, memory \cup {a}, pooling)
  BY <1>9, <1>11 DEF Kept, NoPair
<1>14. Size(t, a) = v
  <2>1. Size(t, a) = Halved(v, 0)
    BY <1>5, <1>8 DEF Size
  <2> QED
    BY <1>3, <2>1, HalvedIs
<1>15. Sized(t, (memory \cup {a}) \cup pooling)
  BY <1>3, <1>5, <1>8, <1>9, <1>14 DEF Kept, Sized
<1>16. ASSUME NEW x \in memory \cup {a}, NEW y \in memory \cup {a}, x.path = <<>>, Size(t, y) >= n
       PROVE  y = x
  <2>1. x = a
    BY <1>9, <1>16 DEF Kept
  <2>2. ASSUME y \in memory PROVE FALSE
    <3>1. Size(rs, y) < n
      BY <1>4, <2>2, SizeOfIs DEF AllocateAugmented
    <3>2. Size(t, y) = Size(rs, y)
      BY <1>6, <1>10, <2>2, GrowsSize
    <3>3. Size(rs, y) \in Nat /\ n \in Nat
      BY <1>5, <1>9, <1>10, <2>2, SizeIs, PoolAssumption DEF Kept, Tree
    <3> QED
      BY <1>16, <3>1, <3>2, <3>3
  <2> QED
    BY <2>1, <2>2
<1>17. Len(t) <= MaxRoots
  BY <1>1, <1>3, <1>4, <1>5
<1>18. totalMemory' \in Nat
  BY <1>1, <1>2, <1>3
<1>19. /\ PoolInv /\ poolPhase = "up" /\ n \in Sizes /\ Serve(memory \cup {a}, n)
       /\ Grows(rootSize, rootSize') /\ Len(rootSize') <= MaxRoots /\ totalMemory' \in Nat
       /\ Tree(memory \cup {a}, pooling, Handed) /\ NoPair(rootSize', memory \cup {a}, pooling)
       /\ Sized(rootSize', (memory \cup {a}) \cup pooling)
       /\ \A x, y \in memory \cup {a} : x.path = <<>> /\ Size(rootSize', y) >= n => y = x
  BY <1>1, <1>4, <1>6, <1>7, <1>12, <1>13, <1>15, <1>16, <1>17, <1>18
<1> QED
  BY ONLY <1>19, ServeInv

\* free() of a block, of those in memory (M) or handed out (H).
LEMMA GiveBackInv ==
    ASSUME NEW M, NEW H, Kept(rootSize, M, pooling, H), rootSize \in Seq(Nat \ {0}),
           totalMemory \in Nat, NEW b \in H, Sized(rootSize, {b}), memory = M \/ memory = M \cup {b},
           GiveBack(b)
    PROVE  Kept(rootSize, memory', pooling', H \ {b}) /\ totalMemory' \in Nat
<1>1. b \in Block /\ b \notin M /\ b.root \in DOMAIN rootSize /\ Depth(b) \in Nat
  BY BlockIs DEF Kept, Tree, Sized
<1>2. PICK top : top = Top(b)
  OBVIOUS
<1>3. /\ top \in 0 .. Depth(b) /\ \A i \in top + 1 .. Depth(b) : Buddy(Above(b, i)) \in memory
      /\ top > 0 => ~Merges(b, top)
  BY <1>1, <1>2, TopIs DEF Merges
<1>4. ASSUME NEW i \in 1 .. Depth(b) PROVE Buddy(Above(b, i)) # b
  <2>1. /\ i - 1 \in 0 .. Depth(b) /\ b.path[i] \in {0, 1} /\ Above(b, i) = Half(Above(b, i - 1), b.path[i])
        /\ 1 - b.path[i] \in {0, 1} /\ Buddy(Above(b, i)) = Half(Above(b, i - 1), 1 - b.path[i])
    BY <1>1, HalfOfAbove, BuddyIs
  <2>2. PICK s : s = Above(b, i - 1)
    OBVIOUS
  <2>3. s \in Block /\ Depth(s) = i - 1
    BY <1>1, <2>1, <2>2, AboveIs
  <2>4. Depth(Half(s, 1 - b.path[i])) = Depth(s) + 1
    BY <2>1, <2>3, HalfIs
  <2>5. CASE i = Depth(b)
    <3>1. b = Half(s, b.path[i])
      BY <1>1, <2>1, <2>2, <2>5, AboveSelf
    <3>2. ASSUME Half(s, 1 - b.path[i]) = Half(s, b.path[i]) PROVE FALSE
      <4>1. 1 - b.path[i] = b.path[i]
        BY <2>1, <2>3, <3>2, HalfOnce
      <4> QED
        BY <2>1, <4>1
    <3> QED
      BY <2>1, <2>2, <3>1, <3>2
  <2>6. CASE i # Depth(b)
    BY <1>1, <2>1, <2>2, <2>3, <2>4, <2>6
  <2> QED
    BY <2>5, <2>6
<1>5. Buddies(b, top) \subseteq M
  <2>1. ASSUME NEW i \in top + 1 .. Depth(b) PROVE Buddy(Above(b, i)) \in M
    <3>1. i \in 1 .. Depth(b)
      BY <1>1, <1>3
    <3> QED
      BY <1>3, <1>4, <3>1
  <2> QED
    BY <2>1 DEF Buddies
<1>6. top > 0 /\ Buddy(Above(b, top)) \in M =>
            2 * Size(rootSize, Above(b, top)) # Size(rootSize, Above(b, top - 1))
  BY <1>3, SizeOfIs DEF Merges
<1>7. Kept(rootSize, (M \ Buddies(b, top)) \cup (IF top = 0 THEN {} ELSE {Above(b, top)}),
           pooling \ Parents(b, top), H \ {b})
  BY <1>3, <1>5, <1>6, GiveKept
<1>8. memory' = (M \ Buddies(b, top)) \cup (IF top = 0 THEN {} ELSE {Above(b, top)})
  <2>1. memory' = (memory \ ({b} \cup Buddies(b, top))) \cup (IF top = 0 THEN {} ELSE {Above(b, top)})
    BY <1>2 DEF GiveBack, Buddies
  <2>2. memory \ ({b} \cup Buddies(b, top)) = M \ Buddies(b, top)
    BY <1>1
  <2> QED
    BY <2>1, <2>2
<1>9. pooling' = pooling \ Parents(b, top) /\ totalMemory' \in Nat
  BY <1>2 DEF GiveBack, Parents
<1> QED
  BY <1>7, <1>8, <1>9

LEMMA FreeInv ==
    ASSUME PoolInv, NEW l \in live, Free(l)
    PROVE  PoolInv'
<1>1. /\ poolPhase = "up" /\ live' = live \ {l} /\ GiveBack(l.block)
      /\ rootSize' = rootSize /\ poolPhase' = poolPhase
  BY DEF Free
<1>2. PICK b : b = l.block
  OBVIOUS
<1>3. /\ Kept(rootSize, memory, pooling, Handed) /\ b \in Handed /\ GiveBack(b)
      /\ rootSize \in Seq(Nat \ {0}) /\ totalMemory \in Nat
  BY <1>1, <1>2 DEF PoolInv, Handed
<1>4. Sized(rootSize, {b})
  <2>1. /\ b \in Block /\ b.root \in DOMAIN rootSize /\ l.need \in Sizes
        /\ l.need <= Size(rootSize, b)
    BY <1>2 DEF PoolInv, Lent
  <2>2. Size(rootSize, b) \in Nat /\ l.need \in Nat /\ l.need > 0
    BY <1>3, <2>1, SizeIs, PoolAssumption
  <2> QED
    BY <2>1, <2>2 DEF Sized
<1>5. Kept(rootSize, memory', pooling', Handed \ {b}) /\ totalMemory' \in Nat
  BY <1>3, <1>4, GiveBackInv
<1>6. Handed' = Handed \ {b}
  <2>1. \A m \in live : m.block = b => m = l
    BY <1>2 DEF PoolInv, Lent
  <2> QED
    BY <1>1, <1>2, <2>1 DEF Handed
<1>7. Lent(rootSize, live')
  <2>1. Lent(rootSize, live) /\ live' \subseteq live
    BY <1>1 DEF PoolInv
  <2> QED
    BY <2>1 DEF Lent, Apart
<1> QED
  BY <1>1, <1>5, <1>6, <1>7 DEF PoolInv

LEMMA TidyStepInv ==
    ASSUME PoolInv, TidyStep
    PROVE  PoolInv'
<1>1. /\ poolPhase = "tidying" /\ rootSize' = rootSize /\ live' = live /\ poolPhase' = poolPhase
  BY DEF TidyStep
<1>2. PICK b \in memory : GiveBack(b)
  BY DEF TidyStep
<1>3. /\ Kept(rootSize, memory, pooling, Handed)
      /\ rootSize \in Seq(Nat \ {0}) /\ totalMemory \in Nat /\ Lent(rootSize, live)
  BY <1>1 DEF PoolInv
<1>4. PICK M, H : M = memory \ {b} /\ H = Handed \cup {b}
  OBVIOUS
<1>5. Kept(rootSize, M, pooling, H)
  <2>1. Tree(M, pooling, H)
    BY <1>3, <1>4, MoveTree DEF Kept
  <2> QED
    BY <1>3, <1>4, <2>1 DEF Kept, NoPair, Sized
<1>6. b \in H /\ Sized(rootSize, {b}) /\ memory = M \cup {b} /\ H \ {b} = Handed
  BY <1>3, <1>4 DEF Kept, Sized, Tree
<1>7. Kept(rootSize, memory', pooling', H \ {b}) /\ totalMemory' \in Nat
  BY <1>2, <1>3, <1>5, <1>6, GiveBackInv
<1>8. Handed' = Handed
  BY <1>1 DEF Handed
<1> QED
  BY <1>1, <1>3, <1>6, <1>7, <1>8 DEF PoolInv

LEMMA PoolStepInv == PoolInv /\ [PoolNext]_poolVars => PoolInv'
<1> SUFFICES ASSUME PoolInv, [PoolNext]_poolVars PROVE PoolInv'
  OBVIOUS
<1>1. CASE \E n \in Sizes : Allocate(n)
  BY <1>1, AllocateInv
<1>2. CASE \E n \in Sizes : AllocateAugmented(n)
  BY <1>2, AugmentInv
<1>3. CASE \E l \in live : Free(l)
  BY <1>3, FreeInv
<1>4. CASE BeginTidy
  <2>1. Handed' = Handed
    BY <1>4 DEF BeginTidy, Handed
  <2> QED
    BY <1>4, <2>1 DEF BeginTidy, PoolInv
<1>5. CASE TidyStep
  BY <1>5, TidyStepInv
<1>6. CASE TidyDone
  BY <1>6 DEF TidyDone, PoolInv
<1>7. CASE UNCHANGED poolVars
  <2>1. Handed' = Handed
    BY <1>7 DEF poolVars, Handed
  <2> QED
    BY <1>7, <2>1 DEF poolVars, PoolInv
<1> QED
  BY <1>1, <1>2, <1>3, <1>4, <1>5, <1>6, <1>7 DEF PoolNext, PoolRests

LEMMA PoolAlways == PoolSpec => []PoolInv
  BY PoolInitInv, PoolStepInv, PTL DEF PoolSpec

LEMMA PoolTypes == PoolInv => PoolTypeOK
<1> SUFFICES ASSUME PoolInv PROVE PoolTypeOK
  OBVIOUS
<1>1. ASSUME NEW b \in Block, b.root \in DOMAIN rootSize, Size(rootSize, b) > 0 PROVE IsBlock(b)
  <2>1. DOMAIN b.path = 1 .. Depth(b)
    BY BlockIs DEF Depth
  <2> QED
    BY <1>1, <2>1, BlockIs, SizeOfIs DEF IsBlock
<1>2. \A b \in memory \cup pooling : IsBlock(b)
  BY <1>1 DEF PoolInv, Kept, Tree, Sized
<1>3. ASSUME NEW l \in live PROVE IsBlock(l.block) /\ l.need \in Sizes
  <2>1. /\ l.block \in Block /\ l.block.root \in DOMAIN rootSize /\ l.need \in Sizes
        /\ l.need <= Size(rootSize, l.block) /\ rootSize \in Seq(Nat \ {0})
    BY DEF PoolInv, Lent
  <2>2. Size(rootSize, l.block) \in Nat /\ l.need \in Nat /\ l.need > 0
    BY <2>1, SizeIs, PoolAssumption
  <2> QED
    BY <1>1, <2>1, <2>2
<1>4. \A b \in memory : b.path # <<>>
  BY DEF PoolInv, Kept
<1> QED
  BY <1>2, <1>3, <1>4 DEF PoolInv, PoolTypeOK

\* The roots and the blocks are what they are declared to be, and no block is empty,
\* whatever MemoryPool::allocate(), free() and tidy() have done to them.
THEOREM PoolTypeCorrect == PoolSpec => []PoolTypeOK
  BY PoolAlways, PoolTypes, PTL

\* Of the split blocks within s take one that lies deepest: neither of its halves is
\* split, nor handed out if nothing within s is.
LEMMA CoalescedStep == PoolInv => Coalesced
<1> SUFFICES ASSUME PoolInv, NEW s \in pooling,
                    \A l \in live : ~Within(l.block, s),
                    \A t \in pooling : Within(t, s) => ~Uneven(t)
             PROVE  FALSE
  BY DEF Coalesced
<1>1. /\ Kept(rootSize, memory, pooling, Handed) /\ rootSize \in Seq(Nat \ {0})
      /\ Tree(memory, pooling, Handed)
  BY DEF PoolInv, Kept
<1>2. s \in Block
  BY <1>1 DEF Tree
<1>3. Within(s, s)
  BY <1>2, WithinIs, BlockIs, AboveSelf
<1> DEFINE S == {Depth(t) : t \in {t \in pooling : Within(t, s)}}
<1>4. PICK n : n = rootSize[s.root]
  OBVIOUS
<1>5. n \in Nat /\ S \subseteq Nat /\ S # {} /\ \A d \in S : d <= n
  <2>1. ASSUME NEW t \in pooling, Within(t, s) PROVE Depth(t) \in Nat /\ Depth(t) <= n
    <3>1. t \in Block /\ t.root = s.root /\ t.root \in DOMAIN rootSize /\ Size(rootSize, t) > 0
      BY <1>1, <2>1 DEF Tree, Kept, Sized, Within
    <3> QED
      BY <1>1, <1>4, <3>1, SizeIs, BlockIs
  <2>2. n \in Nat
    BY <1>1, <1>2, <1>4, SizeIs DEF Kept, Sized
  <2> QED
    BY <1>3, <2>1, <2>2
<1>6. PICK d \in S : \A e \in S : d >= e
  <2> HIDE DEF S
  <2> QED
    BY <1>5, GreatestNumber
<1>7. PICK t \in pooling : Within(t, s) /\ d = Depth(t)
  BY <1>6
<1>8. t \in Block /\ Depth(t) \in Nat /\ Depth(s) \in 0 .. Depth(t) /\ Above(t, Depth(s)) = s
  BY <1>1, <1>2, <1>7, WithinIs, BlockIs DEF Tree
<1>9. ASSUME NEW h \in {0, 1} PROVE Half(t, h) \in memory
  <2>1. Half(t, h) \in Block /\ Depth(Half(t, h)) = Depth(t) + 1 /\ Above(Half(t, h), Depth(s)) = s
    BY <1>8, HalfIs, AboveHalf
  <2>2. Depth(s) \in 0 .. Depth(Half(t, h))
    BY <1>8, <2>1
  <2>3. Within(Half(t, h), s)
    BY <1>2, <2>1, <2>2, WithinIs
  <2>4. Half(t, h) \notin pooling
    <3>1. ASSUME Half(t, h) \in pooling PROVE FALSE
      <4>1. Depth(Half(t, h)) \in S
        BY <2>3, <3>1
      <4> QED
        BY <1>6, <1>7, <1>8, <2>1, <4>1
    <3> QED
      BY <3>1
  <2>5. Half(t, h) \notin Handed
    BY <2>3 DEF Handed
  <2> QED
    BY <1>1, <1>7, <2>4, <2>5 DEF Tree
<1>10. Half(t, 0) \in memory /\ Half(t, 1) \in memory
  BY <1>9
<1>11. Size(rootSize, t) % 2 = 1
  BY <1>1, <1>7, <1>10 DEF Kept, NoPair
<1> QED
  BY <1>7, <1>11, SizeOfIs DEF Uneven

\* treeMerge() leaves no block split of which nothing is in use, but for odd sizes.
THEOREM CoalescedTheorem == PoolSpec => []Coalesced
  BY PoolAlways, CoalescedStep, PTL

-------------------------------------------------------------------------------
(***************************************************************************)
(* Offsets: blocks neither of which lies within the other do not overlap.  *)
(***************************************************************************)

\* The offsets of what is above a block, from the root down to the block: numbers s
\* are the sizes, path says which are second halves.
Adds(path, s, f, i) == f[i] = IF path[i] = 1 THEN f[i - 1] + s[i] ELSE f[i - 1]

\* Sums of what a path selects exist, are numbers and are defined by the rule.
LEMMA SumsExist ==
    ASSUME NEW D \in Nat, NEW s, NEW path, \A i \in 1 .. D : s[i] \in Nat
    PROVE  \E h : /\ \A i \in Nat : h[i] \in Nat
                  /\ h[0] = 0 /\ \A i \in 1 .. D : Adds(path, s, h, i)
<1> DEFINE inc(i) == IF i + 1 <= D /\ path[i + 1] = 1 THEN s[i + 1] ELSE 0
           g == [p \in Nat \X Nat |-> p[2] + inc(p[1])]
<1>1. ASSUME NEW i \in Nat PROVE inc(i) \in Nat
  <2>1. CASE i + 1 <= D
    <3>1. s[i + 1] \in Nat
      BY <2>1
    <3> QED
      BY <3>1
  <2>2. CASE ~(i + 1 <= D)
    BY <2>2
  <2> QED
    BY <2>1, <2>2
<1> HIDE DEF inc
<1>2. g \in [Nat \X Nat -> Nat]
  <2>1. ASSUME NEW p \in Nat \X Nat PROVE p[2] + inc(p[1]) \in Nat
    <3>1. p[1] \in Nat /\ p[2] \in Nat
      OBVIOUS
    <3>2. inc(p[1]) \in Nat
      BY <1>1, <3>1
    <3> QED
      BY <3>1, <3>2
  <2> QED
    BY <2>1
<1>3. \A i, v \in Nat : g[<<i, v>>] = v + inc(i)
  OBVIOUS
<1> HIDE DEF g
<1>4. PICK h \in [Nat -> Nat] : h[0] = 0 /\ \A i \in Nat : h[i + 1] = g[<<i, h[i]>>]
  <2>1. g \in [Nat \X Nat -> Nat] /\ 0 \in Nat
    BY <1>2
  <2> QED
    BY ONLY <2>1, NumberRecursion
<1>5. \A i \in Nat : h[i] \in Nat
  OBVIOUS
<1>6. ASSUME NEW i \in 1 .. D PROVE Adds(path, s, h, i)
  <2>1. PICK j \in Nat : j + 1 = i /\ j = i - 1
    OBVIOUS
  <2>2. h[i] = h[j] + inc(j) /\ h[j] \in Nat
    BY <1>3, <1>4, <2>1
  <2>3. inc(j) = IF path[i] = 1 THEN s[i] ELSE 0
    BY <2>1 DEF inc
  <2>4. CASE path[i] = 1
    BY <2>1, <2>2, <2>3, <2>4 DEF Adds
  <2>5. CASE path[i] # 1
    BY <2>1, <2>2, <2>3, <2>5 DEF Adds
  <2> QED
    BY <2>4, <2>5
<1> QED
  BY <1>4, <1>5, <1>6

LEMMA SumsAgree ==
    ASSUME NEW D \in Nat, NEW s, NEW f, NEW g, NEW p, NEW q, f[0] = 0, g[0] = 0,
           \A i \in 1 .. D : Adds(p, s, f, i) /\ Adds(q, s, g, i) /\ p[i] = q[i]
    PROVE  f[D] = g[D]
<1> DEFINE T == {i \in Nat : i <= D => f[i] = g[i]}
<1>1. 0 \in T
  OBVIOUS
<1>2. ASSUME NEW i \in Nat, i \in T PROVE i + 1 \in T
  <2>1. ASSUME i + 1 <= D PROVE f[i + 1] = g[i + 1]
    <3>1. i <= D /\ i + 1 \in 1 .. D /\ i + 1 - 1 = i
      BY <2>1
    <3>2. f[i] = g[i]
      BY <1>2, <3>1
    <3> QED
      BY <3>1, <3>2 DEF Adds
  <2> QED
    BY <2>1
<1> HIDE DEF T
<1>3. \A i \in Nat : i \in T
  BY <1>1, <1>2, AllNumbers
<1> QED
  BY <1>3 DEF T

\* What is selected from i on is no more than the size at i.
LEMMA SumsInside ==
    ASSUME NEW D \in Nat, NEW s, NEW f, NEW p, NEW i \in Nat, i <= D,
           \A j \in Nat : s[j] \in Nat /\ s[j + 1] = s[j] \div 2,
           \A j \in 0 .. D : f[j] \in Nat,
           \A j \in 1 .. D : Adds(p, s, f, j)
    PROVE  f[i] <= f[D] /\ f[D] + s[D] <= f[i] + s[i]
<1> DEFINE T == {j \in Nat : i <= j /\ j <= D => f[i] <= f[j] /\ f[j] + s[j] <= f[i] + s[i]}
<1>1. 0 \in T
  <2>1. ASSUME i <= 0 PROVE i = 0 /\ f[i] \in Nat /\ s[i] \in Nat
    BY <2>1
  <2> QED
    BY <2>1
<1>2. ASSUME NEW j \in Nat, j \in T PROVE j + 1 \in T
  <2>1. ASSUME i <= j + 1, j + 1 <= D
        PROVE  f[i] <= f[j + 1] /\ f[j + 1] + s[j + 1] <= f[i] + s[i]
    <3>1. PICK x, y, v, w, a, c : /\ x = f[j] /\ y = f[j + 1] /\ v = s[j] /\ w = s[j + 1]
                                  /\ a = f[i] /\ c = s[i]
      OBVIOUS
    <3>2. /\ j \in 0 .. D /\ j + 1 \in 1 .. D /\ j + 1 - 1 = j /\ j + 1 \in 0 .. D /\ i \in 0 .. D
          /\ j <= D /\ (i = j + 1 \/ i <= j)
      BY <2>1
    <3>3. x \in Nat /\ y \in Nat /\ v \in Nat /\ w \in Nat /\ w = v \div 2 /\ a \in Nat /\ c \in Nat
      BY <3>1, <3>2
    <3>4. y = x \/ y = x + w
      BY <3>1, <3>2 DEF Adds
    <3>5. x <= y /\ y + w <= x + v
      BY ONLY <3>3, <3>4
    <3>6. i <= j => a <= x /\ x + v <= a + c
      BY <1>2, <3>1, <3>2
    <3>7. i <= j => a <= y /\ y + w <= a + c
      BY ONLY <3>3, <3>5, <3>6
    <3>8. i = j + 1 => a <= y /\ y + w <= a + c
      BY <3>1, <3>3
    <3> QED
      BY <3>1, <3>2, <3>7, <3>8
  <2> QED
    BY <2>1
<1> HIDE DEF T
<1>3. \A j \in Nat : j \in T
  BY <1>1, <1>2, AllNumbers
<1>4. D \in T
  BY <1>3
<1> QED
  BY <1>4 DEF T

\* The sizes from the root down.
Halvings(n) == [i \in Nat |-> Halved(n, i)]

LEMMA HalvingsAre ==
    ASSUME NEW n \in Nat
    PROVE  \A i \in Nat : /\ Halvings(n)[i] = Halved(n, i) /\ Halvings(n)[i] \in Nat
                          /\ Halvings(n)[i + 1] = Halvings(n)[i] \div 2
<1>1. \A i \in Nat : Halved(n, i) \in Nat /\ Halved(n, i + 1) = Halved(n, i) \div 2
  BY HalvedIs
<1>2. \A i \in Nat : Halvings(n)[i] = Halved(n, i)
  BY DEF Halvings
<1>3. \A i \in Nat : i + 1 \in Nat
  OBVIOUS
<1> QED
  BY <1>1, <1>2, <1>3

\* f has the offsets of what is above b.
Offsets(b, f) ==
    /\ \A i \in Nat : f[i] \in Nat
    /\ f[0] = 0
    /\ \A i \in 1 .. Depth(b) : Adds(b.path, Halvings(rootSize[b.root]), f, i)

LEMMA OffsetIs ==
    ASSUME NEW b \in Block, b.root \in DOMAIN rootSize, rootSize \in Seq(Nat \ {0})
    PROVE  \E f : Offsets(b, f) /\ OffsetOf(b) = f[Depth(b)]
<1>1. PICK D \in Nat : D = Depth(b)
  BY BlockIs
<1>2. PICK n \in Nat : n = rootSize[b.root]
  BY SizeIs
<1>3. PICK s : s = Halvings(n)
  OBVIOUS
<1>4. \A i \in Nat : s[i] \in Nat /\ s[i] = Halved(n, i)
  BY <1>3, HalvingsAre
<1>5. \A i \in 1 .. D : SizeOf(Above(b, i)) = s[i] /\ s[i] \in Nat
  <2>1. ASSUME NEW i \in 1 .. D PROVE SizeOf(Above(b, i)) = s[i] /\ s[i] \in Nat
    <3>1. i \in 0 .. Depth(b) /\ i \in Nat
      BY <1>1
    <3>2. SizeOf(Above(b, i)) = Halved(n, i)
      BY <1>2, <3>1, SizeOfIs, SizeIs
    <3> QED
      BY <1>4, <3>1, <3>2
  <2> QED
    BY <2>1
<1>6. PICK h : /\ \A i \in Nat : h[i] \in Nat
               /\ h[0] = 0 /\ \A i \in 1 .. D : Adds(b.path, s, h, i)
  <2>1. D \in Nat /\ \A i \in 1 .. D : s[i] \in Nat
    BY <1>5
  <2> QED
    BY ONLY <2>1, SumsExist
<1>7. Offsets(b, h)
  BY <1>1, <1>2, <1>3, <1>6 DEF Offsets
<1> DEFINE Rule(f) == f = [i \in 0 .. Depth(b) |->
                IF i = 0 THEN 0
                ELSE IF b.path[i] = 1 THEN f[i - 1] + SizeOf(Above(b, i)) ELSE f[i - 1]]
           offset[i \in 0 .. Depth(b)] ==
                IF i = 0 THEN 0
                ELSE IF b.path[i] = 1 THEN offset[i - 1] + SizeOf(Above(b, i)) ELSE offset[i - 1]
<1>8. PICK f : f = [i \in 0 .. D |-> h[i]]
  OBVIOUS
<1>9. \A i \in 0 .. D : f[i] = h[i]
  BY <1>8
<1>10. \A i \in 0 .. D : i # 0 => i \in 1 .. D /\ i - 1 \in 0 .. D
  OBVIOUS
<1>11. \A i \in 0 .. D : f[i] = IF i = 0 THEN 0
            ELSE IF b.path[i] = 1 THEN f[i - 1] + SizeOf(Above(b, i)) ELSE f[i - 1]
  <2>1. ASSUME NEW i \in 0 .. D, i # 0
        PROVE  f[i] = IF b.path[i] = 1 THEN f[i - 1] + SizeOf(Above(b, i)) ELSE f[i - 1]
    <3>1. i \in 1 .. D /\ i - 1 \in 0 .. D
      BY <1>10, <2>1
    <3>2. Adds(b.path, s, h, i) /\ SizeOf(Above(b, i)) = s[i]
      BY <1>5, <1>6, <3>1
    <3>3. f[i] = h[i] /\ f[i - 1] = h[i - 1]
      BY <1>9, <3>1
    <3> QED
      BY <3>2, <3>3 DEF Adds
  <2>2. 0 \in 0 .. D => f[0] = 0
    BY <1>6, <1>9
  <2> QED
    BY <2>1, <2>2
<1>12. Rule(f)
  <2>1. DOMAIN f = 0 .. D /\ f = [i \in 0 .. D |-> f[i]]
    BY <1>8
  <2> QED
    BY <1>1, <1>11, <2>1
<1>13. Rule(offset)
  <2>1. \E o : Rule(o)
    BY <1>12
  <2> QED
    BY <2>1
<1>14. OffsetOf(b) = offset[Depth(b)]
  BY DEF OffsetOf
<1> HIDE DEF offset
<1>15. PICK o : o = offset
  OBVIOUS
<1>16. \A i \in 0 .. D : o[i] = IF i = 0 THEN 0
            ELSE IF b.path[i] = 1 THEN o[i - 1] + SizeOf(Above(b, i)) ELSE o[i - 1]
  BY <1>1, <1>13, <1>15
<1> HIDE DEF Rule
<1>17. o[0] = 0 /\ \A i \in 1 .. D : Adds(b.path, s, o, i)
  <2>1. 0 \in 0 .. D /\ \A i \in 1 .. D : i \in 0 .. D /\ i # 0
    OBVIOUS
  <2> QED
    BY <1>5, <1>16, <2>1 DEF Adds
<1>18. o[D] = h[D]
  <2>1. /\ o[0] = 0 /\ h[0] = 0
        /\ \A i \in 1 .. D : /\ Adds(b.path, s, o, i) /\ Adds(b.path, s, h, i)
                             /\ b.path[i] = b.path[i]
    BY <1>6, <1>17
  <2> QED
    BY ONLY D \in Nat, <2>1, SumsAgree
<1> QED
  BY <1>1, <1>7, <1>14, <1>15, <1>18

LEMMA OffsetInside ==
    ASSUME NEW b \in Block, b.root \in DOMAIN rootSize, rootSize \in Seq(Nat \ {0}),
           NEW f, Offsets(b, f), NEW i \in 0 .. Depth(b)
    PROVE  /\ f[i] <= f[Depth(b)]
           /\ f[Depth(b)] + SizeOf(b) <= f[i] + Halvings(rootSize[b.root])[i]
<1>1. PICK D \in Nat : D = Depth(b)
  BY BlockIs
<1>2. PICK n \in Nat : n = rootSize[b.root]
  BY SizeIs
<1>3. PICK s : s = Halvings(n)
  OBVIOUS
<1>4. \A j \in Nat : s[j] \in Nat /\ s[j] = Halved(n, j) /\ s[j + 1] = s[j] \div 2
  BY <1>3, HalvingsAre
<1>5. /\ i \in Nat /\ i <= D /\ \A j \in 0 .. D : f[j] \in Nat
      /\ \A j \in 1 .. D : Adds(b.path, s, f, j)
  BY <1>1, <1>2, <1>3 DEF Offsets
<1>6. f[i] <= f[D] /\ f[D] + s[D] <= f[i] + s[i]
  BY ONLY <1>4, <1>5, SumsInside, D \in Nat
<1>7. SizeOf(b) = s[D]
  BY <1>1, <1>2, <1>4 DEF SizeOf
<1> QED
  BY <1>1, <1>2, <1>3, <1>6, <1>7

\* Of two blocks of a root neither of which lies within the other, there is a place
\* where one lies in the first half and the other in the second.
LEMMA Divergence ==
    ASSUME NEW b \in Block, NEW c \in Block, b.root = c.root, ~Within(b, c), ~Within(c, b)
    PROVE  \E i \in Nat \ {0} : /\ i <= Depth(b) /\ i <= Depth(c) /\ b.path[i] # c.path[i]
                                /\ \A j \in 1 .. i - 1 : b.path[j] = c.path[j]
<1> DEFINE T == {i \in Nat : 1 <= i /\ i <= Depth(b) /\ i <= Depth(c) /\ b.path[i] # c.path[i]}
<1>1. Depth(b) \in Nat /\ Depth(c) \in Nat
  BY BlockIs
<1>2. ASSUME NEW x \in Block, NEW y \in Block, x.root = y.root, Depth(x) <= Depth(y), ~Within(y, x)
      PROVE  \E i \in 1 .. Depth(x) : x.path[i] # y.path[i]
  <2> SUFFICES ASSUME \A i \in 1 .. Depth(x) : x.path[i] = y.path[i] PROVE FALSE
    OBVIOUS
  <2>1. Depth(x) \in 0 .. Depth(y)
    BY <1>2, BlockIs
  <2>2. PICK a : a = Above(y, Depth(x))
    OBVIOUS
  <2>3. a \in Block /\ a.root = y.root /\ Depth(a) = Depth(x) /\ \A i \in 1 .. Depth(x) : a.path[i] = y.path[i]
    BY <2>1, <2>2, AboveIs
  <2>4. a = x
    BY <1>2, <2>3, SameBlock
  <2> QED
    BY <1>2, <2>1, <2>2, <2>4, WithinIs
<1>3. T # {}
  <2>1. CASE Depth(b) <= Depth(c)
    <3>1. PICK i \in 1 .. Depth(b) : b.path[i] # c.path[i]
      BY <1>2, <2>1
    <3>2. i \in T
      BY <1>1, <2>1, <3>1
    <3> QED
      BY <3>2
  <2>2. CASE Depth(c) <= Depth(b)
    <3>1. PICK i \in 1 .. Depth(c) : c.path[i] # b.path[i]
      BY <1>2, <2>2
    <3>2. i \in T
      BY <1>1, <2>2, <3>1
    <3> QED
      BY <3>2
  <2> QED
    BY <1>1, <2>1, <2>2
<1>4. PICK i \in T : \A j \in T : i <= j
  <2>1. T \subseteq Nat
    OBVIOUS
  <2> HIDE DEF T
  <2> QED
    BY <1>3, <2>1, FirstPosition
<1>5. ASSUME NEW j \in 1 .. i - 1 PROVE b.path[j] = c.path[j]
  <2>1. j \in Nat /\ ~(i <= j) /\ j <= Depth(b) /\ j <= Depth(c) /\ 1 <= j
    BY <1>1
  <2>2. j \notin T
    BY <1>4, <2>1
  <2> QED
    BY <2>1, <2>2
<1> QED
  BY <1>1, <1>4, <1>5

\* The one in the first half ends before the other begins.
LEMMA HalvesApart ==
    ASSUME NEW b \in Block, NEW c \in Block, b.root = c.root, b.root \in DOMAIN rootSize,
           rootSize \in Seq(Nat \ {0}), NEW i \in Nat \ {0}, i <= Depth(b), i <= Depth(c),
           b.path[i] = 0, c.path[i] = 1, \A j \in 1 .. i - 1 : b.path[j] = c.path[j]
    PROVE  OffsetOf(b) + SizeOf(b) <= OffsetOf(c)
<1>1. PICK f : Offsets(b, f) /\ OffsetOf(b) = f[Depth(b)]
  BY OffsetIs
<1>2. PICK g : Offsets(c, g) /\ OffsetOf(c) = g[Depth(c)]
  BY OffsetIs
<1>3. PICK s : s = Halvings(rootSize[b.root])
  OBVIOUS
<1>4. i \in 0 .. Depth(b) /\ i \in 0 .. Depth(c) /\ i \in 1 .. Depth(b) /\ i \in 1 .. Depth(c)
  BY BlockIs
<1>5. f[Depth(b)] + SizeOf(b) <= f[i] + s[i]
  BY <1>1, <1>3, <1>4, OffsetInside
<1>6. g[i] <= g[Depth(c)]
  BY <1>2, <1>4, OffsetInside
<1>7. PICK k \in Nat : k = i - 1
  OBVIOUS
<1>8. f[k] = g[k]
  <2>1. /\ f[0] = 0 /\ g[0] = 0
        /\ \A j \in 1 .. k : Adds(b.path, s, f, j) /\ Adds(c.path, s, g, j) /\ b.path[j] = c.path[j]
    <3>1. \A j \in 1 .. k : j \in 1 .. Depth(b) /\ j \in 1 .. Depth(c) /\ j \in 1 .. i - 1
      BY <1>4, <1>7, BlockIs
    <3> QED
      BY <1>1, <1>2, <1>3, <3>1 DEF Offsets
  <2> QED
    BY ONLY k \in Nat, <2>1, SumsAgree
<1>9. Adds(b.path, s, f, i) /\ Adds(c.path, s, g, i)
  BY <1>1, <1>2, <1>3, <1>4 DEF Offsets
<1>10. f[i] = f[k] /\ g[i] = g[k] + s[i]
  BY <1>7, <1>9 DEF Adds
<1>11. f[Depth(b)] + SizeOf(b) <= g[i]
  BY <1>5, <1>8, <1>10
<1>12. g[i] \in Nat /\ g[Depth(c)] \in Nat /\ f[Depth(b)] \in Nat /\ SizeOf(b) \in Nat
  BY <1>1, <1>2, SizeOfIs, SizeIs, BlockIs DEF Offsets
<1>13. f[Depth(b)] + SizeOf(b) <= g[Depth(c)]
  BY <1>6, <1>11, <1>12
<1> QED
  BY <1>1, <1>2, <1>13

LEMMA TiledStep == PoolInv => Tiled
<1> SUFFICES ASSUME PoolInv PROVE Tiled
  OBVIOUS
<1>1. rootSize \in Seq(Nat \ {0}) /\ Lent(rootSize, live)
  BY DEF PoolInv
<1>2. \A b \in Blocks : b \in Block /\ b.root \in DOMAIN rootSize
  BY DEF PoolInv, Kept, Tree, Sized, Lent, Blocks
<1>3. Apart(Blocks)
  <2>1. CASE poolPhase = "gone"
    <3>1. Blocks = {l.block : l \in live}
      BY <2>1 DEF PoolInv, Blocks
    <3> QED
      BY <1>1, <3>1 DEF Lent
  <2>2. CASE poolPhase # "gone"
    <3>1. Apart(memory \cup Handed)
      BY <2>2, TreeApart DEF PoolInv, Kept
    <3> QED
      BY <3>1 DEF Blocks, Handed
  <2> QED
    BY <2>1, <2>2
<1>4. ASSUME NEW b \in Blocks PROVE OffsetOf(b) + SizeOf(b) <= rootSize[b.root]
  <2>1. b \in Block /\ b.root \in DOMAIN rootSize
    BY <1>2
  <2>2. PICK f : Offsets(b, f) /\ OffsetOf(b) = f[Depth(b)]
    BY <1>1, <2>1, OffsetIs
  <2>3. 0 \in 0 .. Depth(b)
    BY <2>1, BlockIs
  <2>4. f[Depth(b)] + SizeOf(b) <= f[0] + Halvings(rootSize[b.root])[0]
    BY <1>1, <2>1, <2>2, <2>3, OffsetInside
  <2>5. rootSize[b.root] \in Nat
    BY <1>1, <2>1, SizeIs
  <2>6. Halvings(rootSize[b.root])[0] = rootSize[b.root]
    BY <2>5, HalvingsAre, HalvedIs
  <2>7. f[0] = 0
    BY <2>2 DEF Offsets
  <2>8. f[0] + Halvings(rootSize[b.root])[0] = rootSize[b.root]
    BY <2>5, <2>6, <2>7
  <2> QED
    BY <2>2, <2>4, <2>8
<1>5. ASSUME NEW b \in Blocks, NEW c \in Blocks \ {b}, b.root = c.root
      PROVE  OffsetOf(b) + SizeOf(b) <= OffsetOf(c) \/ OffsetOf(c) + SizeOf(c) <= OffsetOf(b)
  <2>1. b \in Block /\ c \in Block /\ b.root \in DOMAIN rootSize /\ c.root \in DOMAIN rootSize
    BY <1>2
  <2>2. ~Within(b, c) /\ ~Within(c, b)
    BY <1>3 DEF Apart
  <2>3. PICK i \in Nat \ {0} : /\ i <= Depth(b) /\ i <= Depth(c) /\ b.path[i] # c.path[i]
                               /\ \A j \in 1 .. i - 1 : b.path[j] = c.path[j]
    BY <1>5, <2>1, <2>2, Divergence
  <2>4. b.path[i] \in {0, 1} /\ c.path[i] \in {0, 1}
    BY <2>1, <2>3, BlockIs
  <2>5. CASE b.path[i] = 0 /\ c.path[i] = 1
    BY <1>1, <1>5, <2>1, <2>3, <2>5, HalvesApart
  <2>6. CASE c.path[i] = 0 /\ b.path[i] = 1
    <3>1. \A j \in 1 .. i - 1 : c.path[j] = b.path[j]
      BY <2>3
    <3> QED
      BY <1>1, <1>5, <2>1, <2>3, <2>6, <3>1, HalvesApart
  <2> QED
    BY <2>3, <2>4, <2>5, <2>6
<1>6. NoOverlap
  BY <1>4, <1>5 DEF NoOverlap
<1>7. PartsAccounted
  BY DEF PoolInv, Kept, Tree, PartsAccounted, Blocks, Handed
<1>8. FitsTightly
  BY <1>1, SizeOfIs DEF Lent, FitsTightly
<1> QED
  BY <1>6, <1>7, <1>8 DEF Tiled

\* What allocate() and free() keep and hand out never overlaps, no part of a split block
\* is lost, and each request gets a block of its size and less than twice of it.
THEOREM TiledTheorem == PoolSpec => []Tiled
  BY PoolAlways, TiledStep, PTL
=================================================================================
