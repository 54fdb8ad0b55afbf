------------------------------ MODULE MemoryPool ------------------------------
(***************************************************************************)
(* MemoryPool, the buddy allocator of device memory for one layout, with   *)
(* the MemoryCache and the GlobalPooledAllocator that fill it.             *)
(*                                                                         *)
(* A root is device memory that the pool has been augmented by.  A block   *)
(* is a root, or a half of a block; it is written as [root, path], where   *)
(* the path says for every halving which half it lies in, so that parent,  *)
(* size and offset follow from it.  _memory is sorted by size: which of    *)
(* several blocks of one size is taken is left open.  A root is never put  *)
(* into _memory by free(), only by push(), and allocate() takes it at once.*)
(* The counters of used memory and of allocations are read by nobody and   *)
(* are left out.                                                           *)
(***************************************************************************)
EXTENDS Naturals, Sequences, SequencesExt, FiniteSetsExt

CONSTANTS
    Sizes,          \* sizes that are requested
    PoolSizes,      \* those for which shouldPool()
    Align,          \* MemoryLayout::align
    MaxRoots        \* bound: how often the pool is augmented

\* Definitions marked "Faulty" are not part of the model, see CompositePipeline.

ASSUME PoolAssumption ==
    /\ Sizes \subseteq Nat \ {0} /\ PoolSizes \subseteq Sizes
    /\ Align \in Nat \ {0} /\ MaxRoots \in Nat \ {0}

VARIABLES
    rootSize,       \* sizes of the roots that have been pushed
    memory,         \* MemoryPool::_memory
    pooling,        \* MemoryPool::_pooling, blocks that have been split
    live,           \* blocks that are handed out, with the size that was requested
    totalMemory,    \* MemoryPool::_totalMemory
    poolPhase       \* "up", "tidying", "gone", or "aborted" by an assertion

poolVars == <<rootSize, memory, pooling, live, totalMemory, poolPhase>>

Root(r) == [root |-> r, path |-> <<>>]
Depth(b) == Len(b.path)
Above(b, i) == [b EXCEPT !.path = SubSeq(@, 1, i)]
Half(b, h) == [b EXCEPT !.path = Append(@, h)]
Buddy(b) == Half(Above(b, Depth(b) - 1), 1 - Last(b.path))
Within(b, s) == b.root = s.root /\ IsPrefix(s.path, b.path)

\* A size that has been halved k times.
Halved(n, k) ==
    LET size[i \in Nat] == IF i = 0 THEN n ELSE size[i - 1] \div 2
    IN  size[k]

\* AllocatedMemory::size and AllocatedMemory::offset: a second half begins where the
\* first half ends.
SizeOf(b) == Halved(rootSize[b.root], Depth(b))
OffsetOf(b) ==
    LET offset[i \in 0 .. Depth(b)] ==
            IF i = 0 THEN 0
            ELSE IF b.path[i] = 1 THEN offset[i - 1] + SizeOf(Above(b, i)) ELSE offset[i - 1]
    IN  offset[Depth(b)]

IsBlock(b) ==
    /\ b.root \in DOMAIN rootSize
    /\ \A i \in DOMAIN b.path : b.path[i] \in {0, 1}
    /\ SizeOf(b) > 0

PoolTypeOK ==
    /\ rootSize \in Seq(Nat \ {0}) /\ Len(rootSize) <= MaxRoots
    /\ \A b \in memory \cup pooling : IsBlock(b)
    /\ \A l \in live : IsBlock(l.block) /\ l.need \in Sizes
    /\ \A b \in memory : b.path # <<>>
    /\ totalMemory \in Nat
    /\ poolPhase \in {"up", "tidying", "gone", "aborted"}

PoolInit ==
    /\ rootSize = <<>> /\ memory = {} /\ pooling = {} /\ live = {}
    /\ totalMemory = 0 /\ poolPhase = "up"
-------------------------------------------------------------------------------
\* nextPoolSize(): the total so far, or the requested size, to a multiple of Align.
\* The total is what has been pushed: it is not reduced when a root is given back.
nextPoolSize(n) ==
    LET target == IF totalMemory < n THEN n ELSE totalMemory
    IN  ((target + Align - 1) \div Align) * Align

\* allocate(): how often the block that is taken is halved.
Taken(size, n) == Max({k \in 0 .. size : Halved(size, k) >= n})

\* The second half of the second half, and so on.
Second(b, i) == [b EXCEPT !.path = @ \o [j \in 1 .. i |-> 1]]

\* Faulty treeSplice: the first half of the last split is forgotten.
treeSpliceForgets(b, k) == {Half(Second(b, i), 0) : i \in 0 .. k - 2}
\* treeSplice(): the first halves are stored, it is the second half that is split
\* again, and the last second half is what allocate() then takes.
treeSplice(b, k) == {Half(Second(b, i), 0) : i \in 0 .. k - 1}

\* MemoryPool::allocate() from the blocks in free, which hold one of at least n.  A
\* root that cannot be halved meets the assertion of storeSubAllocate().
Serve(free, n) ==
    \E b \in free :
        /\ \A c \in free : SizeOf(c)' >= n => SizeOf(c)' >= SizeOf(b)'
        /\ SizeOf(b)' >= n
        /\ LET k == Taken(SizeOf(b)', n)
           IN  IF k = 0 /\ b.path = <<>> /\ SizeOf(b)' # n
               THEN poolPhase' = "aborted" /\ UNCHANGED <<memory, pooling, live>>
               ELSE /\ memory' = (free \ {b}) \cup treeSplice(b, k)
                    /\ pooling' = pooling \cup {Second(b, i) : i \in 0 .. k - 1}
                    /\ live' = live \cup {[block |-> Second(b, k), need |-> n]}
                    /\ UNCHANGED poolPhase

\* GlobalPooledAllocator::allocate(): from the pool if it has a block, otherwise
\* the pool is augmented if the size is one to be pooled.  (Other requests are
\* passed on to the driver and do not concern the pool.)
Allocate(n) ==
    /\ poolPhase = "up"
    /\ UNCHANGED <<rootSize, totalMemory>>
    /\ \E b \in memory : SizeOf(b) >= n
    /\ Serve(memory, n)

AllocateAugmented(n) ==
    /\ poolPhase = "up" /\ n \in PoolSizes /\ Len(rootSize) < MaxRoots
    /\ \A b \in memory : SizeOf(b) < n
    /\ rootSize' = Append(rootSize, nextPoolSize(n))
    /\ totalMemory' = totalMemory + nextPoolSize(n)
    /\ Serve(memory \cup {Root(Len(rootSize'))}, n)

\* Faulty Top: one merge, and no recursive call.
TopOnce(b) ==
    IF b.path # <<>> /\ Buddy(b) \in memory /\ 2 * SizeOf(b) = SizeOf(Above(b, Depth(b) - 1))
    THEN Depth(b) - 1 ELSE Depth(b)

\* free() and treeMerge(): how far up the halves are merged.
Top(b) ==
    Min({j \in 0 .. Depth(b) : \A i \in j + 1 .. Depth(b) :
            /\ Buddy(Above(b, i)) \in memory
            /\ 2 * SizeOf(Above(b, i)) = SizeOf(Above(b, i - 1))})

\* MemoryPool::free(): what is merged up to the root goes back to the driver, and
\* so does a root that was handed out whole.
GiveBack(b) ==
    LET top == Top(b)
        merged == top + 1 .. Depth(b)
    IN  /\ memory' = (memory \ ({b} \cup {Buddy(Above(b, i)) : i \in merged}))
                        \cup (IF top = 0 THEN {} ELSE {Above(b, top)})
        /\ pooling' = pooling \ {Above(b, i - 1) : i \in merged}
        /\ totalMemory' = IF memory' = {} /\ pooling' = {} THEN 0 ELSE totalMemory

Free(l) ==
    /\ poolPhase = "up" /\ l \in live
    /\ live' = live \ {l}
    /\ GiveBack(l.block)
    /\ UNCHANGED <<rootSize, poolPhase>>

\* tidy() frees the smallest block of _memory until there is none left: a block that
\* does not merge is put back and taken again.
BeginTidy ==
    /\ poolPhase = "up"
    /\ poolPhase' = "tidying"
    /\ UNCHANGED <<rootSize, memory, pooling, live, totalMemory>>

TidyStep ==
    /\ poolPhase = "tidying"
    /\ \E b \in memory :
        /\ \A c \in memory : SizeOf(b) <= SizeOf(c)
        /\ GiveBack(b)
    /\ UNCHANGED <<rootSize, live, poolPhase>>

TidyDone ==
    /\ poolPhase = "tidying" /\ memory = {}
    /\ pooling' = {} /\ poolPhase' = "gone"
    /\ UNCHANGED <<rootSize, memory, live, totalMemory>>

PoolRests == poolPhase \in {"gone", "aborted"} /\ UNCHANGED poolVars

PoolNext ==
    \/ \E n \in Sizes : Allocate(n)
    \/ \E n \in Sizes : AllocateAugmented(n)
    \/ \E l \in live : Free(l)
    \/ BeginTidy
    \/ TidyStep
    \/ TidyDone
    \/ PoolRests

PoolSpec == PoolInit /\ [][PoolNext]_poolVars
-------------------------------------------------------------------------------
(***************************************************************************)
(* Properties.                                                             *)
(***************************************************************************)
Blocks == memory \cup {l.block : l \in live}
Uneven(s) == SizeOf(s) % 2 = 1

\* No two blocks that are free or handed out overlap, and none leaves its root.
NoOverlap ==
    \A b \in Blocks :
        /\ OffsetOf(b) + SizeOf(b) <= rootSize[b.root]
        /\ \A c \in Blocks \ {b} : b.root = c.root =>
                OffsetOf(b) + SizeOf(b) <= OffsetOf(c) \/ OffsetOf(c) + SizeOf(c) <= OffsetOf(b)

\* Who asks for memory gets what it needs, and less than twice as much.
FitsTightly ==
    \A l \in live : l.need <= SizeOf(l.block) /\ SizeOf(l.block) < 2 * l.need

\* No part of a split block is lost: either half is free, handed out, or split.
PartsAccounted ==
    poolPhase # "gone" => \A s \in pooling, h \in {0, 1} : Half(s, h) \in Blocks \cup pooling

\* The pool is tiled by what is free and what is handed out, and every request gets
\* a tile that fits it.
Tiled == NoOverlap /\ PartsAccounted /\ FitsTightly

\* Memory is not kept in pieces: a block stays split only while some of it is in use,
\* or because an odd size has been halved, which can never be merged.
Coalesced ==
    \A s \in pooling :
        \/ \E l \in live : Within(l.block, s)
        \/ \E t \in pooling : Within(t, s) /\ Uneven(t)

\* tidy() returns if all memory has been given back before, unless an odd size has
\* been halved.  (Otherwise it goes on for ever: there is nothing left to merge.)
TidyReturns ==
    (poolPhase = "tidying" /\ live = {} /\ \A s \in pooling : ~Uneven(s))
        ~> poolPhase = "gone"
===============================================================================
