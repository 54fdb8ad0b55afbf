--------------------------- MODULE SharedReference ---------------------------
(***************************************************************************)
(* SharedMemoryReference and its control block: an object that handles of  *)
(* several threads share.  The block packs the pointer and a reference     *)
(* count of 16 bits into one word, and every step below is one atomic      *)
(* operation on that word.                                                 *)
(*                                                                         *)
(* A handle is an ordinary variable: while a thread copies it no other     *)
(* thread resets, moves or destroys it.  The handle itself is emptied      *)
(* when its release begins, because only its thread looks at it.           *)
(***************************************************************************)
EXTENDS Naturals, FiniteSets

CONSTANTS
    Handle,         \* variables that may hold the object
    Thread,
    NoHandle,
    RefLimit        \* how many references the packed word can count: 2^16

\* Definitions marked "Faulty" are not part of the model, see CompositePipeline.

ASSUME SharedAssumption ==
    /\ IsFiniteSet(Handle) /\ Handle # {} /\ NoHandle \notin Handle
    /\ RefLimit \in Nat /\ Cardinality(Handle) < RefLimit

VARIABLES
    handle,         \* "empty", "making" (being copied into) or "held"
    refs,           \* the count in the packed word
    pointer,        \* the pointer in the packed word is not null
    doing,          \* what a thread is about to do
    object,         \* the object exists
    late            \* history: the block has been used after it was deleted

sharedVars == <<handle, refs, pointer, doing, object, late>>

Step == {"idle", "add", "sub", "clear", "restore", "destroy"}
Doing ==
    [step : Step, from : Handle \cup {NoHandle}, to : Handle \cup {NoHandle},
     expectRefs : Nat, expectPointer : BOOLEAN]
Idle == [step |-> "idle", from |-> NoHandle, to |-> NoHandle,
         expectRefs |-> 0, expectPointer |-> FALSE]
At(step) == [Idle EXCEPT !.step = step]

SharedTypeOK ==
    /\ handle \in [Handle -> {"empty", "making", "held"}]
    /\ refs \in Nat
    /\ pointer \in BOOLEAN /\ object \in BOOLEAN /\ late \in BOOLEAN
    /\ doing \in [Thread -> Doing]

\* make_smr(): a block with the pointer, and its first acq().
SharedInit ==
    /\ \E h \in Handle : handle = [g \in Handle |-> IF g = h THEN "held" ELSE "empty"]
    /\ refs = 1 /\ pointer = TRUE
    /\ doing = [t \in Thread |-> Idle]
    /\ object = TRUE /\ late = FALSE
------------------------------------------------------------------------------
Copied(h) == \E t \in Thread : doing[t].step = "add" /\ doing[t].from = h
Held == {h \in Handle : handle[h] = "held"}

\* The copy constructor has read the block of s.
Copy(t, s, d) ==
    /\ doing[t] = Idle
    /\ handle[s] = "held" /\ handle[d] = "empty"
    /\ handle' = [handle EXCEPT ![d] = "making"]
    /\ doing' = [doing EXCEPT ![t] = [Idle EXCEPT !.step = "add", !.from = s, !.to = d]]
    /\ UNCHANGED <<refs, pointer, object, late>>

\* Faulty Acquire: the reference is not counted.
AcquireUncounted(t) ==
    /\ doing[t].step = "add"
    /\ handle' = [handle EXCEPT ![doing[t].to] = "held"]
    /\ doing' = [doing EXCEPT ![t] = Idle]
    /\ UNCHANGED <<refs, pointer, object, late>>

\* acq(): it counts first; without a pointer the reference is taken back.
Acquire(t) ==
    /\ doing[t].step = "add"
    /\ refs' = refs + 1
    /\ late' = (late \/ ~object)
    /\ IF pointer
       THEN /\ handle' = [handle EXCEPT ![doing[t].to] = "held"]
            /\ doing' = [doing EXCEPT ![t] = Idle]
       ELSE /\ handle' = [handle EXCEPT ![doing[t].to] = "empty"]
            /\ doing' = [doing EXCEPT ![t] = At("sub")]
    /\ UNCHANGED <<pointer, object>>

\* The move constructor, or the swap of the move assignment.
Move(t, s, d) ==
    /\ doing[t] = Idle
    /\ handle[s] = "held" /\ handle[d] = "empty" /\ ~Copied(s)
    /\ handle' = [handle EXCEPT ![s] = "empty", ![d] = "held"]
    /\ UNCHANGED <<refs, pointer, doing, object, late>>

\* Faulty Release: a thread releases a handle that another one is copying.
ReleaseRaced(t, h) ==
    /\ doing[t] = Idle
    /\ handle[h] = "held"
    /\ handle' = [handle EXCEPT ![h] = "empty"]
    /\ refs' = refs - 1
    /\ doing' = [doing EXCEPT ![t] = IF refs = 1 THEN At("clear") ELSE Idle]
    /\ UNCHANGED <<pointer, object, late>>

\* Faulty Release: the count is compared after the subtraction, not before.
ReleaseComparesAfter(t, h) ==
    /\ doing[t] = Idle
    /\ handle[h] = "held" /\ ~Copied(h)
    /\ handle' = [handle EXCEPT ![h] = "empty"]
    /\ refs' = refs - 1
    /\ doing' = [doing EXCEPT ![t] = IF refs' = 1 THEN At("clear") ELSE Idle]
    /\ UNCHANGED <<pointer, object, late>>

\* reset() and the destructor: the subtraction of rel().
Release(t, h) ==
    /\ doing[t] = Idle
    /\ handle[h] = "held" /\ ~Copied(h)
    /\ handle' = [handle EXCEPT ![h] = "empty"]
    /\ refs' = refs - 1
    /\ doing' = [doing EXCEPT ![t] = IF refs = 1 THEN At("clear") ELSE Idle]
    /\ UNCHANGED <<pointer, object, late>>

\* The loop of compare_exchange_weak(): it ends when the word is as expected, which
\* puts the pointer back, or when nobody holds a reference any more.
Restored(t) ==
    LET e == doing[t]
    IN  IF e.expectRefs # 0 /\ (refs # e.expectRefs \/ pointer # e.expectPointer)
        THEN /\ doing' = [doing EXCEPT ![t].expectRefs = refs, ![t].expectPointer = pointer]
             /\ UNCHANGED pointer
        ELSE /\ doing' = [doing EXCEPT ![t] = IF e.expectRefs = 0 THEN At("destroy") ELSE Idle]
             /\ pointer' = (pointer \/ e.expectRefs # 0)

\* The rest of rel(), one operation at a time.
Settle(t) ==
    LET step == doing[t].step
        next(s) == doing' = [doing EXCEPT ![t] = s]
    IN  /\ step \in {"sub", "clear", "restore", "destroy"}
        /\ refs' = IF step = "sub" THEN refs - 1 ELSE refs
        /\ object' = (object /\ step # "destroy")
        /\ late' = (late \/ ~object)
        /\ CASE step = "sub" ->
                   next(IF refs = 1 THEN At("clear") ELSE Idle) /\ UNCHANGED pointer
             [] step = "clear" ->
                   /\ pointer' = FALSE
                   /\ next(IF ~pointer THEN Idle
                           ELSE IF refs = 0 THEN At("destroy")
                           ELSE [At("restore") EXCEPT !.expectRefs = refs,
                                                      !.expectPointer = TRUE])
             [] step = "restore" -> Restored(t)
             [] step = "destroy" -> next(Idle) /\ UNCHANGED pointer
        /\ UNCHANGED handle

\* Nobody holds the object any more.
SharedRests ==
    /\ \A h \in Handle : handle[h] = "empty"
    /\ \A t \in Thread : doing[t] = Idle
    /\ UNCHANGED sharedVars

SharedNext ==
    \/ \E t \in Thread, s, d \in Handle : Copy(t, s, d)
    \/ \E t \in Thread : Acquire(t)
    \/ \E t \in Thread, s, d \in Handle : Move(t, s, d)
    \/ \E t \in Thread, h \in Handle : Release(t, h)
    \/ \E t \in Thread : Settle(t)
    \/ SharedRests

SharedSpec == SharedInit /\ [][SharedNext]_sharedVars
------------------------------------------------------------------------------
(***************************************************************************)
(* Properties.                                                             *)
(***************************************************************************)

\* A handle that holds the object finds it, and the pointer to it in the block,
\* which is what the next copy is made from.
AliveWhileHeld == \A h \in Handle : handle[h] = "held" => object /\ pointer

\* The count is that of the handles, so that it stays below the 16 bits that the
\* packed word has for it and does not carry into the pointer.
RefsExact == refs = Cardinality(Held) /\ refs < RefLimit

\* No thread uses the block after it has deleted itself, and it is destroyed by one
\* thread only.
NoLateUse ==
    /\ ~late
    /\ \A t, u \in Thread : doing[t].step \in {"clear", "destroy"}
                            /\ doing[u].step \in {"clear", "destroy"} => t = u

\* The fallback of rel(), for a reference that is acquired after the last one has
\* been released, is never taken, nor does acq() find the pointer missing.
FallbackUnused == \A t \in Thread : doing[t].step \notin {"sub", "restore"}

\* What nobody holds is destroyed in the end.
LastOneDestroys ==
    (\A h \in Handle : handle[h] = "empty") ~> ~object

Owned == INSTANCE OwnedObject WITH Handle <- Handle, holders <- Held, exists <- object
ImplementsOwned == Owned!OwnedSpec
==============================================================================
