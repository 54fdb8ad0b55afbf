------------------------------ MODULE AsyncProofs ------------------------------
(***************************************************************************)
(* Theorems about what threads and fibers share and hand to each other:    *)
(* SharedReference, for any handles and threads, ResourceGuard, for any    *)
(* threads, resources and guards, and PlatformQueue, for any number of     *)
(* fibers: as long as the ring has room for a promise of each, every       *)
(* promise is called, once.  At the end the components of MCSupport, of    *)
(* which these are three, are put together.                                *)
(***************************************************************************)
EXTENDS MCSupport, EditorProofs, MemoryPoolProofs, FiniteSetTheorems, TLAPS

\* The thread that goes on after the last release.
Settling(t) == doing[t].step \in {"clear", "destroy"}

\* A thread that copies has both handles to itself: the source is held, the
\* destination is made by nobody else.
CopiesInv ==
    /\ \A t \in Thread : doing[t].step = "add" =>
            /\ doing[t].from \in Handle /\ doing[t].to \in Handle
            /\ handle[doing[t].from] = "held" /\ handle[doing[t].to] = "making"
    /\ \A t, u \in Thread : doing[t].step = "add" /\ doing[u].step = "add"
                            /\ doing[t].to = doing[u].to => t = u

\* Only one thread settles, and only when nobody holds the object; the pointer is in
\* the block until that thread takes it out.
SettlesInv ==
    /\ \A t \in Thread : Settling(t) =>
            Held = {} /\ object /\ pointer = (doing[t].step = "clear")
    /\ \A t, u \in Thread : Settling(t) /\ Settling(u) => t = u

SharedInv ==
    /\ SharedTypeOK
    /\ refs = Cardinality(Held)
    /\ FallbackUnused
    /\ CopiesInv
    /\ SettlesInv
    /\ Held # {} => object /\ pointer
    /\ ~late

LEMMA HeldFinite == IsFiniteSet(Held) /\ Cardinality(Held) <= Cardinality(Handle)
  BY SharedAssumption, FS_Subset DEF Held

LEMMA SharedInitInv == SharedInit => SharedInv
<1> SUFFICES ASSUME SharedInit PROVE SharedInv
  OBVIOUS
<1>1. PICK h \in Handle : handle = [g \in Handle |-> IF g = h THEN "held" ELSE "empty"]
  BY DEF SharedInit
<1>2. Held = {h}
  BY <1>1 DEF Held
<1>3. Cardinality(Held) = 1
  BY <1>2, FS_Singleton
<1>4. SharedTypeOK
  BY <1>1 DEF SharedInit, SharedTypeOK, Idle, Doing, Step
<1>5. \A t \in Thread : doing[t].step = "idle"
  BY DEF SharedInit, Idle
<1> QED
  BY <1>2, <1>3, <1>4, <1>5
  DEF SharedInit, SharedInv, FallbackUnused, CopiesInv, SettlesInv, Settling

\* A copy has begun: nobody holds more or less.
LEMMA CopyInv ==
  ASSUME SharedInv, NEW t \in Thread, NEW s \in Handle, NEW d \in Handle, Copy(t, s, d)
  PROVE  SharedInv'
<1> USE DEF SharedInv, Copy
<1>1. SharedTypeOK'
  BY DEF SharedTypeOK, Idle, Doing, Step
<1>2. Held' = Held
  BY DEF Held, SharedTypeOK
<1>3. /\ doing'[t].step = "add" /\ doing'[t].from = s /\ doing'[t].to = d
      /\ \A u \in Thread \ {t} : doing'[u] = doing[u]
      /\ doing[t].step = "idle"
  BY DEF SharedTypeOK, Idle
<1>4. s # d
  OBVIOUS
<1>5. FallbackUnused'
  BY <1>3 DEF FallbackUnused
<1>6. CopiesInv'
  BY <1>3, <1>4 DEF CopiesInv, SharedTypeOK
<1>7. SettlesInv'
  BY <1>2, <1>3 DEF SettlesInv, Settling, SharedTypeOK
<1> QED
  BY <1>1, <1>2, <1>5, <1>6, <1>7

\* The copy is counted: one more handle holds the object.
LEMMA AcquireInv ==
  ASSUME SharedInv, NEW t \in Thread, Acquire(t)
  PROVE  SharedInv' /\ Held' = Held \cup {doing[t].to} /\ Held # {}
<1> USE DEF SharedInv
<1> DEFINE d == doing[t].to
<1>1. d \in Handle /\ handle[d] = "making" /\ Held # {} /\ d \notin Held
  BY DEF Acquire, CopiesInv, Held
<1>2. pointer /\ object
  BY <1>1
<1>3. /\ refs' = refs + 1 /\ handle' = [handle EXCEPT ![d] = "held"]
      /\ doing' = [doing EXCEPT ![t] = Idle] /\ UNCHANGED <<pointer, object>>
      /\ late' \in BOOLEAN /\ ~late'
  BY <1>2 DEF Acquire
<1>4. Held' = Held \cup {d}
  BY <1>1, <1>3 DEF Held, SharedTypeOK
<1>5. Cardinality(Held') = Cardinality(Held) + 1
  BY <1>1, <1>4, HeldFinite, FS_AddElement
<1>6. SharedTypeOK'
  BY <1>1, <1>3 DEF SharedTypeOK, Idle, Doing, Step
<1>7. /\ doing'[t].step = "idle"
      /\ \A u \in Thread \ {t} : doing'[u] = doing[u]
  BY <1>3 DEF SharedTypeOK, Idle
<1>8. FallbackUnused'
  BY <1>7 DEF FallbackUnused
<1>9. CopiesInv'
  BY <1>1, <1>3, <1>7 DEF CopiesInv, SharedTypeOK, Acquire
<1>10. SettlesInv'
  BY <1>1, <1>3, <1>7 DEF SettlesInv, Settling
<1> QED
  BY <1>1, <1>2, <1>3, <1>4, <1>5, <1>6, <1>8, <1>9, <1>10

\* The object is handed over: as many handles hold it as before.
LEMMA MoveInv ==
  ASSUME SharedInv, NEW t \in Thread, NEW s \in Handle, NEW d \in Handle, Move(t, s, d)
  PROVE  SharedInv' /\ Held' = (Held \ {s}) \cup {d} /\ s \in Held
<1> USE DEF SharedInv, Move
<1>1. SharedTypeOK'
  BY DEF SharedTypeOK
<1>2. s \in Held /\ d \notin Held /\ s # d
  BY DEF Held
<1>3. Held' = (Held \ {s}) \cup {d}
  BY <1>2 DEF Held, SharedTypeOK
<1>4. Cardinality(Held \ {s}) = Cardinality(Held) - 1 /\ IsFiniteSet(Held \ {s})
  BY <1>2, HeldFinite, FS_RemoveElement
<1>5. Cardinality(Held') = Cardinality(Held)
  <2>1. Cardinality((Held \ {s}) \cup {d}) = Cardinality(Held \ {s}) + 1
    BY <1>2, <1>4, FS_AddElement
  <2> QED
    BY <1>3, <1>4, <2>1, HeldFinite, FS_CardinalityType
<1>6. CopiesInv'
  BY DEF CopiesInv, Copied, SharedTypeOK
<1>7. SettlesInv'
  BY <1>2 DEF SettlesInv, Settling
<1> QED
  BY <1>1, <1>2, <1>3, <1>5, <1>6, <1>7 DEF FallbackUnused

\* A handle is released: if it was the last one, its thread settles.
LEMMA ReleaseInv ==
  ASSUME SharedInv, NEW t \in Thread, NEW h \in Handle, Release(t, h)
  PROVE  SharedInv' /\ Held' = Held \ {h} /\ h \in Held
<1> USE DEF SharedInv, Release
<1>1. h \in Held /\ Held' = Held \ {h}
  BY DEF Held, SharedTypeOK
<1>2. Cardinality(Held') = Cardinality(Held) - 1 /\ IsFiniteSet(Held')
  BY <1>1, HeldFinite, FS_RemoveElement
<1>3. Cardinality(Held) \in Nat /\ refs \in Nat /\ refs' = Cardinality(Held')
  BY <1>2, HeldFinite, FS_CardinalityType
<1>4. refs = 1 <=> Held' = {}
  BY <1>2, <1>3, FS_EmptySet
<1>5. refs' \in Nat
  BY <1>2, <1>3, FS_CardinalityType
<1>6. SharedTypeOK'
  BY <1>5 DEF SharedTypeOK, At, Idle, Doing, Step
<1>7. /\ doing'[t].step = (IF refs = 1 THEN "clear" ELSE "idle")
      /\ \A u \in Thread \ {t} : doing'[u] = doing[u]
  BY DEF SharedTypeOK, Idle, At
<1>8. FallbackUnused'
  BY <1>7 DEF FallbackUnused
<1>9. CopiesInv'
  BY <1>7 DEF CopiesInv, Copied, SharedTypeOK
<1>10. \A u \in Thread \ {t} : ~Settling(u)'
  BY <1>1, <1>7 DEF SettlesInv, Settling
<1>11. ~Settling(t)
  BY DEF Settling, Idle
<1>12. pointer /\ object /\ pointer' = TRUE /\ object' = TRUE
  BY <1>1 DEF SharedTypeOK
<1>13. SettlesInv'
  <2>1. ASSUME NEW u \in Thread, Settling(u)'
        PROVE  u = t /\ Held' = {} /\ object' /\ pointer' = (doing'[u].step = "clear")
    <3>1. u = t /\ refs = 1
      BY <1>7, <1>10, <2>1 DEF Settling
    <3>2. doing'[u].step = "clear"
      BY <1>7, <3>1
    <3>3. Held' = {}
      BY <1>4, <3>1
    <3>4. object' /\ pointer' = (doing'[u].step = "clear")
      <4>1. (doing'[u].step = "clear") = TRUE
        BY <3>2
      <4> HIDE DEF Release, SharedInv
      <4> QED
        BY <1>12, <4>1
    <3> QED
      BY <3>1, <3>3, <3>4
  <2> QED
    BY <2>1 DEF SettlesInv
<1> QED
  BY <1>1, <1>3, <1>6, <1>8, <1>9, <1>12, <1>13

\* The thread that settles takes the pointer out of the block, and then destroys the
\* object and the block; it meets no reference that was acquired meanwhile.
LEMMA SettleInv ==
  ASSUME SharedInv, NEW t \in Thread, Settle(t)
  PROVE  /\ SharedInv' /\ Held' = Held /\ Held = {} /\ object
         /\ object' = (object /\ doing[t].step # "destroy")
<1> USE DEF SharedInv
<1>1. Settling(t) /\ Held = {} /\ object /\ refs = 0
  <2>1. doing[t].step \in {"clear", "destroy"}
    BY DEF Settle, FallbackUnused
  <2> QED
    BY <2>1, FS_EmptySet DEF SettlesInv, Settling
<1>2. /\ Held' = Held /\ handle' = handle /\ refs' = refs
      /\ late' \in BOOLEAN /\ ~late'
      /\ object' = (object /\ doing[t].step # "destroy")
  BY <1>1 DEF Settle, Held, Settling
<1>3. \A u \in Thread : doing[u].step # "add"
  BY <1>1 DEF CopiesInv, Held
<1>4. CASE doing[t].step = "clear"
  <2>1. pointer
    BY <1>1, <1>4 DEF SettlesInv
  <2>2. pointer' = FALSE /\ doing' = [doing EXCEPT ![t] = At("destroy")] /\ object'
    BY <1>1, <1>4, <2>1 DEF Settle
  <2>3. SharedTypeOK'
    BY <1>2, <2>2 DEF SharedTypeOK, At, Idle, Doing, Step
  <2>4. doing'[t].step = "destroy" /\ \A u \in Thread \ {t} : doing'[u] = doing[u]
    BY <2>2 DEF SharedTypeOK, At, Idle
  <2>5. FallbackUnused' /\ CopiesInv'
    BY <1>3, <2>4 DEF FallbackUnused, CopiesInv
  <2>6. SettlesInv'
    BY <1>1, <1>2, <2>2, <2>4 DEF SettlesInv, Settling
  <2> QED
    BY <1>1, <1>2, <1>4, <2>2, <2>3, <2>5, <2>6
<1>5. CASE doing[t].step = "destroy"
  <2>1. /\ doing' = [doing EXCEPT ![t] = Idle] /\ object' \in BOOLEAN /\ ~object'
        /\ pointer' = pointer
    BY <1>5 DEF Settle
  <2>2. SharedTypeOK'
    BY <1>2, <2>1 DEF SharedTypeOK, Idle, Doing, Step
  <2>3. doing'[t].step = "idle" /\ \A u \in Thread \ {t} : doing'[u] = doing[u]
    BY <2>1 DEF SharedTypeOK, Idle
  <2>4. FallbackUnused' /\ CopiesInv'
    BY <1>3, <2>3 DEF FallbackUnused, CopiesInv
  <2>5. \A u \in Thread : ~Settling(u)'
    BY <1>1, <2>3 DEF SettlesInv, Settling
  <2>6. SettlesInv'
    BY <2>5 DEF SettlesInv
  <2> QED
    BY <1>1, <1>2, <1>5, <2>1, <2>2, <2>4, <2>6
<1> QED
  BY <1>1, <1>4, <1>5 DEF Settling

LEMMA SharedStepInv == SharedInv /\ [SharedNext]_sharedVars => SharedInv'
<1> SUFFICES ASSUME SharedInv, [SharedNext]_sharedVars PROVE SharedInv'
  OBVIOUS
<1>1. CASE \E t \in Thread, s, d \in Handle : Copy(t, s, d)
  BY <1>1, CopyInv
<1>2. CASE \E t \in Thread : Acquire(t)
  BY <1>2, AcquireInv
<1>3. CASE \E t \in Thread, s, d \in Handle : Move(t, s, d)
  BY <1>3, MoveInv
<1>4. CASE \E t \in Thread, h \in Handle : Release(t, h)
  BY <1>4, ReleaseInv
<1>5. CASE \E t \in Thread : Settle(t)
  BY <1>5, SettleInv
<1>6. CASE UNCHANGED sharedVars
  BY <1>6 DEF sharedVars, SharedInv, SharedTypeOK, Held, FallbackUnused, CopiesInv,
              SettlesInv, Settling
<1> QED
  BY <1>1, <1>2, <1>3, <1>4, <1>5, <1>6 DEF SharedNext, SharedRests

LEMMA SharedAlways == SharedSpec => []SharedInv
  BY SharedInitInv, SharedStepInv, PTL DEF SharedSpec

\* The state has its type.
THEOREM SharedTypeCorrect == SharedSpec => []SharedTypeOK
  BY SharedAlways, PTL DEF SharedInv

\* Whatever the threads do, a handle that holds the object finds it and its pointer.
THEOREM AliveTheorem == SharedSpec => []AliveWhileHeld
<1>1. SharedInv => AliveWhileHeld
  BY DEF SharedInv, AliveWhileHeld, Held
<1> QED
  BY <1>1, SharedAlways, PTL

\* The count is exact and stays within 16 bits if there are fewer handles than that.
THEOREM RefsTheorem == SharedSpec => []RefsExact
<1>1. SharedInv => RefsExact
  <2> SUFFICES ASSUME SharedInv PROVE RefsExact
    OBVIOUS
  <2>1. Cardinality(Held) \in Nat /\ Cardinality(Handle) \in Nat
    BY HeldFinite, SharedAssumption, FS_CardinalityType
  <2> QED
    BY <2>1, HeldFinite, SharedAssumption DEF SharedInv, RefsExact
<1> QED
  BY <1>1, SharedAlways, PTL

\* The block is not used after it is deleted, and only one thread destroys it.
THEOREM NoLateUseTheorem == SharedSpec => []NoLateUse
<1>1. SharedInv => NoLateUse
  BY DEF SharedInv, SettlesInv, Settling, NoLateUse
<1> QED
  BY <1>1, SharedAlways, PTL

\* The fallback of rel() is dead code as long as no handle is raced for.
THEOREM FallbackTheorem == SharedSpec => []FallbackUnused
  BY SharedAlways, PTL DEF SharedInv

\* The atomic operations on the packed word implement shared ownership.
THEOREM OwnedTheorem == SharedSpec => ImplementsOwned
<1>1. SharedInit => Owned!OwnedInit
  BY DEF SharedInit, Owned!OwnedInit, Held
<1>2. SharedInv /\ [SharedNext]_sharedVars => [Owned!OwnedNext]_<<Held, object>>
  <2> SUFFICES ASSUME SharedInv, [SharedNext]_sharedVars
               PROVE  [Owned!OwnedNext]_<<Held, object>>
    OBVIOUS
  <2> USE DEF Owned!OwnedNext
  <2>1. CASE \E t \in Thread, s, d \in Handle : Copy(t, s, d)
    BY <2>1 DEF Copy, Held, SharedInv, SharedTypeOK
  <2>2. CASE \E t \in Thread : Acquire(t)
    <3>1. PICK t \in Thread : Acquire(t)
      BY <2>2
    <3>2. doing[t].to \in Handle /\ Held' = Held \cup {doing[t].to} /\ Held # {}
      BY <3>1, AcquireInv DEF SharedInv, CopiesInv, Acquire
    <3> QED
      BY <3>1, <3>2 DEF Owned!Share, Acquire
  <2>3. CASE \E t \in Thread, s, d \in Handle : Move(t, s, d)
    BY <2>3, MoveInv DEF Owned!HandOver, Move
  <2>4. CASE \E t \in Thread, h \in Handle : Release(t, h)
    BY <2>4, ReleaseInv DEF Owned!LetGo, Release
  <2>5. CASE \E t \in Thread : Settle(t)
    BY <2>5, SettleInv DEF Owned!Destroy
  <2>6. CASE UNCHANGED sharedVars
    BY <2>6 DEF sharedVars, Held
  <2> QED
    BY <2>1, <2>2, <2>3, <2>4, <2>5, <2>6 DEF SharedNext, SharedRests
<1> QED
  BY <1>1, <1>2, SharedAlways, PTL DEF SharedSpec, ImplementsOwned, Owned!OwnedSpec
------------------------------------------------------------------------------
\* What an operation that is under way concerns is a resource, and a guard to move
\* the lock into; what a guard owns is a resource.
Placed ==
    /\ \A t \in User : user[t].at # "idle" => user[t].resource \in Resource
    /\ \A t \in User : user[t].at \in {"test", "check", "asleep", "adopt"} => user[t].into \in Guard
    /\ \A g \in Guard : guard[g].owns => guard[g].resource \in Resource

GuardInv == GuardTypeOK /\ Placed /\ LockOwned /\ NoLostWakeup

LEMMA GuardInitInv == GuardInit => GuardInv
  BY GuardAssumption
  DEF GuardInit, GuardInv, GuardTypeOK, GuardState, UserState, EmptyGuard, Resting,
      Placed, LockOwned, NoLostWakeup, Owns, AtOn

\* A thread asks for a resource.
LEMMA BeginAcquireInv ==
  ASSUME GuardInv, NEW t \in User, NEW g \in Guard, NEW r \in Resource, BeginAcquire(t, g, r)
  PROVE  GuardInv'
<1> USE DEF GuardInv, BeginAcquire
<1>1. GuardTypeOK'
  BY GuardAssumption DEF GuardTypeOK, GuardState, UserState, Placed
<1>2. Placed'
  BY GuardAssumption DEF Placed, GuardTypeOK, GuardState, UserState
<1>3. LockOwned'
  BY GuardAssumption DEF LockOwned, Owns, AtOn, GuardTypeOK, GuardState, UserState, Placed
<1>4. NoLostWakeup'
  BY GuardAssumption DEF NoLostWakeup, AtOn, GuardTypeOK, GuardState, UserState, Placed
<1> QED
  BY <1>1, <1>2, <1>3, <1>4

\* The flag is set; if it was not, the thread is the only one about to own the lock.
LEMMA TestAndSetInv ==
  ASSUME GuardInv, NEW t \in User, TestAndSet(t)
  PROVE  GuardInv'
<1> USE DEF GuardInv, TestAndSet, Goes
<1>1. GuardTypeOK'
  BY GuardAssumption DEF GuardTypeOK, GuardState, UserState, Placed
<1>2. Placed'
  BY GuardAssumption DEF Placed, GuardTypeOK, GuardState, UserState
<1>3. LockOwned'
  BY GuardAssumption DEF LockOwned, Owns, AtOn, GuardTypeOK, GuardState, UserState, Placed
<1>4. NoLostWakeup'
  BY GuardAssumption DEF NoLostWakeup, AtOn, GuardTypeOK, GuardState, UserState, Placed
<1> QED
  BY <1>1, <1>2, <1>3, <1>4

\* A thread falls asleep only before a flag that is set.
LEMMA CheckInv ==
  ASSUME GuardInv, NEW t \in User, Check(t)
  PROVE  GuardInv'
<1> USE DEF GuardInv, Check, Goes
<1>1. GuardTypeOK'
  BY GuardAssumption DEF GuardTypeOK, GuardState, UserState, Placed
<1>2. Placed'
  BY GuardAssumption DEF Placed, GuardTypeOK, GuardState, UserState
<1>3. LockOwned'
  BY GuardAssumption DEF LockOwned, Owns, AtOn, GuardTypeOK, GuardState, UserState, Placed
<1>4. NoLostWakeup'
  BY GuardAssumption DEF NoLostWakeup, AtOn, GuardTypeOK, GuardState, UserState, Placed
<1> QED
  BY <1>1, <1>2, <1>3, <1>4

\* The flag is set at once.
LEMMA TryAcquireInv ==
  ASSUME GuardInv, NEW t \in User, NEW g \in Guard, NEW r \in Resource, TryAcquire(t, g, r)
  PROVE  GuardInv'
<1> USE DEF GuardInv, TryAcquire
<1>1. GuardTypeOK'
  BY GuardAssumption DEF GuardTypeOK, GuardState, UserState, Placed
<1>2. Placed'
  BY GuardAssumption DEF Placed, GuardTypeOK, GuardState, UserState
<1>3. LockOwned'
  BY GuardAssumption DEF LockOwned, Owns, AtOn, GuardTypeOK, GuardState, UserState, Placed
<1>4. NoLostWakeup'
  BY GuardAssumption DEF NoLostWakeup, AtOn, GuardTypeOK, GuardState, UserState, Placed
<1> QED
  BY <1>1, <1>2, <1>3, <1>4

\* The lock passes from the thread to its guard, which releases what it owned.
LEMMA AdoptInv ==
  ASSUME GuardInv, NEW t \in User, Adopt(t)
  PROVE  GuardInv'
<1> USE DEF GuardInv, Adopt, Cleared, Released, Notifies, Rests, Resting, EmptyGuard
<1>1. GuardTypeOK'
  BY GuardAssumption DEF GuardTypeOK, GuardState, UserState, Placed
<1>2. Placed'
  BY GuardAssumption DEF Placed, GuardTypeOK, GuardState, UserState
<1> DEFINE k == user[t].into
<1> DEFINE r == user[t].resource
<1>a. k \in Guard /\ r \in Resource /\ AtOn(t, "adopt", r) /\ ~AtOn(t, "adopt", r)'
  BY GuardAssumption DEF Placed, GuardTypeOK, GuardState, UserState, AtOn
<1>b. \A u \in User, q \in Resource : u # t => (AtOn(u, "adopt", q)' <=> AtOn(u, "adopt", q))
  BY DEF AtOn, GuardTypeOK, UserState
<1>c. \A q \in Resource : ~AtOn(t, "adopt", q)'
  BY <1>a DEF AtOn, GuardTypeOK, UserState
<1>d. \A f \in Guard, q \in Resource : Owns(f, q)' <=> IF f = k THEN q = r ELSE Owns(f, q)
  BY <1>a DEF Owns, GuardTypeOK, GuardState
<1>e. \A q \in Resource : lck'[q] <=> lck[q] /\ ~Owns(k, q)
  BY <1>a DEF Owns, GuardTypeOK, GuardState
<1>3. LockOwned'
  <2> HIDE DEF k, r, Adopt
  <2>1. lck[r] /\ \A f \in Guard : ~Owns(f, r)
    BY <1>a DEF LockOwned
  <2>2. \A q \in Resource : AtOn(t, "adopt", q) => q = r
    BY <1>a DEF AtOn
  <2> QED
    BY <1>a, <1>b, <1>c, <1>d, <1>e, <2>1, <2>2 DEF LockOwned
<1>4. NoLostWakeup'
  BY GuardAssumption DEF NoLostWakeup, AtOn, GuardTypeOK, GuardState, UserState, Placed
<1> QED
  BY <1>1, <1>2, <1>3, <1>4

\* The lock passes from one guard to another.
LEMMA MoveGuardInv ==
  ASSUME GuardInv, NEW t \in User, NEW g \in Guard, NEW h \in Guard, MoveGuard(t, g, h)
  PROVE  GuardInv'
<1> USE DEF GuardInv, MoveGuard, Cleared, Released, Notifies, Rests, Resting, EmptyGuard
<1>1. GuardTypeOK'
  BY GuardAssumption DEF GuardTypeOK, GuardState, UserState, Placed
<1>2. Placed'
  BY GuardAssumption DEF Placed, GuardTypeOK, GuardState, UserState
<1>b. \A u \in User, q \in Resource : AtOn(u, "adopt", q)' <=> AtOn(u, "adopt", q)
  BY DEF AtOn, GuardTypeOK, UserState
<1>d. \A f \in Guard, q \in Resource :
        Owns(f, q)' <=> IF f = h THEN Owns(g, q) ELSE f # g /\ Owns(f, q)
  BY DEF Owns, GuardTypeOK, GuardState
<1>e. \A q \in Resource : lck'[q] <=> lck[q] /\ ~Owns(h, q)
  BY DEF Owns, GuardTypeOK, GuardState, Placed
<1>3. LockOwned'
  <2>1. g # h
    OBVIOUS
  <2> HIDE DEF MoveGuard
  <2> QED
    BY <1>b, <1>d, <1>e, <2>1 DEF LockOwned
<1>4. NoLostWakeup'
  BY GuardAssumption DEF NoLostWakeup, AtOn, GuardTypeOK, GuardState, UserState, Placed
<1> QED
  BY <1>1, <1>2, <1>3, <1>4

\* The lock of a guard is released; the thread that has cleared it is about to notify.
LEMMA ReleaseGuardInv ==
  ASSUME GuardInv, NEW t \in User, NEW g \in Guard, ReleaseGuard(t, g)
  PROVE  GuardInv'
<1> USE DEF GuardInv, ReleaseGuard, Cleared, Released, Notifies, Rests, Resting, EmptyGuard
<1>1. GuardTypeOK'
  <2>1. [guard[g] EXCEPT !.owns = FALSE] \in GuardState
    BY DEF GuardTypeOK, GuardState
  <2>2. guard' \in [Guard -> GuardState]
    BY <2>1 DEF GuardTypeOK
  <2> QED
    BY <2>2, GuardAssumption DEF GuardTypeOK, GuardState, UserState, Placed
<1>2. Placed'
  BY GuardAssumption DEF Placed, GuardTypeOK, GuardState, UserState
<1>b. \A u \in User, q \in Resource : AtOn(u, "adopt", q)' <=> AtOn(u, "adopt", q)
  BY DEF AtOn, GuardTypeOK, UserState
<1>d. \A f \in Guard, q \in Resource : Owns(f, q)' <=> f # g /\ Owns(f, q)
  BY DEF Owns, GuardTypeOK, GuardState
<1>e. \A q \in Resource : lck'[q] <=> lck[q] /\ ~Owns(g, q)
  BY DEF Owns, GuardTypeOK, GuardState, Placed
<1>3. LockOwned'
  <2> HIDE DEF ReleaseGuard
  <2> QED
    BY <1>b, <1>d, <1>e DEF LockOwned
<1>4. NoLostWakeup'
  BY GuardAssumption DEF NoLostWakeup, AtOn, GuardTypeOK, GuardState, UserState, Placed
<1> QED
  BY <1>1, <1>2, <1>3, <1>4

\* The lock of a guard that goes is released.
LEMMA DropGuardInv ==
  ASSUME GuardInv, NEW t \in User, NEW g \in Guard, DropGuard(t, g)
  PROVE  GuardInv'
<1> USE DEF GuardInv, DropGuard, Cleared, Released, Notifies, Rests, Resting, EmptyGuard
<1>1. GuardTypeOK'
  BY GuardAssumption DEF GuardTypeOK, GuardState, UserState, Placed
<1>2. Placed'
  BY GuardAssumption DEF Placed, GuardTypeOK, GuardState, UserState
<1>b. \A u \in User, q \in Resource : AtOn(u, "adopt", q)' <=> AtOn(u, "adopt", q)
  BY DEF AtOn, GuardTypeOK, UserState
<1>d. \A f \in Guard, q \in Resource : Owns(f, q)' <=> f # g /\ Owns(f, q)
  BY DEF Owns, GuardTypeOK, GuardState
<1>e. \A q \in Resource : lck'[q] <=> lck[q] /\ ~Owns(g, q)
  BY DEF Owns, GuardTypeOK, GuardState, Placed
<1>3. LockOwned'
  <2> HIDE DEF DropGuard
  <2> QED
    BY <1>b, <1>d, <1>e DEF LockOwned
<1>4. NoLostWakeup'
  BY GuardAssumption DEF NoLostWakeup, AtOn, GuardTypeOK, GuardState, UserState, Placed
<1> QED
  BY <1>1, <1>2, <1>3, <1>4

\* A sleeper is woken, or there is none.
LEMMA NotifyInv ==
  ASSUME GuardInv, NEW t \in User, Notify(t)
  PROVE  GuardInv'
<1> USE DEF GuardInv, Notify, Rests, Resting
<1> DEFINE r == user[t].resource
<1>a. user[t].at = "notify" /\ r \in Resource /\ lck' = lck /\ guard' = guard
  BY DEF Placed
<1>b. PICK woken \in SUBSET User :
        /\ \A u \in woken : AtOn(u, "asleep", r)
        /\ (\E u \in User : AtOn(u, "asleep", r)) => woken # {}
        /\ user' = [u \in User |-> IF u = t THEN Resting
                                   ELSE IF u \in woken THEN [user[u] EXCEPT !.at = "check"]
                                   ELSE user[u]]
  <2>1. CASE \A u \in User : ~AtOn(u, "asleep", r)
    BY <2>1 DEF GuardTypeOK
  <2>2. CASE \E u \in User : AtOn(u, "asleep", r)
    <3>1. PICK v \in User : AtOn(v, "asleep", r)
                            /\ user' = [Rests(t) EXCEPT ![v].at = "check"]
      BY <2>2
    <3>2. v # t
      BY <1>a, <3>1 DEF AtOn
    <3>3. user' = [u \in User |-> IF u = t THEN Resting
                                  ELSE IF u \in {v} THEN [user[u] EXCEPT !.at = "check"]
                                  ELSE user[u]]
      BY <3>1, <3>2 DEF GuardTypeOK
    <3>4. {v} \in SUBSET User
      OBVIOUS
    <3> WITNESS {v} \in SUBSET User
    <3> QED
      BY <3>1, <3>3
  <2> QED
    BY <2>1, <2>2
<1> HIDE DEF Notify
<1>1. GuardTypeOK'
  <2>1. \A u \in User : user'[u] \in UserState
    BY <1>b DEF GuardTypeOK, UserState
  <2> QED
    BY <1>a, <1>b, <2>1 DEF GuardTypeOK
<1>2. Placed'
  <2>1. \A u \in User : /\ user'[u].at # "idle" => user'[u].resource \in Resource
                        /\ user'[u].at \in {"test", "check", "asleep", "adopt"}
                                => user'[u].into \in Guard
    BY <1>b DEF GuardTypeOK, UserState, Placed, AtOn
  <2> QED
    BY <1>a, <2>1 DEF Placed
<1>3. LockOwned'
  <2>1. \A u \in User, q \in Resource : AtOn(u, "adopt", q)' <=> AtOn(u, "adopt", q)
    BY <1>a, <1>b DEF AtOn, GuardTypeOK, UserState
  <2>2. \A f \in Guard, q \in Resource : Owns(f, q)' <=> Owns(f, q)
    BY <1>a DEF Owns
  <2> QED
    BY <1>a, <2>1, <2>2 DEF LockOwned
<1>4. NoLostWakeup'
  <2> SUFFICES ASSUME NEW q \in Resource, NEW s \in User, AtOn(s, "asleep", q)', ~lck'[q]
               PROVE  \E u \in User : \E at \in {"notify", "check", "test"} : AtOn(u, at, q)'
    BY DEF NoLostWakeup
  <2>1. s # t /\ s \notin woken /\ AtOn(s, "asleep", q)
    BY <1>b DEF AtOn, GuardTypeOK, UserState
  <2>2. CASE q = r
    <3>1. PICK v \in woken : v \in User /\ v # t /\ AtOn(v, "asleep", r)
      BY <1>a, <1>b, <2>1, <2>2 DEF AtOn
    <3> QED
      BY <1>b, <2>2, <3>1 DEF AtOn, GuardTypeOK, UserState
  <2>3. CASE q # r
    <3>1. PICK u \in User : \E at \in {"notify", "check", "test"} : AtOn(u, at, q)
      BY <1>a, <2>1 DEF NoLostWakeup
    <3>2. u # t /\ u \notin woken
      BY <1>b, <2>3, <3>1 DEF AtOn
    <3> QED
      BY <1>b, <3>1, <3>2 DEF AtOn
  <2> QED
    BY <2>2, <2>3
<1> QED
  BY <1>1, <1>2, <1>3, <1>4

LEMMA GuardNextInv == GuardInv /\ [GuardNext]_guardVars => GuardInv'
<1> SUFFICES ASSUME GuardInv, [GuardNext]_guardVars PROVE GuardInv'
  OBVIOUS
<1>1. CASE GuardNext
  BY <1>1, BeginAcquireInv, TestAndSetInv, CheckInv, TryAcquireInv, AdoptInv, MoveGuardInv, ReleaseGuardInv, DropGuardInv, NotifyInv DEF GuardNext
<1>2. CASE UNCHANGED guardVars
  BY <1>2
  DEF guardVars, GuardInv, GuardTypeOK, Placed, LockOwned, NoLostWakeup, Owns, AtOn
<1> QED
  BY <1>1, <1>2

\* Safety.  The invariant of the proof holds always.
LEMMA GuardAlways == GuardSpec => []GuardInv
  BY GuardInitInv, GuardNextInv, PTL DEF GuardSpec

\* Safety.  LockOwned: a resource is locked exactly while one guard owns it.
THEOREM LockTheorem == GuardSpec => []LockOwned
<1>1. GuardInv => LockOwned
  BY DEF GuardInv
<1> QED
  BY GuardAlways, <1>1, PTL

\* Safety.  NoLostWakeup: no thread sleeps before a free lock that nobody looks at.
THEOREM WakeupTheorem == GuardSpec => []NoLostWakeup
<1>1. GuardInv => NoLostWakeup
  BY DEF GuardInv
<1> QED
  BY GuardAlways, <1>1, PTL

-------------------------------------------------------------------------------
(***************************************************************************)
(* The platform thread and its queue.                                      *)
(***************************************************************************)

\* Where more fibers ask, a promise is lost in try_push().
RoomForAll == IsFiniteSet(Requester) /\ Cardinality(Requester) <= RingSize

\* The worker runs the fiber that is between two suspensions, with its promise.
OneRuns ==
    \A c \in Requester :
        /\ fiber[c] # "dropped"
        /\ running = c <=> fiber[c] \in {"test", "push"}
        /\ running = c => armed[c] /\ ~returned[c]

Asking(c) == fiber[c] = "await" /\ ~returned[c]

\* The queue holds promises of fibers that await them, each once.
Pending ==
    /\ \A i, j \in 1 .. Len(queue) : queue[i].for = queue[j].for => i = j
    /\ \A i \in 1 .. Len(queue) : queue[i].armed
    /\ \A i \in 1 .. Len(queue), c \in Requester : queue[i].for = c => Asking(c)

\* The one that is called has been taken from the queue.
Calling ==
    /\ platform.at = "call" =>
          /\ platform.armed /\ platform.for \in Requester
          /\ \A c \in Requester : platform.for = c => Asking(c)
          /\ \A i \in 1 .. Len(queue) : queue[i].for # platform.for
    /\ platform.at = "construct" => platform.for \in Requester
    /\ platform.at # "crashed"

Served ==
    \A c \in Requester : Asking(c) =>
        \/ platform.at = "call" /\ platform.for = c
        \/ \E i \in 1 .. Len(queue) : queue[i].for = c

\* The worker stops before the queue is finalized, and that before the thread ends.
Stopping ==
    /\ finalized => ~workerUp
    /\ ~workerUp => running = Nobody
    /\ platform.at \in {"last", "ended"} => finalized
    /\ platform.at \in {"call", "construct"} /\ platform.back = "last" => finalized
    /\ platform.at = "ended" => queue = <<>>

AwaitInv == QueueTypeOK /\ OneRuns /\ Pending /\ Calling /\ Served /\ Stopping

-------------------------------------------------------------------------------
LEMMA Entries ==
  ASSUME AwaitInv
  PROVE  /\ queue \in Seq(Entry) /\ Len(queue) \in Nat
         /\ \A i \in 1 .. Len(queue) : queue[i].for \in Requester /\ queue[i].armed \in BOOLEAN
<1>1. queue \in Seq(Entry)
  BY DEF AwaitInv, QueueTypeOK
<1>2. \A i \in 1 .. Len(queue) : queue[i] \in Entry
  BY <1>1
<1> QED
  BY <1>1, <1>2 DEF Entry

\* Every entry is of another fiber, and none is of one that is about to push.
LEMMA RoomFor ==
  ASSUME RoomForAll, AwaitInv, NEW c \in Requester, fiber[c] = "push"
  PROVE  HasRoom
<1> DEFINE others == Requester \ {c}
           slots == 1 .. Len(queue)
<1>1. Len(queue) \in Nat /\ RingSize \in Nat /\ \A i \in slots : queue[i].for \in Requester
  BY Entries, QueueAssumption
<1>2. /\ IsFiniteSet(others) /\ Cardinality(others) = Cardinality(Requester) - 1
      /\ Cardinality(Requester) \in Nat
  BY FS_RemoveElement, FS_CardinalityType DEF RoomForAll
<1>3. IsFiniteSet(slots) /\ Cardinality(slots) = Len(queue)
  <2>1. PICK n \in Nat : n = Len(queue)
    BY <1>1
  <2>2. IsFiniteSet(1 .. n) /\ Cardinality(1 .. n) = n
    BY FS_Interval
  <2> QED
    BY <2>1, <2>2
<1>4. \A i \in slots : queue[i].for \in others
  BY <1>1 DEF AwaitInv, Pending, Asking
<1> DEFINE owner == [i \in slots |-> queue[i].for]
<1>5. owner \in [slots -> others] /\ \A i, j \in slots : owner[i] = owner[j] => i = j
  BY <1>4 DEF AwaitInv, Pending
<1> HIDE DEF slots, others, owner
<1>6. ~(Cardinality(others) < Cardinality(slots))
  BY <1>2, <1>3, <1>5, FS_PigeonHole
<1> QED
  BY <1>1, <1>2, <1>3, <1>6 DEF HasRoom, RoomForAll

LEMMA AwaitInitially == QueueInit => AwaitInv
<1> SUFFICES ASSUME QueueInit PROVE AwaitInv
  OBVIOUS
<1>1. queue = <<>> /\ Len(queue) = 0 /\ RingSize \in Nat /\ <<>> \in Seq(Entry)
  BY QueueAssumption DEF QueueInit
<1>2. QueueTypeOK
  <2>1. queue \in Seq(Entry) /\ Len(queue) <= RingSize
    BY <1>1
  <2>2. /\ fiber \in [Requester -> {"idle", "test", "push", "await", "dropped"}]
        /\ armed \in [Requester -> BOOLEAN] /\ returned \in [Requester -> BOOLEAN]
        /\ constructed \in [Requester -> BOOLEAN]
    BY DEF QueueInit
  <2>3. /\ platform.at = "poll" /\ platform.back = "drain"
        /\ platform \in [at : {"poll", "drain", "last", "call", "construct", "ended", "crashed"},
                         back : {"drain", "last"}, for : Requester \cup {Nobody}, armed : BOOLEAN]
    BY DEF QueueInit
  <2> QED
    BY <2>1, <2>2, <2>3 DEF QueueInit, QueueTypeOK
<1>3. OneRuns /\ Pending /\ Calling /\ Served /\ Stopping
  BY <1>1, QueueAssumption DEF QueueInit, OneRuns, Pending, Calling, Served, Stopping, Asking
<1> QED
  BY <1>2, <1>3 DEF AwaitInv

\* A fiber asks, and goes on as long as the queue has not been finalized.
LEMMA RequestStep ==
  ASSUME AwaitInv, NEW c \in Requester, Request(c)
  PROVE  AwaitInv'
<1>1. QueueTypeOK'
  BY DEF AwaitInv, QueueTypeOK, Request
<1>2. \A d \in Requester : d # c => fiber'[d] = fiber[d] /\ armed'[d] = armed[d] /\ returned'[d] = returned[d]
  BY DEF AwaitInv, QueueTypeOK, Request
<1>3. fiber[c] = "idle" /\ fiber'[c] = "test" /\ armed'[c] /\ ~returned'[c] /\ running = Nobody /\ running' = c
  BY DEF AwaitInv, QueueTypeOK, Request
<1>4. \A d \in Requester : Asking(d)' <=> Asking(d)
  BY <1>2, <1>3 DEF Asking
<1>5. OneRuns'
  BY <1>2, <1>3, QueueAssumption DEF AwaitInv, OneRuns
<1>6. \A i \in 1 .. Len(queue) : queue[i].for \in Requester
  BY Entries
<1>7. Pending' /\ Calling' /\ Served'
  BY <1>4, <1>6 DEF AwaitInv, Pending, Calling, Served, Request
<1>8. Stopping'
  BY DEF AwaitInv, Stopping, Request
<1> QED
  BY <1>1, <1>5, <1>7, <1>8 DEF AwaitInv

LEMMA TestStep ==
  ASSUME AwaitInv, NEW c \in Requester, TestMode(c)
  PROVE  AwaitInv'
<1>1. ~finalized
  BY DEF AwaitInv, Stopping, TestMode
<1>2. /\ fiber[c] = "test" /\ running = c /\ fiber' = [fiber EXCEPT ![c] = "push"] /\ running' = running
      /\ UNCHANGED <<armed, futures, early, queue, finalized, workerUp, platform>>
  BY <1>1 DEF TestMode
<1>3. fiber \in [Requester -> {"idle", "test", "push", "await", "dropped"}]
  BY DEF AwaitInv, QueueTypeOK
<1>4. fiber'[c] = "push" /\ \A d \in Requester : d # c => fiber'[d] = fiber[d]
  BY <1>2, <1>3
<1>5. QueueTypeOK'
  BY <1>2, <1>3 DEF AwaitInv, QueueTypeOK, futures
<1>6. \A d \in Requester : Asking(d)' <=> Asking(d)
  BY <1>2, <1>4 DEF Asking, futures
<1>7. OneRuns'
  BY <1>2, <1>4 DEF AwaitInv, OneRuns, futures
<1>8. \A i \in 1 .. Len(queue) : queue[i].for \in Requester
  BY Entries
<1>9. Pending' /\ Calling' /\ Served'
  BY <1>2, <1>6, <1>8 DEF AwaitInv, Pending, Calling, Served
<1>10. Stopping'
  BY <1>2 DEF AwaitInv, Stopping
<1> QED
  BY <1>5, <1>7, <1>9, <1>10 DEF AwaitInv

\* The promise is moved into the queue, and the fiber suspended.
LEMMA PushStep ==
  ASSUME RoomForAll, AwaitInv, NEW c \in Requester, Push(c)
  PROVE  AwaitInv'
<1> DEFINE e == [for |-> c, armed |-> armed[c]]
           n == Len(queue)
<1>1. HasRoom
  BY RoomFor DEF Push
<1>2. /\ fiber[c] = "push" /\ running = c /\ workerUp
      /\ fiber' = [fiber EXCEPT ![c] = "await"] /\ running' = Nobody
      /\ armed' = [armed EXCEPT ![c] = FALSE] /\ queue' = Append(queue, e)
      /\ UNCHANGED <<returned, constructed, early, finalized, workerUp, platform>>
  BY <1>1 DEF Push, futures
<1>3. /\ fiber \in [Requester -> {"idle", "test", "push", "await", "dropped"}]
      /\ armed \in [Requester -> BOOLEAN] /\ queue \in Seq(Entry)
      /\ returned \in [Requester -> BOOLEAN] /\ n <= RingSize
  BY DEF AwaitInv, QueueTypeOK
<1>4. e.for = c /\ e.armed /\ e \in Entry
  BY <1>2, <1>3 DEF AwaitInv, OneRuns, Entry
<1> HIDE DEF e
<1>5. /\ n \in Nat /\ Len(queue') = n + 1 /\ queue' \in Seq(Entry) /\ queue'[n + 1] = e
      /\ \A i \in 1 .. n : queue'[i] = queue[i]
  BY <1>2, <1>3, <1>4
<1>6. fiber'[c] = "await" /\ \A d \in Requester : d # c => fiber'[d] = fiber[d] /\ armed'[d] = armed[d]
  BY <1>2, <1>3
<1>7. \A i \in 1 .. n : queue[i].for \in Requester /\ queue[i].for # c /\ queue[i].armed
  BY <1>2, Entries DEF AwaitInv, Pending, Asking
<1>8. QueueTypeOK'
  <2>1. Len(queue') <= RingSize
    BY <1>1, <1>5, QueueAssumption DEF HasRoom
  <2> QED
    BY <1>2, <1>3, <1>5, <2>1 DEF AwaitInv, QueueTypeOK
<1>9. OneRuns'
  BY <1>2, <1>6, QueueAssumption DEF AwaitInv, OneRuns
<1>10. \A d \in Requester : d # c => (Asking(d)' <=> Asking(d))
  BY <1>2, <1>6 DEF Asking
<1>11. Asking(c)' /\ ~Asking(c)
  BY <1>2, <1>6 DEF Asking, AwaitInv, OneRuns
<1>12. \A i \in 1 .. n + 1 : i \in 1 .. n \/ i = n + 1
  BY <1>5
<1>13. Pending'
  <2>1. ASSUME NEW i \in 1 .. n + 1, NEW d \in Requester, queue'[i].for = d PROVE Asking(d)'
    <3>1. CASE i \in 1 .. n
      BY <1>5, <1>7, <1>10, <2>1, <3>1 DEF AwaitInv, Pending
    <3>2. CASE i = n + 1
      BY <1>4, <1>5, <1>11, <2>1, <3>2
    <3> QED
      BY <1>12, <3>1, <3>2
  <2>2. \A i \in 1 .. n + 1 : queue'[i].armed
    BY <1>4, <1>5, <1>7, <1>12
  <2>3. \A i, j \in 1 .. n + 1 : queue'[i].for = queue'[j].for => i = j
    BY <1>4, <1>5, <1>7, <1>12 DEF AwaitInv, Pending
  <2> QED
    BY <1>5, <2>1, <2>2, <2>3 DEF Pending
<1>14. Calling'
  <2>1. platform.at = "call" => platform.for # c
    BY <1>11 DEF AwaitInv, Calling
  <2>2. platform.at = "call" => \A i \in 1 .. n + 1 : queue'[i].for # platform.for
    BY <1>4, <1>5, <1>12, <2>1 DEF AwaitInv, Calling
  <2> QED
    BY <1>2, <1>5, <1>10, <2>1, <2>2 DEF AwaitInv, Calling
<1>15. Served'
  <2> SUFFICES ASSUME NEW d \in Requester, Asking(d)'
               PROVE  (platform.at = "call" /\ platform.for = d) \/ \E i \in 1 .. n + 1 : queue'[i].for = d
    BY <1>2, <1>5 DEF Served
  <2>1. CASE d = c
    <3>1. n + 1 \in 1 .. n + 1
      BY <1>5
    <3> QED
      BY <1>4, <1>5, <2>1, <3>1
  <2>2. CASE d # c
    <3>1. (platform.at = "call" /\ platform.for = d) \/ \E i \in 1 .. n : queue[i].for = d
      BY <1>10, <2>2 DEF AwaitInv, Served
    <3>2. 1 .. n \subseteq 1 .. n + 1
      BY <1>5
    <3> QED
      BY <1>5, <3>1, <3>2
  <2> QED
    BY <2>1, <2>2
<1>16. Stopping'
  BY <1>2 DEF AwaitInv, Stopping
<1> QED
  BY <1>8, <1>9, <1>13, <1>14, <1>15, <1>16 DEF AwaitInv

LEMMA ResumeStep ==
  ASSUME AwaitInv, NEW c \in Requester, Resume(c)
  PROVE  AwaitInv'
<1>1. /\ fiber[c] = "await" /\ returned[c] /\ running = Nobody
      /\ fiber' = [fiber EXCEPT ![c] = "idle"]
      /\ UNCHANGED <<running, armed, returned, constructed, queue, finalized, workerUp, platform>>
      /\ early' \in BOOLEAN
  <2>1. early \in BOOLEAN /\ constructed \in [Requester -> BOOLEAN]
    BY DEF AwaitInv, QueueTypeOK
  <2> QED
    BY <2>1 DEF Resume, futures
<1>2. fiber \in [Requester -> {"idle", "test", "push", "await", "dropped"}]
  BY DEF AwaitInv, QueueTypeOK
<1>3. fiber'[c] = "idle" /\ \A d \in Requester : d # c => fiber'[d] = fiber[d]
  BY <1>1, <1>2
<1>4. \A d \in Requester : Asking(d)' <=> Asking(d)
  BY <1>1, <1>3 DEF Asking
<1>5. QueueTypeOK'
  BY <1>1, <1>2 DEF AwaitInv, QueueTypeOK
<1>6. OneRuns'
  BY <1>1, <1>3 DEF AwaitInv, OneRuns
<1>7. Pending' /\ Calling' /\ Served'
  BY <1>1, <1>4, Entries DEF AwaitInv, Pending, Calling, Served
<1>8. Stopping'
  BY <1>1 DEF AwaitInv, Stopping
<1> QED
  BY <1>5, <1>6, <1>7, <1>8 DEF AwaitInv
-------------------------------------------------------------------------------
\* What the platform thread may be doing.
PlatformState ==
    [at : {"poll", "drain", "last", "call", "construct", "ended", "crashed"},
     back : {"drain", "last"}, for : Requester \cup {Nobody}, armed : BOOLEAN]

LEMMA PollStep ==
  ASSUME AwaitInv, PlatformPoll
  PROVE  AwaitInv'
<1>1. /\ platform.at = "poll" /\ platform' = [platform EXCEPT !.at = NextRound]
      /\ UNCHANGED <<fibers, futures, early, queue, finalized, workerUp>>
  BY DEF PlatformPoll
<1>2. platform \in PlatformState
  BY DEF AwaitInv, QueueTypeOK, PlatformState
<1>3. NextRound \in {"drain", "last"} /\ (NextRound = "last" => finalized)
  BY DEF NextRound
<1>4. platform' \in PlatformState /\ platform'.at = NextRound
  BY <1>1, <1>2, <1>3 DEF PlatformState
<1>5. QueueTypeOK'
  BY <1>1, <1>4 DEF AwaitInv, QueueTypeOK, PlatformState, fibers, futures
<1>6. \A c \in Requester : Asking(c)' <=> Asking(c)
  BY <1>1 DEF Asking, fibers, futures
<1>7. OneRuns' /\ Pending'
  BY <1>1, <1>6 DEF AwaitInv, OneRuns, Pending, fibers, futures
<1>8. Calling' /\ Served' /\ Stopping'
  BY <1>1, <1>3, <1>4, <1>6 DEF AwaitInv, Calling, Served, Stopping, fibers
<1> QED
  BY <1>5, <1>7, <1>8 DEF AwaitInv

\* The first promise is taken from the queue, or the queue has been emptied.
LEMMA EmptyStep ==
  ASSUME AwaitInv, PlatformPop, queue = <<>>
  PROVE  AwaitInv'
<1> DEFINE next == IF platform.at = "drain" THEN "poll" ELSE "ended"
<1>1. /\ platform.at \in {"drain", "last"} /\ platform' = [platform EXCEPT !.at = next]
      /\ UNCHANGED <<fibers, futures, early, queue, finalized, workerUp>>
  BY DEF PlatformPop
<1>2. platform \in PlatformState
  BY DEF AwaitInv, QueueTypeOK, PlatformState
<1>3. next \in {"poll", "ended"} /\ (next = "ended" => finalized)
  BY <1>1 DEF AwaitInv, Stopping
<1> HIDE DEF next
<1>4. platform' \in PlatformState /\ platform'.at = next
  BY <1>1, <1>2, <1>3 DEF PlatformState
<1>5. QueueTypeOK'
  BY <1>1, <1>4 DEF AwaitInv, QueueTypeOK, PlatformState, fibers, futures
<1>6. \A c \in Requester : Asking(c)' <=> Asking(c)
  BY <1>1 DEF Asking, fibers, futures
<1>7. OneRuns' /\ Pending'
  BY <1>1, <1>6 DEF AwaitInv, OneRuns, Pending, fibers, futures
<1>8. Calling' /\ Served'
  BY <1>1, <1>3, <1>4, <1>6 DEF AwaitInv, Calling, Served
<1>9. Stopping'
  BY <1>1, <1>3, <1>4 DEF AwaitInv, Stopping, fibers
<1> QED
  BY <1>5, <1>7, <1>8, <1>9 DEF AwaitInv

LEMMA TakeStep ==
  ASSUME AwaitInv, PlatformPop, queue # <<>>
  PROVE  AwaitInv'
<1> DEFINE n == Len(queue)
           e == queue[1]
           v == [at |-> "call", back |-> platform.at, for |-> e.for, armed |-> e.armed]
<1>1. /\ platform.at \in {"drain", "last"}
      /\ platform' = [at |-> "call", back |-> platform.at, for |-> Head(queue).for,
                      armed |-> Head(queue).armed]
      /\ queue' = Tail(queue)
      /\ UNCHANGED <<fibers, futures, early, finalized, workerUp>>
  BY DEF PlatformPop
<1>2. /\ n \in Nat /\ n >= 1 /\ queue' \in Seq(Entry) /\ Len(queue') = n - 1 /\ Head(queue) = queue[1]
      /\ \A i \in 1 .. n - 1 : queue'[i] = queue[i + 1]
  BY <1>1, Entries
<1>3. 1 \in 1 .. n /\ \A i \in 1 .. n - 1 : i + 1 \in 1 .. n /\ i + 1 # 1
  BY <1>2
<1>4. e.for \in Requester /\ e.armed
  BY <1>3, Entries DEF AwaitInv, Pending
<1>5. platform' = v
  BY <1>1, <1>2
<1>6. /\ v \in PlatformState /\ v.at = "call" /\ v.for = e.for /\ v.armed /\ v.back = platform.at
  BY <1>1, <1>4, Entries, <1>3 DEF PlatformState
<1> HIDE DEF v, e
<1>7. QueueTypeOK'
  <2>1. Len(queue') <= RingSize
    BY <1>2, QueueAssumption DEF AwaitInv, QueueTypeOK
  <2> QED
    BY <1>1, <1>2, <1>5, <1>6, <2>1 DEF AwaitInv, QueueTypeOK, PlatformState, fibers, futures
<1>8. \A c \in Requester : Asking(c)' <=> Asking(c)
  BY <1>1 DEF Asking, fibers, futures
<1>9. OneRuns'
  BY <1>1 DEF AwaitInv, OneRuns, fibers, futures
<1>10. Pending'
  <2>1. \A i, j \in 1 .. n - 1 : queue'[i].for = queue'[j].for => i = j
    <3> SUFFICES ASSUME NEW i \in 1 .. n - 1, NEW j \in 1 .. n - 1, queue'[i].for = queue'[j].for
                 PROVE  i = j
      OBVIOUS
    <3>1. i + 1 = j + 1
      BY <1>2, <1>3 DEF AwaitInv, Pending
    <3> QED
      BY <3>1
  <2>2. \A i \in 1 .. n - 1 : queue'[i].armed
    BY <1>2, <1>3 DEF AwaitInv, Pending
  <2>3. \A i \in 1 .. n - 1, c \in Requester : queue'[i].for = c => Asking(c)'
    BY <1>2, <1>3, <1>8 DEF AwaitInv, Pending
  <2> QED
    BY <1>2, <2>1, <2>2, <2>3 DEF Pending
<1>11. Calling'
  <2>1. \A i \in 1 .. n - 1 : queue'[i].for # e.for
    BY <1>2, <1>3 DEF AwaitInv, Pending, e
  <2>2. \A c \in Requester : e.for = c => Asking(c)'
    BY <1>3, <1>8 DEF AwaitInv, Pending, e
  <2> QED
    BY <1>2, <1>4, <1>5, <1>6, <2>1, <2>2 DEF Calling
<1>12. Served'
  <2> SUFFICES ASSUME NEW c \in Requester, Asking(c)
               PROVE  e.for = c \/ \E i \in 1 .. n - 1 : queue'[i].for = c
    BY <1>2, <1>5, <1>6, <1>8 DEF Served
  <2>1. PICK i \in 1 .. n : queue[i].for = c
    BY <1>1 DEF AwaitInv, Served
  <2>2. CASE i = 1
    BY <2>1, <2>2 DEF e
  <2>3. CASE i # 1
    <3>1. i - 1 \in 1 .. n - 1 /\ (i - 1) + 1 = i
      BY <1>2, <2>3
    <3>2. queue'[i - 1] = queue[i]
      BY <1>2, <3>1
    <3> QED
      BY <2>1, <3>1, <3>2
  <2> QED
    BY <2>2, <2>3
<1>13. Stopping'
  <2>1. platform.at = "last" => finalized
    BY DEF AwaitInv, Stopping
  <2> QED
    BY <1>1, <1>5, <1>6, <2>1 DEF AwaitInv, Stopping, fibers
<1> QED
  BY <1>7, <1>9, <1>10, <1>11, <1>12, <1>13 DEF AwaitInv

\* The function is called and the future marked, then the value constructed.
LEMMA CallStep ==
  ASSUME AwaitInv, Call
  PROVE  AwaitInv'
<1>1. PICK c \in Requester : c = platform.for /\ Asking(c) /\ platform.armed
  BY DEF Call, AwaitInv, Calling
<1>2. /\ platform.at = "call" /\ returned' = [returned EXCEPT ![c] = TRUE]
      /\ platform' = [platform EXCEPT !.at = "construct"]
      /\ UNCHANGED <<fibers, constructed, early, queue, finalized, workerUp>>
  BY <1>1 DEF Call
<1>3. platform \in PlatformState /\ returned \in [Requester -> BOOLEAN]
  BY DEF AwaitInv, QueueTypeOK, PlatformState
<1>4. /\ platform' \in PlatformState /\ platform'.at = "construct" /\ platform'.for = c
      /\ platform'.back = platform.back
  BY <1>1, <1>2, <1>3 DEF PlatformState
<1>5. /\ returned' \in [Requester -> BOOLEAN] /\ returned'[c]
      /\ \A d \in Requester : d # c => returned'[d] = returned[d]
  BY <1>2, <1>3
<1>6. QueueTypeOK'
  BY <1>2, <1>4, <1>5 DEF AwaitInv, QueueTypeOK, PlatformState, fibers
<1>7. \A d \in Requester : Asking(d)' <=> Asking(d) /\ d # c
  BY <1>2, <1>5 DEF Asking, fibers
<1>8. OneRuns'
  <2>1. running # c
    BY <1>1 DEF AwaitInv, OneRuns, Asking
  <2> QED
    BY <1>2, <1>5, <2>1 DEF AwaitInv, OneRuns, fibers
<1>9. Pending'
  BY <1>1, <1>2, <1>7 DEF AwaitInv, Pending, Calling
<1>10. Calling'
  BY <1>4 DEF Calling
<1>11. Served'
  BY <1>1, <1>2, <1>7 DEF AwaitInv, Served
<1>12. Stopping'
  BY <1>2, <1>4 DEF AwaitInv, Stopping, fibers
<1> QED
  BY <1>6, <1>8, <1>9, <1>10, <1>11, <1>12 DEF AwaitInv

LEMMA ConstructStep ==
  ASSUME AwaitInv, Construct
  PROVE  AwaitInv'
<1>1. PICK c \in Requester : c = platform.for
  BY DEF Construct, AwaitInv, Calling
<1> DEFINE v == [at |-> platform.back, back |-> "drain", for |-> Nobody, armed |-> FALSE]
<1>2. /\ platform.at = "construct" /\ platform' = v
      /\ constructed' = [constructed EXCEPT ![c] = returned[c]]
      /\ UNCHANGED <<fibers, returned, early, queue, finalized, workerUp>>
  BY <1>1 DEF Construct
<1>3. /\ platform \in PlatformState
      /\ constructed \in [Requester -> BOOLEAN] /\ returned \in [Requester -> BOOLEAN]
  BY DEF AwaitInv, QueueTypeOK, PlatformState
<1>4. v \in PlatformState /\ v.at \in {"drain", "last"} /\ v.at = platform.back
  BY <1>3 DEF PlatformState
<1> HIDE DEF v
<1>5. constructed' \in [Requester -> BOOLEAN]
  BY <1>2, <1>3
<1>6. QueueTypeOK'
  BY <1>2, <1>4, <1>5 DEF AwaitInv, QueueTypeOK, PlatformState, fibers
<1>7. \A d \in Requester : Asking(d)' <=> Asking(d)
  BY <1>2 DEF Asking, fibers
<1>8. OneRuns' /\ Pending'
  BY <1>2, <1>7 DEF AwaitInv, OneRuns, Pending, fibers
<1>9. Calling' /\ Served'
  BY <1>2, <1>4, <1>7 DEF AwaitInv, Calling, Served
<1>10. Stopping'
  BY <1>2, <1>4 DEF AwaitInv, Stopping, fibers
<1> QED
  BY <1>6, <1>8, <1>9, <1>10 DEF AwaitInv

\* The end: the worker stops, then the queue is finalized.
LEMMA StopStep ==
  ASSUME AwaitInv, StopWorker \/ TidyPlatform \/ UNCHANGED platformVars
  PROVE  AwaitInv'
<1>1. /\ UNCHANGED <<fibers, futures, early, queue, platform>>
      /\ workerUp' \in BOOLEAN /\ finalized' \in BOOLEAN
      /\ finalized' => ~workerUp' /\ (workerUp' => workerUp)
      /\ ~workerUp' => running = Nobody
      /\ finalized => finalized'
  <2>1. /\ workerUp \in BOOLEAN /\ finalized \in BOOLEAN
        /\ finalized => ~workerUp
    BY DEF AwaitInv, Stopping, QueueTypeOK
  <2>2. ~workerUp => running = Nobody
    BY DEF AwaitInv, Stopping
  <2>3. CASE StopWorker
    BY <2>1, <2>2, <2>3 DEF StopWorker
  <2>4. CASE TidyPlatform
    BY <2>1, <2>2, <2>4 DEF TidyPlatform
  <2>5. CASE UNCHANGED platformVars
    BY <2>1, <2>2, <2>5 DEF platformVars, fibers, futures
  <2> QED
    BY <2>3, <2>4, <2>5
<1>2. QueueTypeOK'
  BY <1>1 DEF AwaitInv, QueueTypeOK, fibers, futures
<1>3. \A d \in Requester : Asking(d)' <=> Asking(d)
  BY <1>1 DEF Asking, fibers, futures
<1>4. OneRuns' /\ Pending' /\ Calling' /\ Served'
  BY <1>1, <1>3 DEF AwaitInv, OneRuns, Pending, Calling, Served, fibers, futures
<1>5. Stopping'
  BY <1>1 DEF AwaitInv, Stopping, fibers
<1> QED
  BY <1>2, <1>4, <1>5 DEF AwaitInv

LEMMA AwaitNext ==
  ASSUME RoomForAll, AwaitInv, [QueueNext]_platformVars
  PROVE  AwaitInv'
<1>1. CASE PlatformPop
  BY <1>1, EmptyStep, TakeStep
<1>2. CASE PlatformRests
  BY <1>2, StopStep DEF PlatformRests
<1>3. ASSUME NEW c \in Requester, Request(c) \/ TestMode(c) \/ Push(c) \/ Resume(c) PROVE AwaitInv'
  BY <1>3, RequestStep, TestStep, PushStep, ResumeStep
<1>4. CASE PlatformPoll \/ Call \/ Construct
  BY <1>4, PollStep, CallStep, ConstructStep
<1>5. CASE StopWorker \/ TidyPlatform \/ UNCHANGED platformVars
  BY <1>5, StopStep
<1> QED
  BY <1>1, <1>2, <1>3, <1>4, <1>5 DEF QueueNext
-------------------------------------------------------------------------------
LEMMA AwaitKept == AwaitInv => PromisesKept
<1> SUFFICES ASSUME AwaitInv PROVE PromisesKept
  OBVIOUS
<1>1. DOMAIN queue = 1 .. Len(queue)
  BY Entries
<1>2. fiber \in [Requester -> {"idle", "test", "push", "await", "dropped"}]
  BY DEF AwaitInv, QueueTypeOK
<1>3. QueueDone
  <2> SUFFICES ASSUME platform.at = "ended" PROVE queue = <<>> /\ \A c \in Requester : Answered(c)
    BY DEF QueueDone
  <2>1. queue = <<>> /\ Len(queue) = 0
    BY DEF AwaitInv, Stopping
  <2>2. \A c \in Requester : ~Asking(c)
    BY <2>1 DEF AwaitInv, Served
  <2> QED
    BY <1>2, <2>1, <2>2 DEF Answered, Asking, AwaitInv, OneRuns
<1>4. NoEmptyCall
  BY DEF AwaitInv, Calling, NoEmptyCall
<1>5. PromiseOnItsWay
  <2> SUFFICES ASSUME NEW c \in Requester
               PROVE  LET queued == {i \in DOMAIN queue : queue[i].for = c}
                          called == platform.at = "call" /\ platform.for = c
                      IN  IF fiber[c] = "await" /\ ~returned[c] /\ ~called
                          THEN \E i \in DOMAIN queue : queued = {i} /\ queue[i].armed
                          ELSE queued = {}
    BY DEF PromiseOnItsWay
  <2> DEFINE queued == {i \in DOMAIN queue : queue[i].for = c}
             called == platform.at = "call" /\ platform.for = c
  <2>1. CASE Asking(c) /\ ~called
    <3>1. PICK i \in DOMAIN queue : queue[i].for = c
      BY <1>1, <2>1 DEF AwaitInv, Served
    <3>2. queued = {i} /\ queue[i].armed
      BY <1>1, <3>1 DEF AwaitInv, Pending
    <3> QED
      BY <2>1, <3>2 DEF Asking
  <2>2. CASE ~(Asking(c) /\ ~called)
    <3>1. queued = {}
      BY <1>1, <2>2 DEF AwaitInv, Pending, Calling
    <3> QED
      BY <2>2, <3>1 DEF Asking
  <2> QED
    BY <2>1, <2>2
<1> QED
  BY <1>3, <1>4, <1>5 DEF PromisesKept

\* For any number of fibers that the ring has room for: no promise is lost, called
\* twice, called after it has been moved away, or left behind when the thread ends.
THEOREM PromisesTheorem == ASSUME RoomForAll PROVE QueueSpec => []PromisesKept
<1>1. AwaitInv /\ [QueueNext]_platformVars => AwaitInv'
  BY AwaitNext
<1> QED
  BY <1>1, AwaitInitially, AwaitKept, PTL DEF QueueSpec

-------------------------------------------------------------------------------
(***************************************************************************)
(* All that the engine is built on, as one run has it.                     *)
(***************************************************************************)

\* However many fibers there are, and promises that are lost for want of room.
LEMMA QueueTypeInitially == QueueInit => QueueTypeOK
<1> SUFFICES ASSUME QueueInit PROVE QueueTypeOK
  OBVIOUS
<1>1. queue \in Seq(Entry) /\ Len(queue) <= RingSize
  BY QueueAssumption DEF QueueInit
<1> QED
  BY <1>1 DEF QueueInit, QueueTypeOK

LEMMA QueueTypeKept == QueueTypeOK /\ [QueueNext]_platformVars => QueueTypeOK'
<1> SUFFICES ASSUME QueueTypeOK, [QueueNext]_platformVars PROVE QueueTypeOK'
  OBVIOUS
<1> USE DEF QueueTypeOK, fibers, futures
<1>1. ASSUME NEW c \in Requester, Request(c) PROVE QueueTypeOK'
  BY <1>1 DEF Request
<1>2. ASSUME NEW c \in Requester, TestMode(c) PROVE QueueTypeOK'
  BY <1>2 DEF TestMode
<1>3. ASSUME NEW c \in Requester, Push(c) PROVE QueueTypeOK'
  <2>1. [for |-> c, armed |-> armed[c]] \in Entry
    BY DEF Entry
  <2>2. \/ queue' = Append(queue, [for |-> c, armed |-> armed[c]]) /\ Len(queue) < RingSize
        \/ queue' = queue
    BY <1>3 DEF Push, HasRoom
  <2>3. queue' \in Seq(Entry) /\ Len(queue') <= RingSize
    BY <2>1, <2>2, QueueAssumption
  <2> QED
    BY <1>3, <2>3 DEF Push
<1>4. ASSUME NEW c \in Requester, Resume(c) PROVE QueueTypeOK'
  BY <1>4 DEF Resume
<1>5. CASE PlatformPoll
  BY <1>5 DEF PlatformPoll, NextRound
<1>6. CASE PlatformPop
  <2>1. CASE queue = <<>>
    BY <1>6, <2>1 DEF PlatformPop
  <2>2. CASE queue # <<>>
    <3>1. Head(queue) \in Entry /\ queue' \in Seq(Entry) /\ Len(queue') <= RingSize
      BY <1>6, <2>2, QueueAssumption DEF PlatformPop
    <3> QED
      BY <1>6, <2>2, <3>1 DEF PlatformPop, Entry
  <2> QED
    BY <2>1, <2>2
<1>7. CASE Call
  BY <1>7 DEF Call
<1>8. CASE Construct
  <2>1. platform.for \in Requester => returned[platform.for] \in BOOLEAN
    OBVIOUS
  <2>2. constructed' \in [Requester -> BOOLEAN]
    BY <1>8, <2>1 DEF Construct
  <2> QED
    BY <1>8, <2>2 DEF Construct
<1>9. CASE StopWorker \/ TidyPlatform \/ UNCHANGED platformVars
  BY <1>9 DEF StopWorker, TidyPlatform, platformVars
<1> QED
  BY <1>1, <1>2, <1>3, <1>4, <1>5, <1>6, <1>7, <1>8, <1>9 DEF QueueNext, PlatformRests

\* Each component has its invariant, and only one of them moves.
SupportInv ==
    /\ TargetInv /\ ActionInv /\ PoolInv /\ SharedInv /\ GuardInv
    /\ QueueTypeOK

LEMMA SupportInitially == SupportInit => SupportInv
  BY TargetInitInv, ActionsBegin, PoolInitInv, SharedInitInv, GuardInitInv, QueueTypeInitially
  DEF SupportInit, SupportInv

LEMMA SupportKept == SupportInv /\ [SupportNext]_supportVars => SupportInv'
<1> SUFFICES ASSUME SupportInv, [SupportNext]_supportVars PROVE SupportInv'
  OBVIOUS
<1>1. /\ [TargetNext]_targetVars /\ [ActionNext]_actionVars /\ [PoolNext]_poolVars
      /\ [SharedNext]_sharedVars /\ [QueueNext]_platformVars /\ [GuardNext]_guardVars
  <2>1. CASE TargetsOnly /\ TargetNext
    BY <2>1 DEF TargetsOnly
  <2>2. CASE ActionsOnly /\ ActionNext
    BY <2>2 DEF ActionsOnly
  <2>3. CASE PoolOnly /\ PoolNext
    BY <2>3 DEF PoolOnly
  <2>4. CASE SharedOnly /\ SharedNext
    BY <2>4 DEF SharedOnly
  <2>5. CASE PlatformOnly /\ QueueNext
    BY <2>5 DEF PlatformOnly
  <2>6. CASE GuardsOnly /\ GuardNext
    BY <2>6 DEF GuardsOnly
  <2>7. CASE UNCHANGED supportVars
    BY <2>7 DEF supportVars
  <2> QED
    BY <2>1, <2>2, <2>3, <2>4, <2>5, <2>6, <2>7 DEF SupportNext
<1>2. TargetInv' /\ ActionInv' /\ PoolInv'
  BY <1>1, TargetNextInv, ActionNextInv, PoolStepInv DEF SupportInv
<1>3. SharedInv' /\ GuardInv' /\ QueueTypeOK'
  BY <1>1, SharedStepInv, GuardNextInv, QueueTypeKept DEF SupportInv
<1> QED
  BY <1>2, <1>3 DEF SupportInv

\* The types of the state of all these components.
THEOREM SupportTypes == SupportSpec => []SupportTypeOK
<1>1. SupportInv => SupportTypeOK
  BY PoolTypes DEF SupportInv, SupportTypeOK, TargetInv, ActionInv, SharedInv, GuardInv
<1> QED
  BY <1>1, SupportInitially, SupportKept, PTL DEF SupportSpec
===============================================================================
