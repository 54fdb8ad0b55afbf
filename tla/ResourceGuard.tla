---------------------------- MODULE ResourceGuard ----------------------------
(***************************************************************************)
(* UniqueResource and ManageGuard: a lock on a resource, and the movable   *)
(* guards that own it.                                                     *)
(*                                                                         *)
(* A guard is a local variable of a thread.  The lock is an atomic flag:   *)
(* who finds it set waits for it to change, and who clears it notifies one *)
(* of those that wait.  Testing, clearing, falling asleep and notifying    *)
(* are single steps, and other threads run in between.  The call sites     *)
(* nest their guards in one order of the kinds of resources (a model, its  *)
(* material, the textures of the material), and none asks for a resource   *)
(* that its thread holds already.  The usage flags only select what        *)
(* imm() and mut() return: there is one lock, for readers too.             *)
(***************************************************************************)
EXTENDS Naturals

CONSTANTS
    User,           \* threads
    Resource,
    NoResource,
    Guard,
    NoGuard,
    UserOf,         \* UserOf[g]: the thread whose local variable g is
    Nesting         \* Nesting[r]: resources are acquired in ascending order

\* Definitions marked "Faulty" are not part of the model, see CompositePipeline.

ASSUME GuardAssumption ==
    /\ NoResource \notin Resource /\ NoGuard \notin Guard
    /\ UserOf \in [Guard -> User] /\ Nesting \in [Resource -> Nat]

VARIABLES
    lck,            \* UniqueResource::_lck
    guard,          \* ManageGuard::_resource, and whether _ownedFlags is not eNone
    user            \* where a thread is in acquire() or release()

guardVars == <<lck, guard, user>>

GuardState == [resource : Resource \cup {NoResource}, owns : BOOLEAN]
EmptyGuard == [resource |-> NoResource, owns |-> FALSE]

\* "test": about to test_and_set(); "check": about to look at the flag in wait();
\* "asleep": in wait(); "adopt": has set the flag, no guard owns it yet;
\* "notify": has cleared the flag.
UserState ==
    [at : {"idle", "test", "check", "asleep", "adopt", "notify"},
     resource : Resource \cup {NoResource}, into : Guard \cup {NoGuard}]

Resting == [at |-> "idle", resource |-> NoResource, into |-> NoGuard]

GuardTypeOK ==
    /\ lck \in [Resource -> BOOLEAN]
    /\ guard \in [Guard -> GuardState]
    /\ user \in [User -> UserState]

GuardInit ==
    /\ lck = [r \in Resource |-> FALSE]
    /\ guard = [g \in Guard |-> EmptyGuard]
    /\ user = [t \in User |-> Resting]
------------------------------------------------------------------------------
Owns(g, r) == guard[g].owns /\ guard[g].resource = r
AtOn(t, at, r) == user[t].at = at /\ user[t].resource = r
Goes(t, at) == [user EXCEPT ![t].at = at]
Rests(t) == [user EXCEPT ![t] = Resting]
Notifies(t, r) == [user EXCEPT ![t] = [Resting EXCEPT !.at = "notify", !.resource = r]]

\* acquire() is called; what it returns is moved into g.
BeginAcquire(t, g, r) ==
    /\ user[t].at = "idle" /\ UserOf[g] = t
    /\ \A h \in Guard : UserOf[h] = t /\ guard[h].owns =>
            Nesting[guard[h].resource] < Nesting[r]
    /\ user' = [user EXCEPT ![t] = [at |-> "test", resource |-> r, into |-> g]]
    /\ UNCHANGED <<lck, guard>>

\* Faulty TestAndSet: what the flag was is not looked at.
TestThenSet(t) ==
    /\ user[t].at = "test"
    /\ user' = Goes(t, "adopt")
    /\ lck' = [lck EXCEPT ![user[t].resource] = TRUE]
    /\ UNCHANGED guard

\* test_and_set() of the loop of acquire().
TestAndSet(t) ==
    /\ user[t].at = "test"
    /\ user' = Goes(t, IF lck[user[t].resource] THEN "check" ELSE "adopt")
    /\ lck' = [lck EXCEPT ![user[t].resource] = TRUE]
    /\ UNCHANGED guard

\* Faulty Check: the flag is not looked at again before the thread falls asleep.
CheckBlind(t) ==
    /\ user[t].at = "check"
    /\ user' = Goes(t, "asleep")
    /\ UNCHANGED <<lck, guard>>

\* waitOnAtomic(): a thread falls asleep only while the flag is set.
Check(t) ==
    /\ user[t].at = "check"
    /\ user' = Goes(t, IF lck[user[t].resource] THEN "asleep" ELSE "test")
    /\ UNCHANGED <<lck, guard>>

\* try_acquire() does not wait.
TryAcquire(t, g, r) ==
    /\ user[t].at = "idle" /\ UserOf[g] = t
    /\ ~lck[r]
    /\ lck' = [lck EXCEPT ![r] = TRUE]
    /\ user' = [user EXCEPT ![t] = [at |-> "adopt", resource |-> r, into |-> g]]
    /\ UNCHANGED guard

\* What g owns is released: the flag is cleared, and notify_one() is next.
Cleared(g) ==
    IF guard[g].owns THEN [lck EXCEPT ![guard[g].resource] = FALSE] ELSE lck
Released(t, g) ==
    IF guard[g].owns THEN Notifies(t, guard[g].resource) ELSE Rests(t)

\* The guard of the resource is moved into g, which releases what it owned.
Adopt(t) ==
    LET g == user[t].into
    IN  /\ user[t].at = "adopt"
        /\ guard' = [guard EXCEPT ![g] = [resource |-> user[t].resource, owns |-> TRUE]]
        /\ lck' = Cleared(g)
        /\ user' = Released(t, g)

\* operator=(), and the move constructor if h is empty.
MoveGuard(t, g, h) ==
    /\ user[t].at = "idle" /\ UserOf[g] = t /\ UserOf[h] = t /\ g # h
    /\ guard' = [guard EXCEPT ![h] = guard[g], ![g] = EmptyGuard]
    /\ lck' = Cleared(h)
    /\ user' = Released(t, h)

\* release(), which callers call only when they own the resource: the guard goes on
\* pointing to it, but the destructor does not release it again.
ReleaseGuard(t, g) ==
    /\ user[t].at = "idle" /\ UserOf[g] = t
    /\ guard[g].owns
    /\ guard' = [guard EXCEPT ![g].owns = FALSE]
    /\ lck' = Cleared(g)
    /\ user' = Released(t, g)

\* The destructor, or reset().
DropGuard(t, g) ==
    /\ user[t].at = "idle" /\ UserOf[g] = t
    /\ guard[g].resource # NoResource
    /\ guard' = [guard EXCEPT ![g] = EmptyGuard]
    /\ lck' = Cleared(g)
    /\ user' = Released(t, g)

\* notify_one(): one of the sleepers looks at the flag again.
Notify(t) ==
    LET sleepers == {u \in User : AtOn(u, "asleep", user[t].resource)}
    IN  /\ user[t].at = "notify"
        /\ IF sleepers = {}
           THEN user' = Rests(t)
           ELSE \E u \in sleepers : user' = [Rests(t) EXCEPT ![u].at = "check"]
        /\ UNCHANGED <<lck, guard>>

GuardNext ==
    \/ \E t \in User, g \in Guard, r \in Resource : BeginAcquire(t, g, r)
    \/ \E t \in User : TestAndSet(t)
    \/ \E t \in User : Check(t)
    \/ \E t \in User, g \in Guard, r \in Resource : TryAcquire(t, g, r)
    \/ \E t \in User : Adopt(t)
    \/ \E t \in User, g, h \in Guard : MoveGuard(t, g, h)
    \/ \E t \in User, g \in Guard : ReleaseGuard(t, g)
    \/ \E t \in User, g \in Guard : DropGuard(t, g)
    \/ \E t \in User : Notify(t)

GuardSpec == GuardInit /\ [][GuardNext]_guardVars
------------------------------------------------------------------------------
(***************************************************************************)
(* Properties.                                                             *)
(***************************************************************************)

\* A resource is locked exactly while one guard owns it, or is about to: guards
\* are moved, released early and destroyed, and none of that frees the lock of
\* another guard or leaves it behind without an owner.
LockOwned ==
    \A r \in Resource :
        /\ lck[r] <=> (\E g \in Guard : Owns(g, r)) \/ (\E t \in User : AtOn(t, "adopt", r))
        /\ \A g, h \in Guard : Owns(g, r) /\ Owns(h, r) => g = h
        /\ \A t, u \in User : AtOn(t, "adopt", r) /\ AtOn(u, "adopt", r) => t = u
        /\ \A g \in Guard, t \in User : ~(Owns(g, r) /\ AtOn(t, "adopt", r))

\* No wakeup is lost although clearing and notifying are two steps and only one
\* sleeper is woken, which another thread may overtake: while a thread sleeps
\* before a free lock, somebody is about to look at that lock or to wake it.
NoLostWakeup ==
    \A r \in Resource, t \in User :
        AtOn(t, "asleep", r) /\ ~lck[r] =>
            \E u \in User : \E at \in {"notify", "check", "test"} : AtOn(u, at, r)
==============================================================================
