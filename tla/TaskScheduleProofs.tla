-------------------------- MODULE TaskScheduleProofs --------------------------
(***************************************************************************)
(* Proofs about TaskSchedule, for any tasks, masks, stages and size of the *)
(* pool: every fiber that exists has one owner, every task is in one       *)
(* place, and tasks of one mask keep their order.                          *)
(***************************************************************************)
EXTENDS TaskSchedule, FiniteSetTheorems, TLAPS

me == worker[1]

\* The fiber of a task is bound to it, exists, and is not in the pool.
Owned ==
    \A t \in Task : fiberOf[t] # NoFiber =>
        /\ bound[fiberOf[t]] = t
        /\ fiberOf[t] \in alive
        /\ fiberOf[t] \notin ToSet(pool)

\* A fiber of the pool exists, without a task; it is there once.
Spare ==
    /\ IsInjective(pool) /\ Len(pool) <= PoolCapacity
    /\ \A f \in ToSet(pool) : f \in alive /\ bound[f] = NoTask

Leaving == me.at \in {"tick", "leave"}

\* No fiber is left over, and one that awaits a signal has a task.
Accounted ==
    /\ \A f \in alive :
          \/ f \in ToSet(pool)
          \/ \E t \in Task : fiberOf[t] = f
          \/ Leaving /\ me.fiber = f
    /\ \A f \in Fiber : awaiter[f] => \E t \in Task : fiberOf[t] = f

\* The worker is on the fiber of the task that it runs, until that task lets go of
\* it; then the fiber is nobody's.
OnFiber ==
    /\ me.at \in {"run", "back"} =>
          me.task \in Task /\ me.fiber # NoFiber /\ fiberOf[me.task] = me.fiber
    /\ me.at = "run" => ~awaiter[me.fiber]
    /\ me.at = "tick" => me.level \in 1 .. 3
    /\ Leaving =>
          /\ me.fiber # NoFiber /\ me.fiber \in alive
          /\ me.fiber \notin ToSet(pool)
          /\ \A t \in Task : fiberOf[t] # me.fiber

FiberInv == TypeOK /\ Owned /\ Spare /\ Accounted /\ OnFiber

-------------------------------------------------------------------------------
LEMMA FiberFacts ==
  /\ Cardinality(Task) \in Nat
  /\ NoFiber \notin Fiber
  /\ IsFiniteSet(Fiber) /\ Cardinality(Fiber) = Cardinality(Task) + 1
  /\ StageTask \subseteq Task /\ Job \subseteq Task /\ Poller \subseteq Task /\ Awaits \subseteq Task
<1>1. Cardinality(Task) \in Nat
  BY ConstantsAssumption, FS_CardinalityType
<1>2. IsFiniteSet(Fiber) /\ Cardinality(Fiber) = Cardinality(Task) + 1
  BY <1>1, FS_Interval DEF Fiber
<1> QED
  BY <1>1, <1>2, ConstantsAssumption DEF Fiber, NoFiber, Task

LEMMA LevelOf == ASSUME NEW t \in Task PROVE maskToPriority(MaskOf[t]) \in Level
  BY DEF maskToPriority, Level

\* A push appends to one fifo.
LEMMA PushedType ==
  ASSUME queue \in [Level -> Seq(Task)], NEW t \in Task
  PROVE  Pushed(t) \in [Level -> Seq(Task)]
<1>1. maskToPriority(MaskOf[t]) \in Level
  BY LevelOf
<1> DEFINE p == maskToPriority(MaskOf[t])
<1> HIDE DEF p
<1>2. p \in Level => [queue EXCEPT ![p] = Append(@, t)] \in [Level -> Seq(Task)]
  OBVIOUS
<1> QED
  BY <1>1, <1>2 DEF p, Pushed

\* The worker changes to another state of its own.
LEMMA MeUpdate ==
  ASSUME TypeOK, NEW v \in WorkerState, worker' = [worker EXCEPT ![1] = v]
  PROVE  worker' \in [Worker -> WorkerState] /\ me' = v
<1>1. worker \in [Worker -> WorkerState] /\ 1 \in Worker
  BY DEF TypeOK, Worker
<1> QED
  BY <1>1 DEF me

LEMMA MeAtLevel ==
  ASSUME TypeOK, NEW a \in {"tick", "leave"}, NEW n \in Level,
         worker' = [worker EXCEPT ![1].at = a, ![1].level = n]
  PROVE  /\ worker' \in [Worker -> WorkerState]
         /\ me'.at = a /\ me'.level = n /\ me'.task = me.task /\ me'.fiber = me.fiber
<1> DEFINE w1 == [worker EXCEPT ![1] = [worker[1] EXCEPT !.at = a]]
<1>1. worker \in [Worker -> WorkerState] /\ 1 \in Worker /\ worker[1] \in WorkerState
  BY DEF TypeOK, Worker
<1>2. [worker[1] EXCEPT !.at = a] \in WorkerState
  BY <1>1 DEF WorkerState
<1>3. w1 \in [Worker -> WorkerState] /\ w1[1] = [worker[1] EXCEPT !.at = a]
  BY <1>1, <1>2
<1>4. worker' = [w1 EXCEPT ![1] = [w1[1] EXCEPT !.level = n]]
  BY <1>3
<1>5. [w1[1] EXCEPT !.level = n] = [worker[1] EXCEPT !.at = a, !.level = n]
  BY <1>3
<1> HIDE DEF w1
<1>6. worker' = [w1 EXCEPT ![1] = [worker[1] EXCEPT !.at = a, !.level = n]]
  BY <1>4, <1>5
<1> DEFINE v == [worker[1] EXCEPT !.at = a, !.level = n]
<1> HIDE DEF v
<1>7. worker' = [w1 EXCEPT ![1] = v]
  BY <1>6 DEF v
<1>8. [w1 EXCEPT ![1] = v] = [worker EXCEPT ![1] = v]
  BY <1>1, <1>3 DEF w1
<1>9. /\ v \in WorkerState
      /\ v.at = a /\ v.level = n /\ v.task = worker[1].task /\ v.fiber = worker[1].fiber
  BY <1>1 DEF v, WorkerState
<1>10. worker' \in [Worker -> WorkerState] /\ me' = v
  BY <1>7, <1>8, <1>9, MeUpdate
<1> QED
  BY <1>9, <1>10 DEF me

LEMMA MeType == ASSUME TypeOK PROVE me \in WorkerState
  BY DEF TypeOK, Worker, me

LEMMA IdleState == Idle \in WorkerState
  BY DEF Idle, WorkerState, NoFiber, Level

\* What is in a sequence after its head is gone, and after something is appended.
LEMMA TailOf ==
  ASSUME NEW S, NEW s \in Seq(S), s # <<>>, IsInjective(s)
  PROVE  /\ Tail(s) \in Seq(S) /\ IsInjective(Tail(s)) /\ Len(Tail(s)) = Len(s) - 1
         /\ Head(s) \in ToSet(s)
         /\ ToSet(Tail(s)) = ToSet(s) \ {Head(s)}
<1>1. /\ Len(s) \in Nat /\ Len(s) >= 1 /\ DOMAIN s = 1 .. Len(s)
      /\ Tail(s) \in Seq(S) /\ Len(Tail(s)) = Len(s) - 1 /\ DOMAIN Tail(s) = 1 .. Len(s) - 1
      /\ Head(s) = s[1]
  OBVIOUS
<1>2. \A i \in 1 .. Len(s) - 1 : Tail(s)[i] = s[i + 1]
  OBVIOUS
<1>3. IsInjective(Tail(s))
  <2> SUFFICES ASSUME NEW i \in 1 .. Len(s) - 1, NEW j \in 1 .. Len(s) - 1, Tail(s)[i] = Tail(s)[j]
               PROVE  i = j
    BY <1>1 DEF IsInjective
  <2>1. s[i + 1] = s[j + 1] /\ i + 1 \in 1 .. Len(s) /\ j + 1 \in 1 .. Len(s)
    BY <1>1, <1>2
  <2>2. i + 1 = j + 1
    BY <1>1, <2>1 DEF IsInjective
  <2> QED
    BY <2>2
<1>4. ASSUME NEW x \in ToSet(Tail(s)) PROVE x \in ToSet(s) /\ x # Head(s)
  <2>1. PICK i \in 1 .. Len(s) - 1 : x = Tail(s)[i]
    BY <1>1 DEF ToSet
  <2>2. x = s[i + 1] /\ i + 1 \in 1 .. Len(s) /\ i + 1 # 1 /\ 1 \in 1 .. Len(s)
    BY <1>1, <1>2, <2>1
  <2>3. s[i + 1] # s[1]
    BY <1>1, <2>2 DEF IsInjective
  <2> QED
    BY <1>1, <2>2, <2>3 DEF ToSet
<1>5. ASSUME NEW x \in ToSet(s), x # Head(s) PROVE x \in ToSet(Tail(s))
  <2>1. PICK i \in 1 .. Len(s) : x = s[i]
    BY <1>1 DEF ToSet
  <2>2. i - 1 \in 1 .. Len(s) - 1 /\ (i - 1) + 1 = i
    BY <1>1, <1>5, <2>1
  <2>3. x = Tail(s)[i - 1]
    BY <1>2, <2>1, <2>2
  <2> QED
    BY <1>1, <2>2, <2>3 DEF ToSet
<1>6. Head(s) \in ToSet(s)
  BY <1>1 DEF ToSet
<1> QED
  BY <1>1, <1>3, <1>4, <1>5, <1>6

LEMMA AppendOf ==
  ASSUME NEW S, NEW s \in Seq(S), NEW x \in S
  PROVE  /\ Append(s, x) \in Seq(S) /\ Len(Append(s, x)) = Len(s) + 1
         /\ ToSet(Append(s, x)) = ToSet(s) \cup {x}
         /\ IsInjective(s) /\ x \notin ToSet(s) => IsInjective(Append(s, x))
<1>1. /\ Len(s) \in Nat /\ DOMAIN s = 1 .. Len(s)
      /\ Append(s, x) \in Seq(S) /\ Len(Append(s, x)) = Len(s) + 1
      /\ DOMAIN Append(s, x) = 1 .. Len(s) + 1
  OBVIOUS
<1>2. /\ \A i \in 1 .. Len(s) : Append(s, x)[i] = s[i]
      /\ Append(s, x)[Len(s) + 1] = x
  OBVIOUS
<1>3. ASSUME NEW y \in ToSet(Append(s, x)) PROVE y \in ToSet(s) \cup {x}
  <2>1. PICK i \in 1 .. Len(s) + 1 : y = Append(s, x)[i]
    BY <1>1 DEF ToSet
  <2>2. i \in 1 .. Len(s) \/ i = Len(s) + 1
    BY <1>1
  <2> QED
    BY <1>1, <1>2, <2>1, <2>2 DEF ToSet
<1>4. ASSUME NEW y \in ToSet(s) \cup {x} PROVE y \in ToSet(Append(s, x))
  <2>1. CASE y = x
    <3>1. Len(s) + 1 \in DOMAIN Append(s, x)
      BY <1>1
    <3> QED
      BY <1>2, <2>1, <3>1 DEF ToSet
  <2>2. CASE y \in ToSet(s)
    <3>1. PICK i \in 1 .. Len(s) : y = s[i]
      BY <1>1, <2>2 DEF ToSet
    <3>2. i \in DOMAIN Append(s, x) /\ y = Append(s, x)[i]
      BY <1>1, <1>2, <3>1
    <3> QED
      BY <3>2 DEF ToSet
  <2> QED
    BY <1>4, <2>1, <2>2
<1>5. ASSUME IsInjective(s), x \notin ToSet(s),
             NEW i \in 1 .. Len(s) + 1, NEW j \in 1 .. Len(s) + 1,
             Append(s, x)[i] = Append(s, x)[j]
      PROVE  i = j
  <2>1. (i \in 1 .. Len(s) \/ i = Len(s) + 1) /\ (j \in 1 .. Len(s) \/ j = Len(s) + 1)
    BY <1>1
  <2>2. \A k \in 1 .. Len(s) : s[k] # x
    BY <1>1, <1>5 DEF ToSet
  <2>3. CASE i \in 1 .. Len(s) /\ j \in 1 .. Len(s)
    BY <1>1, <1>2, <1>5, <2>3 DEF IsInjective
  <2> QED
    BY <1>2, <1>5, <2>1, <2>2, <2>3
<1> QED
  BY <1>1, <1>3, <1>4, <1>5 DEF IsInjective
-------------------------------------------------------------------------------
LEMMA FiberInitially == Init => FiberInv
<1> SUFFICES ASSUME Init PROVE FiberInv
  OBVIOUS
<1>1. me = Idle
  BY DEF Init, me, Worker
<1>2. Chain[1] \in StageTask
  <2>1. 1 \in DOMAIN Chain
    BY ConstantsAssumption
  <2> QED
    BY <2>1 DEF StageTask, ToSet
<1>3. TypeOK
  <2>1. worker \in [Worker -> WorkerState]
    BY IdleState DEF Init
  <2>2. queue \in [Level -> Seq(Task)]
    BY <1>2, FiberFacts DEF Init
  <2> QED
    BY <2>1, <2>2, FiberFacts, ConstantsAssumption DEF Init, TypeOK
<1>4. Owned /\ Accounted
  BY FiberFacts DEF Init, Owned, Accounted
<1>5. Spare
  BY ConstantsAssumption DEF Init, Spare, IsInjective, ToSet
<1>6. OnFiber
  BY <1>1 DEF OnFiber, Idle, Leaving
<1> QED
  BY <1>3, <1>4, <1>5, <1>6 DEF FiberInv

\* exec() and a signal leave fibers alone.
LEMMA ExecStep ==
  ASSUME FiberInv, NEW t \in Task, Exec(t)
  PROVE  FiberInv'
<1>1. queue' \in [Level -> Seq(Task)]
  BY PushedType DEF Exec, FiberInv, TypeOK
<1>2. life' \in [Task -> {"new", "live", "gone"}]
  BY DEF Exec, FiberInv, TypeOK
<1> QED
  BY <1>1, <1>2
  DEF FiberInv, Exec, TypeOK, Owned, Spare, Accounted, OnFiber, Leaving, me

LEMMA SignalStep ==
  ASSUME FiberInv, NEW t \in Awaits, SetSignal(t)
  PROVE  FiberInv'
BY DEF FiberInv, SetSignal, TypeOK, Owned, Spare, Accounted, OnFiber, Leaving, me

\* A body yields, or awaits: it keeps the fiber.
LEMMA YieldStep ==
  ASSUME FiberInv, Yield(1)
  PROVE  FiberInv'
<1> DEFINE v == [me EXCEPT !.at = "back"]
<1>1. v \in WorkerState /\ v.at = "back" /\ v.task = me.task /\ v.fiber = me.fiber /\ v.level = me.level
  BY MeType DEF FiberInv, WorkerState
<1>2. worker' = [worker EXCEPT ![1] = v]
  BY DEF Yield, me
<1> HIDE DEF v
<1>3. worker' \in [Worker -> WorkerState] /\ me' = v
  BY <1>1, <1>2, MeUpdate DEF FiberInv
<1>4. TypeOK'
  BY <1>3 DEF FiberInv, TypeOK, Yield
<1> QED
  BY <1>1, <1>3, <1>4 DEF FiberInv, Owned, Spare, Accounted, OnFiber, Leaving, Yield, me

LEMMA AwaitStep ==
  ASSUME FiberInv, Await(1)
  PROVE  FiberInv'
<1> DEFINE v == [me EXCEPT !.at = "back"]
<1>1. v \in WorkerState /\ v.at = "back" /\ v.task = me.task /\ v.fiber = me.fiber /\ v.level = me.level
  BY MeType DEF FiberInv, WorkerState
<1>2. worker' = [worker EXCEPT ![1] = v] /\ me.at = "run"
  BY DEF Await, me
<1> HIDE DEF v
<1>3. worker' \in [Worker -> WorkerState] /\ me' = v
  BY <1>1, <1>2, MeUpdate DEF FiberInv
<1>4. awaiter' = [awaiter EXCEPT ![me.fiber] = TRUE]
  BY DEF Await, me
<1>5. TypeOK'
  BY <1>3, <1>4 DEF FiberInv, TypeOK, Await
<1>6. Owned' /\ Spare'
  BY DEF FiberInv, Owned, Spare, Await
<1>7. Accounted'
  <2>1. ~Leaving /\ ~Leaving'
    BY <1>1, <1>2, <1>3 DEF Leaving
  <2>2. me.task \in Task /\ fiberOf[me.task] = me.fiber
    BY <1>2 DEF FiberInv, OnFiber
  <2> QED
    BY <1>4, <2>1, <2>2 DEF FiberInv, Accounted, TypeOK, Await
<1>8. OnFiber'
  BY <1>1, <1>2, <1>3 DEF FiberInv, OnFiber, Leaving, Await
<1> QED
  BY <1>5, <1>6, <1>7, <1>8 DEF FiberInv

\* The worker is done with a suspended task, or goes on with a tick.
LEMMA RequeueStep ==
  ASSUME FiberInv, Requeue(1)
  PROVE  FiberInv'
<1>1. me.at = "back" /\ worker' = [worker EXCEPT ![1] = Idle] /\ queue' = Pushed(me.task)
  BY DEF Requeue, me
<1>2. worker' \in [Worker -> WorkerState] /\ me' = Idle
  BY <1>1, IdleState, MeUpdate DEF FiberInv
<1>3. queue' \in [Level -> Seq(Task)]
  BY <1>1, PushedType DEF FiberInv, OnFiber, TypeOK
<1>4. TypeOK'
  BY <1>2, <1>3 DEF FiberInv, TypeOK, Requeue
<1>5. Owned' /\ Spare' /\ Accounted' /\ OnFiber'
  BY <1>1, <1>2 DEF FiberInv, Owned, Spare, Accounted, OnFiber, Leaving, Idle, Requeue
<1> QED
  BY <1>4, <1>5 DEF FiberInv

LEMMA RaiseStep ==
  ASSUME FiberInv, Raise(1)
  PROVE  FiberInv'
<1> DEFINE l == me.level
           a == IF l = 3 THEN "leave" ELSE "tick"
           n == IF l = 3 THEN 0 ELSE l + 1
<1>1. me.at = "tick" /\ l \in 1 .. 3
  BY DEF Raise, me, FiberInv, OnFiber
<1>2. a \in {"tick", "leave"} /\ n \in Level /\ (a = "tick" => n \in 1 .. 3)
  BY <1>1 DEF Level
<1>3. worker' = [worker EXCEPT ![1].at = a, ![1].level = n]
  BY DEF Raise, me
<1>4. queue' \in [Level -> Seq(Task)]
  <2>1. queue \in [Level -> Seq(Task)] /\ l \in Level /\ l - 1 \in Level
    BY <1>1 DEF FiberInv, TypeOK, Level
  <2>2. queue' = [queue EXCEPT ![l - 1] = @ \o queue[l], ![l] = <<>>]
    BY DEF Raise, me
  <2> HIDE DEF l
  <2> DEFINE raised == [queue EXCEPT ![l - 1] = queue[l - 1] \o queue[l]]
  <2>3. queue[l - 1] \o queue[l] \in Seq(Task) /\ <<>> \in Seq(Task)
    BY <2>1
  <2>4. raised \in [Level -> Seq(Task)]
    BY <2>1, <2>3
  <2>5. queue' = [raised EXCEPT ![l] = <<>>]
    BY <2>1, <2>2
  <2> HIDE DEF raised
  <2> QED
    BY <2>3, <2>4, <2>5
<1> HIDE DEF l, a, n
<1>5. /\ worker' \in [Worker -> WorkerState]
      /\ me'.at = a /\ me'.level = n /\ me'.task = me.task /\ me'.fiber = me.fiber
  BY <1>2, <1>3, MeAtLevel DEF FiberInv
<1>6. TypeOK'
  BY <1>4, <1>5 DEF FiberInv, TypeOK, Raise
<1>7. Owned' /\ Spare' /\ Accounted' /\ OnFiber'
  BY <1>1, <1>2, <1>5 DEF FiberInv, Owned, Spare, Accounted, OnFiber, Leaving, Raise
<1> QED
  BY <1>6, <1>7 DEF FiberInv

-------------------------------------------------------------------------------
\* A task whose body has returned lets go of its fiber; the worker is still on it.
LEMMA LetGo ==
  ASSUME FiberInv, me.at = "run",
         fiberOf' = [fiberOf EXCEPT ![me.task] = NoFiber],
         me'.at \in {"tick", "leave"}, me'.at = "tick" => me'.level \in 1 .. 3,
         me'.fiber = me.fiber,
         UNCHANGED <<alive, bound, awaiter, pool>>
  PROVE  fiberOf' \in [Task -> Fiber \cup {NoFiber}] /\ Owned' /\ Spare' /\ Accounted' /\ OnFiber'
<1> DEFINE t == me.task
           f == me.fiber
<1>1. /\ t \in Task /\ f # NoFiber /\ fiberOf[t] = f /\ ~awaiter[f]
      /\ fiberOf \in [Task -> Fiber \cup {NoFiber}] /\ Leaving'
  BY DEF FiberInv, OnFiber, TypeOK, Leaving
<1>2. bound[f] = t /\ f \in alive /\ f \notin ToSet(pool)
  BY <1>1 DEF FiberInv, Owned
<1>3. \A u \in Task : u # t => fiberOf'[u] = fiberOf[u] /\ fiberOf[u] # f
  BY <1>1, <1>2 DEF FiberInv, Owned
<1>4. fiberOf'[t] = NoFiber
  BY <1>1
<1>5. fiberOf' \in [Task -> Fiber \cup {NoFiber}]
  BY <1>1
<1>6. Owned' /\ Spare'
  BY <1>1, <1>3, <1>4 DEF FiberInv, Owned, Spare
<1>7. Accounted'
  <2>1. ~Leaving
    BY DEF Leaving
  <2>2. \A g \in Fiber : g # f => ((\E u \in Task : fiberOf[u] = g) => \E u \in Task : fiberOf'[u] = g)
    BY <1>1, <1>3
  <2>3. alive \subseteq Fiber
    BY DEF FiberInv, TypeOK
  <2> QED
    BY <1>1, <2>1, <2>2, <2>3 DEF FiberInv, Accounted
<1>8. OnFiber'
  <2>1. \A u \in Task : fiberOf'[u] # f
    BY <1>1, <1>3, <1>4
  <2> QED
    BY <1>1, <1>2, <2>1 DEF OnFiber, Leaving
<1> QED
  BY <1>5, <1>6, <1>7, <1>8

LEMMA LeaveState ==
  ASSUME TypeOK, worker' = [worker EXCEPT ![1].at = "leave"]
  PROVE  worker' \in [Worker -> WorkerState] /\ me'.at = "leave" /\ me'.fiber = me.fiber
<1> DEFINE v == [me EXCEPT !.at = "leave"]
<1>1. v \in WorkerState /\ v.at = "leave" /\ v.fiber = me.fiber
  BY MeType DEF WorkerState
<1>2. worker' = [worker EXCEPT ![1] = v]
  BY DEF me
<1> HIDE DEF v
<1> QED
  BY <1>1, <1>2, MeUpdate

LEMMA FinishJobStep ==
  ASSUME FiberInv, NEW t \in Task, FinishJob(1, t)
  PROVE  FiberInv'
<1>1. me.at = "run" /\ me.task = t /\ fiberOf' = [fiberOf EXCEPT ![me.task] = NoFiber]
  BY DEF FinishJob, me
<1>2. worker' \in [Worker -> WorkerState] /\ me'.at = "leave" /\ me'.fiber = me.fiber
  BY LeaveState DEF FinishJob, FiberInv
<1>3. fiberOf' \in [Task -> Fiber \cup {NoFiber}] /\ Owned' /\ Spare' /\ Accounted' /\ OnFiber'
  BY <1>1, <1>2, LetGo DEF FinishJob
<1>4. life' \in [Task -> {"new", "live", "gone"}]
  BY DEF FinishJob, FiberInv, TypeOK
<1>5. TypeOK'
  BY <1>2, <1>3, <1>4 DEF FinishJob, FiberInv, TypeOK
<1> QED
  BY <1>3, <1>5 DEF FiberInv

LEMMA FinishPollerStep ==
  ASSUME FiberInv, NEW t \in Task, FinishPoller(1, t)
  PROVE  FiberInv'
<1>1. me.at = "run" /\ me.task = t /\ fiberOf' = [fiberOf EXCEPT ![me.task] = NoFiber]
  BY DEF FinishPoller, me
<1>2. worker' \in [Worker -> WorkerState] /\ me'.at = "leave" /\ me'.fiber = me.fiber
  BY LeaveState DEF FinishPoller, FiberInv
<1>3. fiberOf' \in [Task -> Fiber \cup {NoFiber}] /\ Owned' /\ Spare' /\ Accounted' /\ OnFiber'
  BY <1>1, <1>2, LetGo DEF FinishPoller
<1>4. life' \in [Task -> {"new", "live", "gone"}]
  BY DEF FinishPoller, FiberInv, TypeOK
<1>5. queue' \in [Level -> Seq(Task)]
  BY PushedType DEF FinishPoller, FiberInv, TypeOK
<1>6. TypeOK'
  BY <1>2, <1>3, <1>4, <1>5 DEF FinishPoller, FiberInv, TypeOK
<1> QED
  BY <1>3, <1>6 DEF FiberInv

LEMMA NextStageType == ASSUME NEW t \in StageTask PROVE NextStage(t) \in StageTask /\ NextStage(t) \in Task
<1> DEFINE i == CHOOSE j \in DOMAIN Chain : Chain[j] = t
<1>1. i \in DOMAIN Chain
  BY DEF StageTask, ToSet
<1>2. /\ DOMAIN Chain = 1 .. Len(Chain) /\ Len(Chain) \in Nat
      /\ \A j \in DOMAIN Chain : Chain[j] \in StageTask /\ Chain[j] \in Task
  BY ConstantsAssumption, FiberFacts
<1>3. NextStage(t) = IF i = Len(Chain) THEN Chain[1] ELSE Chain[i + 1]
  BY DEF NextStage
<1> HIDE DEF i
<1>4. 1 \in DOMAIN Chain /\ (i # Len(Chain) => i + 1 \in DOMAIN Chain)
  BY <1>1, <1>2
<1> QED
  BY <1>2, <1>3, <1>4

LEMMA FinishStageStep ==
  ASSUME FiberInv, NEW t \in Task, FinishStage(1, t)
  PROVE  FiberInv'
<1>1. /\ me.at = "run" /\ me.task = t /\ t \in StageTask
      /\ fiberOf' = [fiberOf EXCEPT ![me.task] = NoFiber]
  BY DEF FinishStage, me
<1>2. /\ worker' \in [Worker -> WorkerState]
      /\ me'.at = "tick" /\ me'.level = 1 /\ me'.fiber = me.fiber
  <2>1. 1 \in Level
    BY DEF Level
  <2> QED
    BY <2>1, MeAtLevel DEF FinishStage, FiberInv
<1>3. fiberOf' \in [Task -> Fiber \cup {NoFiber}] /\ Owned' /\ Spare' /\ Accounted' /\ OnFiber'
  BY <1>1, <1>2, LetGo DEF FinishStage
<1>4. queue' \in [Level -> Seq(Task)]
  BY <1>1, PushedType, NextStageType DEF FinishStage, FiberInv, TypeOK
<1>5. TypeOK'
  BY <1>2, <1>3, <1>4 DEF FinishStage, FiberInv, TypeOK
<1> QED
  BY <1>3, <1>5 DEF FiberInv

-------------------------------------------------------------------------------
\* A fiber for a task that brings none: an old one, or there is one more than
\* there are tasks.
LEMMA AcquiredIsFree ==
  ASSUME FiberInv, me.at = "pop"
  PROVE  /\ Acquired \in Fiber
         /\ \A u \in Task : fiberOf[u] # Acquired
         /\ ~awaiter[Acquired]
         /\ pool # <<>> => Acquired = Head(pool) /\ Acquired \in ToSet(pool)
         /\ pool = <<>> => Acquired \notin alive
<1>1. pool \in Seq(Fiber) /\ IsInjective(pool) /\ alive \subseteq Fiber
  BY DEF FiberInv, TypeOK, Spare
<1>2. CASE pool # <<>>
  <2>1. Acquired = Head(pool) /\ Acquired \in ToSet(pool)
    BY <1>1, <1>2, TailOf DEF Acquired
  <2>2. Acquired \in Fiber
    BY <1>1, <2>1 DEF FiberInv, Spare
  <2>3. \A u \in Task : fiberOf[u] # Acquired
    BY <2>1, <2>2, FiberFacts DEF FiberInv, Owned
  <2> QED
    BY <1>2, <2>1, <2>2, <2>3 DEF FiberInv, Accounted
<1>3. CASE pool = <<>>
  <2>1. ToSet(pool) = {} /\ ~Leaving
    BY <1>3 DEF ToSet, Leaving
  <2>2. \E f \in Fiber : f \notin alive
    <3> SUFFICES ASSUME \A f \in Fiber : f \in alive PROVE FALSE
      OBVIOUS
    <3>1. \A f \in Fiber : \E u \in Task : fiberOf[u] = f /\ bound[f] = u
      BY <2>1, FiberFacts DEF FiberInv, Accounted, Owned
    <3>2. bound \in [Fiber -> Task]
      BY <3>1 DEF FiberInv, TypeOK
    <3>3. \A f, g \in Fiber : bound[f] = bound[g] => f = g
      BY <3>1
    <3>4. IsFiniteSet(Task) /\ Cardinality(Task) < Cardinality(Fiber)
      BY FiberFacts, ConstantsAssumption
    <3> QED
      BY <3>2, <3>3, <3>4, FiberFacts, FS_PigeonHole
  <2>3. Acquired \in Fiber /\ Acquired \notin alive
    BY <1>3, <2>2 DEF Acquired
  <2>4. \A u \in Task : fiberOf[u] # Acquired
    BY <2>3, FiberFacts DEF FiberInv, Owned
  <2> QED
    BY <1>3, <2>3, <2>4 DEF FiberInv, Accounted
<1> QED
  BY <1>2, <1>3

\* The worker takes a task and switches to its fiber.
LEMMA PopStep ==
  ASSUME FiberInv, Pop(1)
  PROVE  FiberInv'
<1> PICK l \in Level :
      /\ worker[1].at = "pop"
      /\ queue[l] # <<>>
      /\ LET t == Head(queue[l])
             f == IF fiberOf[t] = NoFiber THEN Acquired ELSE fiberOf[t]
             ready == awaiter[f] => t \in signal
         IN  /\ queue' = [queue EXCEPT ![l] = Tail(@)]
             /\ fiberOf' = [fiberOf EXCEPT ![t] = f]
             /\ bound' = [bound EXCEPT ![f] = IF fiberOf[t] = NoFiber THEN t ELSE @]
             /\ alive' = alive \cup {f}
             /\ pool' = IF fiberOf[t] = NoFiber /\ pool # <<>> THEN Tail(pool) ELSE pool
             /\ awaiter' = [awaiter EXCEPT ![f] = @ /\ ~ready]
             /\ worker' = [worker EXCEPT ![1] =
                  [at |-> IF ready THEN "run" ELSE "back", task |-> t, fiber |-> f, level |-> 0]]
      /\ UNCHANGED <<life, signal>>
  BY DEF Pop
<1> DEFINE t == Head(queue[l])
           f == IF fiberOf[t] = NoFiber THEN Acquired ELSE fiberOf[t]
           ready == awaiter[f] => t \in signal
           v == [at |-> IF ready THEN "run" ELSE "back", task |-> t, fiber |-> f, level |-> 0]
<1>1. /\ queue \in [Level -> Seq(Task)] /\ fiberOf \in [Task -> Fiber \cup {NoFiber}]
      /\ bound \in [Fiber -> Task \cup {NoTask}] /\ awaiter \in [Fiber -> BOOLEAN]
      /\ alive \subseteq Fiber /\ pool \in Seq(Fiber)
      /\ me.at = "pop" /\ ~Leaving
  BY DEF FiberInv, TypeOK, me, Leaving
<1>2. t \in Task /\ Tail(queue[l]) \in Seq(Task)
  BY <1>1
<1>3. f \in Fiber /\ f # NoFiber
  BY <1>1, <1>2, AcquiredIsFree, FiberFacts
<1>4. /\ queue' = [queue EXCEPT ![l] = Tail(queue[l])]
      /\ fiberOf' = [fiberOf EXCEPT ![t] = f]
      /\ bound' = [bound EXCEPT ![f] = IF fiberOf[t] = NoFiber THEN t ELSE bound[f]]
      /\ alive' = alive \cup {f}
      /\ pool' = IF fiberOf[t] = NoFiber /\ pool # <<>> THEN Tail(pool) ELSE pool
      /\ awaiter' = [awaiter EXCEPT ![f] = awaiter[f] /\ ~ready]
      /\ worker' = [worker EXCEPT ![1] = v]
      /\ UNCHANGED <<life, signal>>
  OBVIOUS
<1>5. /\ v \in WorkerState /\ v.at \in {"run", "back"} /\ v.task = t /\ v.fiber = f
      /\ v.at = "run" => ready
  BY <1>2, <1>3 DEF WorkerState, Level
<1> HIDE DEF v
<1>6. worker' \in [Worker -> WorkerState] /\ me' = v
  BY <1>4, <1>5, MeUpdate DEF FiberInv
\* Nobody else has the fiber.
<1>7. /\ \A u \in Task : u # t => fiberOf[u] # f
      /\ fiberOf[t] # NoFiber => fiberOf[t] = f /\ bound[f] = t /\ f \in alive /\ f \notin ToSet(pool)
  BY <1>1, <1>2, <1>3, AcquiredIsFree DEF FiberInv, Owned
<1>8. bound'[f] = t /\ fiberOf'[t] = f /\ f \in alive'
  BY <1>1, <1>2, <1>3, <1>4, <1>7
<1>9. /\ pool' \in Seq(Fiber) /\ IsInjective(pool') /\ Len(pool') <= PoolCapacity
      /\ f \notin ToSet(pool')
      /\ ToSet(pool') \subseteq ToSet(pool)
      /\ \A g \in ToSet(pool) : g \in ToSet(pool') \/ g = f
  <2>1. IsInjective(pool) /\ Len(pool) <= PoolCapacity
    BY DEF FiberInv, Spare
  <2>2. CASE fiberOf[t] = NoFiber /\ pool # <<>>
    <3>1. f = Head(pool) /\ pool' = Tail(pool)
      BY <1>1, <1>4, <2>2, AcquiredIsFree
    <3>2. Len(pool) \in Nat /\ PoolCapacity \in Nat
      BY <1>1, ConstantsAssumption
    <3>3. /\ Tail(pool) \in Seq(Fiber) /\ IsInjective(Tail(pool)) /\ Len(Tail(pool)) = Len(pool) - 1
          /\ ToSet(Tail(pool)) = ToSet(pool) \ {Head(pool)}
      BY <1>1, <2>1, <2>2, TailOf
    <3> HIDE DEF f
    <3>4. Len(pool') <= PoolCapacity
      BY <2>1, <3>1, <3>2, <3>3
    <3> QED
      BY <3>1, <3>3, <3>4
  <2>3. CASE fiberOf[t] # NoFiber
    BY <1>1, <1>4, <1>7, <2>1, <2>3
  <2>4. CASE fiberOf[t] = NoFiber /\ pool = <<>>
    <3>1. pool' = pool /\ ToSet(pool) = {}
      BY <1>4, <2>4 DEF ToSet
    <3> QED
      BY <1>1, <2>1, <3>1
  <2> QED
    BY <2>2, <2>3, <2>4
<1> HIDE DEF f, ready, t
<1>10. /\ \A u \in Task : u # t => fiberOf'[u] = fiberOf[u]
       /\ \A g \in Fiber : g # f => bound'[g] = bound[g] /\ awaiter'[g] = awaiter[g]
  BY <1>1, <1>4
<1>11. TypeOK'
  <2>1. queue' \in [Level -> Seq(Task)]
    BY <1>1, <1>2, <1>4
  <2>2. /\ fiberOf' \in [Task -> Fiber \cup {NoFiber}] /\ bound' \in [Fiber -> Task \cup {NoTask}]
        /\ awaiter' \in [Fiber -> BOOLEAN] /\ alive' \subseteq Fiber
    BY <1>1, <1>2, <1>3, <1>4 DEF ready
  <2> QED
    BY <1>4, <1>6, <1>9, <2>1, <2>2 DEF FiberInv, TypeOK
<1>12. Owned'
  <2> SUFFICES ASSUME NEW u \in Task, fiberOf'[u] # NoFiber
               PROVE  /\ bound'[fiberOf'[u]] = u /\ fiberOf'[u] \in alive' /\ fiberOf'[u] \notin ToSet(pool')
    BY DEF Owned
  <2>1. CASE u = t
    BY <1>8, <1>9, <2>1
  <2>2. CASE u # t
    <3>1. /\ fiberOf'[u] = fiberOf[u] /\ fiberOf[u] \in Fiber /\ fiberOf[u] # f
          /\ bound[fiberOf[u]] = u /\ fiberOf[u] \in alive /\ fiberOf[u] \notin ToSet(pool)
      BY <1>1, <1>7, <1>10, <2>2 DEF FiberInv, Owned
    <3> QED
      BY <1>4, <1>9, <1>10, <3>1
  <2> QED
    BY <2>1, <2>2
<1>13. Spare'
  <2> SUFFICES ASSUME NEW g \in ToSet(pool') PROVE g \in alive' /\ bound'[g] = NoTask
    BY <1>9 DEF Spare
  <2>1. g \in ToSet(pool) /\ g # f /\ g \in alive /\ g \in Fiber /\ bound[g] = NoTask
    BY <1>1, <1>9 DEF FiberInv, Spare
  <2> QED
    BY <1>4, <1>10, <2>1
<1>14. Accounted'
  <2>1. ASSUME NEW g \in Fiber, \E u \in Task : fiberOf[u] = g PROVE \E u \in Task : fiberOf'[u] = g
    <3>1. PICK u \in Task : fiberOf[u] = g /\ g # NoFiber
      BY <2>1, FiberFacts
    <3>2. CASE u = t
      BY <1>2, <1>7, <1>8, <3>1, <3>2
    <3>3. CASE u # t
      BY <1>10, <3>1, <3>3
    <3> QED
      BY <3>2, <3>3
  <2>2. ASSUME NEW g \in alive' PROVE g \in ToSet(pool') \/ \E u \in Task : fiberOf'[u] = g
    <3>1. CASE g = f
      BY <1>2, <1>8, <3>1
    <3>2. CASE g # f
      <4>1. g \in alive /\ g \in Fiber
        BY <1>1, <1>4, <2>2, <3>2
      <4>2. g \in ToSet(pool) \/ \E u \in Task : fiberOf[u] = g
        BY <1>1, <4>1 DEF FiberInv, Accounted
      <4> QED
        BY <1>9, <2>1, <3>2, <4>1, <4>2
    <3> QED
      BY <3>1, <3>2
  <2>3. ASSUME NEW g \in Fiber, awaiter'[g] PROVE \E u \in Task : fiberOf'[u] = g
    <3>1. CASE g = f
      BY <1>2, <1>8, <3>1
    <3>2. CASE g # f
      BY <1>10, <2>1, <2>3, <3>2 DEF FiberInv, Accounted
    <3> QED
      BY <3>1, <3>2
  <2> QED
    BY <2>2, <2>3 DEF Accounted
<1>15. OnFiber'
  <2>1. ready => ~awaiter'[f]
    <3> DEFINE b == awaiter[f] /\ ~ready
    <3>1. awaiter' = [awaiter EXCEPT ![f] = b]
      BY <1>4
    <3>2. ready => ~b
      OBVIOUS
    <3> HIDE DEF b
    <3>3. awaiter'[f] = b
      BY <1>1, <1>3, <3>1
    <3> QED
      BY <3>2, <3>3
  <2> QED
    BY <1>2, <1>3, <1>5, <1>6, <1>8, <2>1 DEF OnFiber, Leaving
<1> QED
  BY <1>11, <1>12, <1>13, <1>14, <1>15 DEF FiberInv

\* The fiber goes back to the pool, or is destroyed.
LEMMA LeaveStep ==
  ASSUME FiberInv, Leave(1)
  PROVE  FiberInv'
<1> DEFINE f == me.fiber
           kept == Len(pool) < PoolCapacity
<1>1. /\ me.at = "leave"
      /\ bound' = [bound EXCEPT ![f] = NoTask]
      /\ pool' = IF kept THEN Append(pool, f) ELSE pool
      /\ alive' = IF kept THEN alive ELSE alive \ {f}
      /\ worker' = [worker EXCEPT ![1] = Idle]
      /\ UNCHANGED <<queue, life, fiberOf, awaiter, signal>>
  BY DEF Leave, me
<1>2. /\ f # NoFiber /\ f \in alive /\ f \notin ToSet(pool) /\ \A t \in Task : fiberOf[t] # f
      /\ alive \subseteq Fiber /\ f \in Fiber /\ pool \in Seq(Fiber) /\ IsInjective(pool)
      /\ Len(pool) <= PoolCapacity /\ fiberOf \in [Task -> Fiber \cup {NoFiber}]
      /\ bound \in [Fiber -> Task \cup {NoTask}]
  BY <1>1 DEF FiberInv, OnFiber, Leaving, TypeOK, Spare
<1>3. worker' \in [Worker -> WorkerState] /\ me' = Idle
  BY <1>1, IdleState, MeUpdate DEF FiberInv
<1> HIDE DEF f
<1>4. /\ pool' \in Seq(Fiber) /\ IsInjective(pool') /\ Len(pool') <= PoolCapacity
      /\ ToSet(pool') = IF kept THEN ToSet(pool) \cup {f} ELSE ToSet(pool)
  <2>1. CASE kept
    <3>1. pool' = Append(pool, f)
      BY <1>1, <2>1
    <3>2. Len(pool) \in Nat /\ PoolCapacity \in Nat
      BY <1>2, ConstantsAssumption
    <3>3. /\ Append(pool, f) \in Seq(Fiber) /\ Len(Append(pool, f)) = Len(pool) + 1
          /\ ToSet(Append(pool, f)) = ToSet(pool) \cup {f} /\ IsInjective(Append(pool, f))
      BY <1>2, AppendOf
    <3>4. Len(pool') <= PoolCapacity
      BY <2>1, <3>1, <3>2, <3>3
    <3> QED
      BY <2>1, <3>1, <3>3, <3>4
  <2>2. CASE ~kept
    BY <1>1, <1>2, <2>2
  <2> QED
    BY <2>1, <2>2
<1> HIDE DEF kept
<1>5. bound'[f] = NoTask /\ \A g \in Fiber : g # f => bound'[g] = bound[g]
  BY <1>1, <1>2
<1>6. TypeOK'
  <2>1. bound' \in [Fiber -> Task \cup {NoTask}] /\ alive' \subseteq Fiber
    BY <1>1, <1>2
  <2> QED
    BY <1>1, <1>3, <1>4, <2>1 DEF FiberInv, TypeOK
<1>7. Owned'
  <2> SUFFICES ASSUME NEW u \in Task, fiberOf[u] # NoFiber
               PROVE  /\ bound'[fiberOf[u]] = u /\ fiberOf[u] \in alive' /\ fiberOf[u] \notin ToSet(pool')
    BY <1>1 DEF Owned
  <2>1. /\ fiberOf[u] \in Fiber /\ fiberOf[u] # f /\ bound[fiberOf[u]] = u
        /\ fiberOf[u] \in alive /\ fiberOf[u] \notin ToSet(pool)
    BY <1>2 DEF FiberInv, Owned
  <2> QED
    BY <1>1, <1>4, <1>5, <2>1
<1>8. Spare'
  <2> SUFFICES ASSUME NEW g \in ToSet(pool') PROVE g \in alive' /\ bound'[g] = NoTask
    BY <1>4 DEF Spare
  <2>1. CASE g = f
    BY <1>1, <1>2, <1>4, <1>5, <2>1
  <2>2. CASE g # f
    <3>1. g \in ToSet(pool) /\ g \in alive /\ g \in Fiber /\ bound[g] = NoTask
      BY <1>2, <1>4, <2>2 DEF FiberInv, Spare
    <3> QED
      BY <1>1, <1>5, <2>2, <3>1
  <2> QED
    BY <2>1, <2>2
<1>9. Accounted'
  <2>1. ASSUME NEW g \in alive' PROVE g \in ToSet(pool') \/ \E t \in Task : fiberOf[t] = g
    <3>1. CASE g = f
      BY <1>1, <1>4, <2>1, <3>1
    <3>2. CASE g # f
      BY <1>1, <1>4, <2>1, <3>2 DEF FiberInv, Accounted, f
    <3> QED
      BY <3>1, <3>2
  <2> QED
    BY <1>1, <2>1 DEF FiberInv, Accounted
<1>10. OnFiber'
  BY <1>3 DEF OnFiber, Leaving, Idle
<1> QED
  BY <1>6, <1>7, <1>8, <1>9, <1>10 DEF FiberInv
-------------------------------------------------------------------------------
LEMMA FiberStep ==
  ASSUME FiberInv, [Next]_vars
  PROVE  FiberInv'
<1>1. ASSUME NEW t \in Job \cup Poller, Exec(t) PROVE FiberInv'
  BY <1>1, ExecStep, FiberFacts
<1>2. ASSUME NEW t \in Awaits, SetSignal(t) PROVE FiberInv'
  BY <1>2, SignalStep
<1>3. ASSUME NEW w \in Worker,
             Pop(w) \/ Yield(w) \/ Await(w) \/ Requeue(w) \/ Raise(w) \/ Leave(w)
      PROVE  FiberInv'
  <2>1. w = 1
    BY DEF Worker
  <2> QED
    BY <1>3, <2>1, PopStep, YieldStep, AwaitStep, RequeueStep, RaiseStep, LeaveStep
<1>4. ASSUME NEW w \in Worker, NEW t \in Task, Finish(w, t) PROVE FiberInv'
  <2>1. w = 1
    BY DEF Worker
  <2> QED
    BY <1>4, <2>1, FinishJobStep, FinishPollerStep, FinishStageStep DEF Finish
<1>5. CASE UNCHANGED vars
  BY <1>5 DEF vars, FiberInv, TypeOK, Owned, Spare, Accounted, OnFiber, Leaving, me
<1> QED
  BY <1>1, <1>2, <1>3, <1>4, <1>5 DEF Next

LEMMA FiberAlways == Spec => []FiberInv
BY FiberInitially, FiberStep, PTL DEF Spec

\* In every reachable state every variable of the Schedule has its type: nothing
\* but tasks is in the fifos, and the raising of fifos stays within them.
THEOREM ScheduleTypeCorrect == Spec => []TypeOK
<1>1. FiberInv => TypeOK
  BY DEF FiberInv
<1> QED
  BY <1>1, FiberAlways, PTL

\* A sequence without repetition has as many elements as it is long.
LEMMA LenOfInjective ==
  ASSUME NEW S, NEW s \in Seq(S), IsInjective(s)
  PROVE  Len(s) = Cardinality(ToSet(s))
<1>1. DOMAIN s = 1 .. Len(s) /\ Len(s) \in Nat
  OBVIOUS
<1>2. s \in [1 .. Len(s) -> ToSet(s)]
  BY <1>1 DEF ToSet
<1>3. s \in Surjection(1 .. Len(s), ToSet(s))
  BY <1>1, <1>2 DEF Surjection, ToSet
<1>4. s \in Injection(1 .. Len(s), ToSet(s))
  BY <1>1, <1>2 DEF IsInjective, Injection, IsInjective
<1>5. IsFiniteSet(1 .. Len(s)) /\ Cardinality(1 .. Len(s)) = Len(s)
  BY <1>1, FS_Interval
<1> QED
  BY <1>3, <1>4, <1>5, FS_Surjection

\* Every fiber has one owner, for any number of tasks and any size of the pool:
\* the pool, the task it is bound to, or the worker that is about to release it.
THEOREM FibersTheorem == Spec => []FibersOwned
<1>1. FiberInv => FibersOwned
  <2> SUFFICES ASSUME FiberInv PROVE FibersOwned
    OBVIOUS
  <2> DEFINE spare == ToSet(pool)
             owned == {f \in Fiber : \E t \in Task : fiberOf[t] = f}
             leaving == {worker[w].fiber : w \in {v \in Worker : worker[v].at \in {"tick", "leave"}}}
  <2>1. /\ fiberOf \in [Task -> Fiber \cup {NoFiber}] /\ alive \subseteq Fiber
        /\ pool \in Seq(Fiber) /\ IsInjective(pool) /\ Len(pool) <= PoolCapacity
        /\ NoFiber \notin Fiber
    BY FiberFacts DEF FiberInv, TypeOK, Spare
  <2>2. leaving = IF Leaving THEN {me.fiber} ELSE {}
    BY DEF Worker, Leaving, me
  <2> HIDE DEF leaving
  <2>3. \A f \in spare : f \in alive /\ f \in Fiber /\ bound[f] = NoTask
    BY <2>1 DEF FiberInv, Spare
  <2>4. \A t \in Task : fiberOf[t] # NoFiber =>
          fiberOf[t] \in alive /\ bound[fiberOf[t]] = t /\ fiberOf[t] \notin spare
    BY DEF FiberInv, Owned
  <2>5. \A f \in leaving : f \in alive /\ f \notin spare /\ f \notin owned /\ Leaving /\ f = me.fiber
    BY <2>2 DEF FiberInv, OnFiber
  <2>6. \A f \in owned : f \in alive /\ f \notin spare
    BY <2>1, <2>4
  <2>7. alive = spare \cup owned \cup leaving
    <3>1. \A f \in alive : f \in spare \/ f \in owned \/ f \in leaving
      BY <2>1, <2>2 DEF FiberInv, Accounted
    <3> HIDE DEF owned, spare
    <3> QED
      BY <2>3, <2>5, <2>6, <3>1
  <2>8. \A f \in Fiber : awaiter[f] => f \in owned
    BY DEF FiberInv, Accounted
  <2>9. \A f \in spare \cup leaving : ~awaiter[f]
    <3> HIDE DEF owned, spare
    <3> QED
      BY <2>1, <2>3, <2>5, <2>6, <2>8
  <2>10. Len(pool) = Cardinality(spare)
    BY <2>1, LenOfInjective
  <2>11. spare \cap (owned \cup leaving) = {} /\ owned \cap leaving = {}
    <3> HIDE DEF owned, spare
    <3> QED
      BY <2>5, <2>6
  <2> HIDE DEF spare, owned
  <2>12. \A f \in spare : bound[f] = NoTask /\ ~awaiter[f]
    BY <2>3, <2>9
  <2>13. \A t \in Task : fiberOf[t] # NoFiber => bound[fiberOf[t]] = t
    BY <2>4
  <2>14. \A f \in leaving : ~awaiter[f]
    BY <2>9
  <2> QED
    BY <2>1, <2>7, <2>10, <2>11, <2>12, <2>13, <2>14 DEF FibersOwned, spare, owned, leaving
<1> QED
  BY <1>1, FiberAlways, PTL
-------------------------------------------------------------------------------
\* The stage tasks take turns and count as one; every other task is its own kin.
Kin(t) == IF t \in StageTask THEN StageTask ELSE {t}

Held(t) == me.at \in {"run", "back"} /\ me.task = t

Queued(t) == \E l \in Level : \E i \in 1 .. Len(queue[l]) : queue[l][i] = t

\* No two of a kin are queued, and none is while another is held by the worker.
Exclusive ==
    /\ \A l, k \in Level : \A i \in 1 .. Len(queue[l]), j \in 1 .. Len(queue[k]) :
          queue[k][j] \in Kin(queue[l][i]) => l = k /\ i = j
    /\ \A t, u \in Task : Held(t) /\ u \in Kin(t) => ~Queued(u)

\* Who is live is somewhere, or another of its kin is; who is not is nowhere.
Present ==
    /\ \A t \in StageTask : life[t] = "live"
    /\ \A t \in Task :
          life[t] = "live" <=> \E u \in Kin(t) : Queued(u) \/ Held(u)

\* Fifos are only raised: a task waits at the priority of its mask or at a higher one.
Raised == \A t \in Task, l \in Level : \A i \in 1 .. Len(queue[l]) :
             queue[l][i] = t => l <= maskToPriority(MaskOf[t])

PlaceInv == Exclusive /\ Present /\ Raised

LEMMA KinFacts ==
  ASSUME NEW t \in Task, NEW u \in Task
  PROVE  /\ t \in Kin(t) /\ Kin(t) \subseteq Task
         /\ u \in Kin(t) <=> t \in Kin(u)
         /\ u \in Kin(t) => Kin(u) = Kin(t)
BY FiberFacts DEF Kin

\* Where the tasks are after a push, after a pop, and after a fifo has been raised.
LEMMA PushPlaces ==
  ASSUME queue \in [Level -> Seq(Task)], NEW t \in Task, NEW l \in Level
  PROVE  LET p == maskToPriority(MaskOf[t])
             n == Len(queue[p])
         IN  /\ Pushed(t) \in [Level -> Seq(Task)]
             /\ l # p => Pushed(t)[l] = queue[l]
             /\ p \in Level /\ n \in Nat
             /\ Len(Pushed(t)[p]) = n + 1 /\ Pushed(t)[p][n + 1] = t
             /\ \A i \in 1 .. n : Pushed(t)[p][i] = queue[p][i]
<1> DEFINE p == maskToPriority(MaskOf[t])
<1>1. p \in Level
  BY LevelOf
<1>2. Pushed(t) = [queue EXCEPT ![p] = Append(queue[p], t)]
  BY DEF Pushed
<1> HIDE DEF p
<1> DEFINE s == queue[p]
<1>3. s \in Seq(Task)
  BY <1>1
<1> HIDE DEF s
<1>4. /\ Append(s, t) \in Seq(Task) /\ Len(s) \in Nat /\ Len(Append(s, t)) = Len(s) + 1
      /\ Append(s, t)[Len(s) + 1] = t
      /\ \A i \in 1 .. Len(s) : Append(s, t)[i] = s[i]
  BY <1>3
<1>5. /\ Pushed(t) \in [Level -> Seq(Task)] /\ Pushed(t)[p] = Append(s, t)
      /\ l # p => Pushed(t)[l] = queue[l]
  BY <1>1, <1>2, <1>4 DEF s
<1> QED
  BY <1>1, <1>4, <1>5 DEF s, p

LEMMA PopPlaces ==
  ASSUME queue \in [Level -> Seq(Task)], NEW l \in Level, queue[l] # <<>>,
         queue' = [queue EXCEPT ![l] = Tail(queue[l])]
  PROVE  /\ queue' \in [Level -> Seq(Task)]
         /\ \A k \in Level : k # l => queue'[k] = queue[k]
         /\ Len(queue[l]) \in Nat /\ Len(queue[l]) >= 1 /\ Len(queue'[l]) = Len(queue[l]) - 1
         /\ Head(queue[l]) = queue[l][1]
         /\ \A i \in 1 .. Len(queue[l]) - 1 : queue'[l][i] = queue[l][i + 1]
<1> DEFINE s == queue[l]
<1>1. s \in Seq(Task) /\ s # <<>>
  OBVIOUS
<1> HIDE DEF s
<1>2. /\ Tail(s) \in Seq(Task) /\ Len(s) \in Nat /\ Len(s) >= 1 /\ Len(Tail(s)) = Len(s) - 1
      /\ Head(s) = s[1] /\ \A i \in 1 .. Len(s) - 1 : Tail(s)[i] = s[i + 1]
  BY <1>1
<1>3. /\ queue' \in [Level -> Seq(Task)] /\ queue'[l] = Tail(s)
      /\ \A k \in Level : k # l => queue'[k] = queue[k]
  BY <1>2 DEF s
<1> QED
  BY <1>2, <1>3 DEF s

LEMMA RaisePlaces ==
  ASSUME queue \in [Level -> Seq(Task)], NEW l \in 1 .. 3,
         queue' = [queue EXCEPT ![l - 1] = @ \o queue[l], ![l] = <<>>]
  PROVE  LET n == Len(queue[l - 1])
             m == Len(queue[l])
         IN  /\ queue' \in [Level -> Seq(Task)]
             /\ l \in Level /\ l - 1 \in Level
             /\ \A k \in Level : k # l /\ k # l - 1 => queue'[k] = queue[k]
             /\ queue'[l] = <<>>
             /\ n \in Nat /\ m \in Nat /\ Len(queue'[l - 1]) = n + m
             /\ \A i \in 1 .. n : queue'[l - 1][i] = queue[l - 1][i]
             /\ \A i \in 1 .. m : queue'[l - 1][n + i] = queue[l][i]
<1>1. l \in Level /\ l - 1 \in Level /\ l # l - 1
  BY DEF Level
<1> DEFINE a == queue[l - 1]
           b == queue[l]
<1>2. a \in Seq(Task) /\ b \in Seq(Task)
  BY <1>1
<1> DEFINE raised == [queue EXCEPT ![l - 1] = a \o b]
<1>3. queue' = [raised EXCEPT ![l] = <<>>]
  BY <1>1
<1> HIDE DEF a, b
<1>4. /\ <<>> \in Seq(Task) /\ a \o b \in Seq(Task) /\ Len(a) \in Nat /\ Len(b) \in Nat /\ Len(a \o b) = Len(a) + Len(b)
      /\ \A i \in 1 .. Len(a) : (a \o b)[i] = a[i]
      /\ \A i \in 1 .. Len(b) : (a \o b)[Len(a) + i] = b[i]
  BY <1>2
<1>5. /\ raised \in [Level -> Seq(Task)] /\ raised[l - 1] = a \o b
      /\ \A k \in Level : k # l - 1 => raised[k] = queue[k]
  BY <1>1, <1>4
<1> HIDE DEF raised
<1>6. /\ queue' \in [Level -> Seq(Task)] /\ queue'[l] = <<>>
      /\ \A k \in Level : k # l => queue'[k] = raised[k]
  BY <1>1, <1>3, <1>4, <1>5
<1>7. queue'[l - 1] = a \o b
  BY <1>1, <1>5, <1>6
<1> QED
  BY <1>1, <1>4, <1>5, <1>6, <1>7 DEF a, b

-------------------------------------------------------------------------------
\* A task is pushed of whose kin none is queued, or held any longer.
LEMMA PushKept ==
  ASSUME queue \in [Level -> Seq(Task)], Exclusive, Raised,
         NEW t \in Task, queue' = Pushed(t),
         \A u \in Kin(t) : ~Queued(u) /\ ~Held(u)',
         \A v \in Task : Held(v)' => Held(v)
  PROVE  Exclusive' /\ Raised' /\ \A v \in Task : Queued(v)' <=> (Queued(v) \/ v = t)
<1> DEFINE p == maskToPriority(MaskOf[t])
           n == Len(queue[p])
<1>1. /\ p \in Level /\ n \in Nat /\ queue' \in [Level -> Seq(Task)]
      /\ Len(queue'[p]) = n + 1 /\ queue'[p][n + 1] = t
      /\ \A i \in 1 .. n : queue'[p][i] = queue[p][i]
      /\ \A l \in Level : l # p => queue'[l] = queue[l]
  <2>1. p \in Level
    BY LevelOf
  <2> QED
    BY <2>1, PushPlaces
<1>2. \A l \in Level : \A i \in 1 .. Len(queue[l]) : queue[l][i] \in Task
  OBVIOUS
\* Every place is an old one, or the new one at the end.
<1>3. ASSUME NEW l \in Level, NEW i \in 1 .. Len(queue'[l])
      PROVE  \/ i \in 1 .. Len(queue[l]) /\ queue'[l][i] = queue[l][i]
             \/ l = p /\ i = n + 1 /\ queue'[l][i] = t
  <2>1. CASE l # p
    BY <1>1, <2>1
  <2>2. CASE l = p
    <3>1. i \in 1 .. n \/ i = n + 1
      BY <1>1, <2>2
    <3> QED
      BY <1>1, <2>2, <3>1
  <2> QED
    BY <2>1, <2>2
<1>4. \A l \in Level : \A i \in 1 .. Len(queue[l]) : i \in 1 .. Len(queue'[l]) /\ queue'[l][i] = queue[l][i]
  <2> SUFFICES ASSUME NEW l \in Level, NEW i \in 1 .. Len(queue[l])
               PROVE  i \in 1 .. Len(queue'[l]) /\ queue'[l][i] = queue[l][i]
    OBVIOUS
  <2>1. CASE l # p
    BY <1>1, <2>1
  <2>2. CASE l = p
    BY <1>1, <2>2
  <2> QED
    BY <2>1, <2>2
<1> HIDE DEF p, n
<1>5. ASSUME NEW v \in Task PROVE Queued(v)' <=> (Queued(v) \/ v = t)
  <2>1. ASSUME Queued(v)' PROVE Queued(v) \/ v = t
    BY <1>3, <2>1 DEF Queued
  <2>2. ASSUME Queued(v) PROVE Queued(v)'
    BY <1>4, <2>2 DEF Queued
  <2>3. Queued(t)'
    <3>1. n + 1 \in 1 .. Len(queue'[p])
      BY <1>1
    <3> QED
      BY <1>1, <3>1 DEF Queued
  <2> QED
    BY <2>1, <2>2, <2>3
<1>6. Exclusive'
  <2>1. ASSUME NEW l \in Level, NEW k \in Level, NEW i \in 1 .. Len(queue'[l]), NEW j \in 1 .. Len(queue'[k]),
               queue'[k][j] \in Kin(queue'[l][i])
        PROVE  l = k /\ i = j
    <3>1. CASE i \in 1 .. Len(queue[l]) /\ queue'[l][i] = queue[l][i] /\ j \in 1 .. Len(queue[k]) /\ queue'[k][j] = queue[k][j]
      BY <2>1, <3>1 DEF Exclusive
    <3>2. CASE i \in 1 .. Len(queue[l]) /\ queue'[l][i] = queue[l][i] /\ queue'[k][j] = t
      <4>1. queue[l][i] \in Task /\ Queued(queue[l][i])
        BY <1>2, <3>2 DEF Queued
      <4>2. queue[l][i] \in Kin(t)
        BY <2>1, <3>2, <4>1, KinFacts
      <4> QED
        BY <4>1, <4>2
    <3>3. CASE j \in 1 .. Len(queue[k]) /\ queue'[k][j] = queue[k][j] /\ queue'[l][i] = t
      <4>1. queue[k][j] \in Task /\ Queued(queue[k][j])
        BY <1>2, <3>3 DEF Queued
      <4> QED
        BY <2>1, <3>3, <4>1
    <3> QED
      BY <1>3, <3>1, <3>2, <3>3
  <2>2. ASSUME NEW v \in Task, NEW u \in Task, Held(v)', u \in Kin(v) PROVE ~Queued(u)'
    <3>1. Held(v) /\ ~Queued(u)
      BY <2>2 DEF Exclusive
    <3>2. u # t
      BY <2>2, KinFacts
    <3> QED
      BY <1>5, <3>1, <3>2
  <2> QED
    BY <2>1, <2>2 DEF Exclusive
<1>7. Raised'
  <2> SUFFICES ASSUME NEW v \in Task, NEW l \in Level, NEW i \in 1 .. Len(queue'[l]), queue'[l][i] = v
               PROVE  l <= maskToPriority(MaskOf[v])
    BY DEF Raised
  <2>1. CASE i \in 1 .. Len(queue[l]) /\ queue'[l][i] = queue[l][i]
    BY <2>1 DEF Raised
  <2>2. CASE l = p /\ v = t
    BY <1>1, <2>2 DEF p, Level
  <2> QED
    BY <1>3, <2>1, <2>2
<1> QED
  BY <1>5, <1>6, <1>7

\* The first task of a fifo is popped.
LEMMA PopKept ==
  ASSUME queue \in [Level -> Seq(Task)], Exclusive, Raised,
         NEW l \in Level, queue[l] # <<>>, queue' = [queue EXCEPT ![l] = Tail(queue[l])],
         NEW t \in Task, t = Head(queue[l]),
         \A v \in Task : Held(v)' => v = t
  PROVE  Exclusive' /\ Raised' /\ Queued(t) /\ \A v \in Task : Queued(v)' <=> (Queued(v) /\ v # t)
<1> DEFINE n == Len(queue[l])
<1>1. /\ queue' \in [Level -> Seq(Task)] /\ n \in Nat /\ n >= 1 /\ Len(queue'[l]) = n - 1
      /\ queue[l][1] = t
      /\ \A i \in 1 .. n - 1 : queue'[l][i] = queue[l][i + 1]
      /\ \A k \in Level : k # l => queue'[k] = queue[k]
  BY PopPlaces
<1>2. ASSUME NEW k \in Level, NEW j \in 1 .. Len(queue'[k])
      PROVE  LET i == IF k = l THEN j + 1 ELSE j
             IN  i \in 1 .. Len(queue[k]) /\ queue'[k][j] = queue[k][i]
  <2>1. CASE k = l
    BY <1>1, <2>1
  <2>2. CASE k # l
    BY <1>1, <2>2
  <2> QED
    BY <2>1, <2>2
<1>3. ASSUME NEW k \in Level, NEW i \in 1 .. Len(queue[k])
      PROVE  \/ k = l /\ i = 1 /\ queue[k][i] = t
             \/ \E j \in 1 .. Len(queue'[k]) : queue'[k][j] = queue[k][i]
  <2>1. CASE k # l
    BY <1>1, <2>1
  <2>2. CASE k = l /\ i # 1
    <3>1. i - 1 \in 1 .. n - 1 /\ (i - 1) + 1 = i
      BY <1>1, <2>2
    <3>2. i - 1 \in 1 .. Len(queue'[k]) /\ queue'[k][i - 1] = queue[k][i]
      BY <1>1, <2>2, <3>1
    <3> QED
      BY <3>2
  <2>3. CASE k = l /\ i = 1
    BY <1>1, <2>3
  <2> QED
    BY <2>1, <2>2, <2>3
<1>4. Queued(t)
  BY <1>1 DEF Queued
\* The task was queued once, and is not any more.
<1>5. ASSUME NEW k \in Level, NEW j \in 1 .. Len(queue'[k]) PROVE queue'[k][j] \notin Kin(t)
  <2> DEFINE i == IF k = l THEN j + 1 ELSE j
  <2>1. i \in 1 .. Len(queue[k]) /\ queue'[k][j] = queue[k][i]
    BY <1>2
  <2>2. 1 \in 1 .. Len(queue[l])
    BY <1>1
  <2>3. k = l => i # 1
    OBVIOUS
  <2> HIDE DEF i
  <2> QED
    BY <1>1, <2>1, <2>2, <2>3 DEF Exclusive
<1>6. ASSUME NEW v \in Task PROVE Queued(v)' <=> (Queued(v) /\ v # t)
  <2>1. ASSUME Queued(v)' PROVE Queued(v) /\ v # t
    <3>1. PICK k \in Level : \E j \in 1 .. Len(queue'[k]) : queue'[k][j] = v
      BY <2>1 DEF Queued
    <3>2. Queued(v)
      BY <1>2, <3>1 DEF Queued
    <3>3. v \notin Kin(t)
      BY <1>5, <3>1
    <3> QED
      BY <3>2, <3>3, KinFacts
  <2>2. ASSUME Queued(v), v # t PROVE Queued(v)'
    <3>1. PICK k \in Level, i \in Nat : i \in 1 .. Len(queue[k]) /\ queue[k][i] = v
      BY <2>2 DEF Queued
    <3>2. \E j \in 1 .. Len(queue'[k]) : queue'[k][j] = v
      BY <1>3, <2>2, <3>1
    <3> QED
      BY <3>2 DEF Queued
  <2> QED
    BY <2>1, <2>2
<1>7. Exclusive'
  <2>1. ASSUME NEW a \in Level, NEW k \in Level, NEW i \in 1 .. Len(queue'[a]), NEW j \in 1 .. Len(queue'[k]),
               queue'[k][j] \in Kin(queue'[a][i])
        PROVE  a = k /\ i = j
    <3> DEFINE i0 == IF a = l THEN i + 1 ELSE i
               j0 == IF k = l THEN j + 1 ELSE j
    <3>1. i0 \in 1 .. Len(queue[a]) /\ queue'[a][i] = queue[a][i0]
      BY <1>2
    <3>2. j0 \in 1 .. Len(queue[k]) /\ queue'[k][j] = queue[k][j0]
      BY <1>2
    <3>3. a = k /\ i0 = j0
      <4> HIDE DEF i0, j0
      <4> QED
        BY <2>1, <3>1, <3>2 DEF Exclusive
    <3> QED
      BY <3>3
  <2>2. ASSUME NEW v \in Task, NEW u \in Task, Held(v)', u \in Kin(v) PROVE ~Queued(u)'
    BY <1>5, <2>2 DEF Queued
  <2> QED
    BY <2>1, <2>2 DEF Exclusive
<1>8. Raised'
  <2> SUFFICES ASSUME NEW v \in Task, NEW k \in Level, NEW j \in 1 .. Len(queue'[k]), queue'[k][j] = v
               PROVE  k <= maskToPriority(MaskOf[v])
    BY DEF Raised
  <2>1. \E i \in 1 .. Len(queue[k]) : queue[k][i] = v
    BY <1>2
  <2> QED
    BY <2>1 DEF Raised
<1> QED
  BY <1>4, <1>6, <1>7, <1>8

\* A fifo of m tasks is appended to the one above it, of n.
RaisedInto(l, n, m) ==
    /\ queue \in [Level -> Seq(Task)] /\ l \in Level /\ l - 1 \in Level
    /\ n = Len(queue[l - 1]) /\ m = Len(queue[l])
    /\ \A k \in Level : k # l /\ k # l - 1 => queue'[k] = queue[k]
    /\ Len(queue'[l]) = 0 /\ Len(queue'[l - 1]) = n + m
    /\ \A i \in 1 .. n : queue'[l - 1][i] = queue[l - 1][i]
    /\ \A i \in 1 .. m : queue'[l - 1][n + i] = queue[l][i]

LEMMA RaisedPlaces ==
  ASSUME queue \in [Level -> Seq(Task)], NEW l \in 1 .. 3,
         queue' = [queue EXCEPT ![l - 1] = @ \o queue[l], ![l] = <<>>]
  PROVE  \E n, m \in Nat : RaisedInto(l, n, m)
<1> DEFINE n == Len(queue[l - 1])
           m == Len(queue[l])
<1>1. /\ l \in Level /\ l - 1 \in Level /\ n \in Nat /\ m \in Nat
      /\ \A k \in Level : k # l /\ k # l - 1 => queue'[k] = queue[k]
      /\ queue'[l] = <<>> /\ Len(queue'[l - 1]) = n + m
      /\ \A i \in 1 .. n : queue'[l - 1][i] = queue[l - 1][i]
      /\ \A i \in 1 .. m : queue'[l - 1][n + i] = queue[l][i]
  BY RaisePlaces
<1>2. Len(queue'[l]) = 0
  BY <1>1
<1>3. queue \in [Level -> Seq(Task)]
  OBVIOUS
<1>4. RaisedInto(l, n, m)
  BY ONLY <1>1, <1>2, <1>3 DEF RaisedInto
<1> QED
  BY <1>1, <1>4

\* Where every place comes from and goes.
LEMMA RaiseMoves ==
  ASSUME NEW l \in 1 .. 3, NEW n \in Nat, NEW m \in Nat, RaisedInto(l, n, m)
  PROVE  /\ \A k \in Level : \A j \in 1 .. Len(queue'[k]) :
               LET k0 == IF k = l - 1 /\ j > n THEN l ELSE k
                   j0 == IF k = l - 1 /\ j > n THEN j - n ELSE j
               IN  k0 \in Level /\ j0 \in 1 .. Len(queue[k0]) /\ queue'[k][j] = queue[k0][j0] /\ k <= k0 /\ k # l
         /\ \A k \in Level : \A i \in 1 .. Len(queue[k]) :
               LET k1 == IF k = l THEN l - 1 ELSE k
                   i1 == IF k = l THEN n + i ELSE i
               IN  k1 \in Level /\ i1 \in 1 .. Len(queue'[k1]) /\ queue'[k1][i1] = queue[k][i]
         /\ \A v \in Task : Queued(v)' <=> Queued(v)
<1>1. /\ l # l - 1 /\ queue \in [Level -> Seq(Task)] /\ l \in Level /\ l - 1 \in Level
      /\ n = Len(queue[l - 1]) /\ m = Len(queue[l])
      /\ \A k \in Level : k # l /\ k # l - 1 => queue'[k] = queue[k]
      /\ Len(queue'[l]) = 0 /\ Len(queue'[l - 1]) = n + m
      /\ \A i \in 1 .. n : queue'[l - 1][i] = queue[l - 1][i]
      /\ \A i \in 1 .. m : queue'[l - 1][n + i] = queue[l][i]
  BY DEF RaisedInto
<1>2. ASSUME NEW k \in Level, NEW j \in 1 .. Len(queue'[k])
      PROVE  LET k0 == IF k = l - 1 /\ j > n THEN l ELSE k
                 j0 == IF k = l - 1 /\ j > n THEN j - n ELSE j
             IN  k0 \in Level /\ j0 \in 1 .. Len(queue[k0]) /\ queue'[k][j] = queue[k0][j0] /\ k <= k0 /\ k # l
  <2>1. CASE k = l - 1 /\ j > n
    <3>1. j - n \in 1 .. m /\ n + (j - n) = j
      BY <1>1, <2>1
    <3>2. queue'[l - 1][j] = queue[l][j - n]
      BY <1>1, <3>1
    <3> QED
      BY <1>1, <2>1, <3>1, <3>2
  <2>2. CASE k = l - 1 /\ j <= n
    <3>1. j \in 1 .. n
      BY <1>1, <2>2
    <3>2. queue'[k][j] = queue[k][j] /\ j \in 1 .. Len(queue[k]) /\ k <= k /\ k # l
      BY <1>1, <2>2, <3>1
    <3>3. ~(k = l - 1 /\ j > n)
      BY <2>2, <3>1
    <3> QED
      BY <3>2, <3>3
  <2>3. CASE k # l - 1
    <3>1. k # l
      BY <1>1
    <3>2. queue'[k][j] = queue[k][j] /\ j \in 1 .. Len(queue[k])
      BY <1>1, <2>3, <3>1
    <3>3. k <= k
      BY DEF Level
    <3> QED
      BY <2>3, <3>1, <3>2, <3>3
  <2> QED
    BY <1>1, <2>1, <2>2, <2>3
<1>3. ASSUME NEW k \in Level, NEW i \in 1 .. Len(queue[k])
      PROVE  LET k1 == IF k = l THEN l - 1 ELSE k
                 i1 == IF k = l THEN n + i ELSE i
             IN  k1 \in Level /\ i1 \in 1 .. Len(queue'[k1]) /\ queue'[k1][i1] = queue[k][i]
  <2>1. CASE k = l
    <3>1. n + i \in 1 .. Len(queue'[l - 1]) /\ queue'[l - 1][n + i] = queue[k][i]
      BY <1>1, <2>1
    <3> QED
      BY <1>1, <2>1, <3>1
  <2>2. CASE k = l - 1
    <3>1. i \in 1 .. Len(queue'[l - 1]) /\ queue'[l - 1][i] = queue[k][i]
      BY <1>1, <2>2
    <3> QED
      BY <1>1, <2>2, <3>1
  <2>3. CASE k # l /\ k # l - 1
    BY <1>1, <2>3
  <2> QED
    BY <2>1, <2>2, <2>3
<1>4. ASSUME NEW v \in Task PROVE Queued(v)' <=> Queued(v)
  <2>1. ASSUME Queued(v)' PROVE Queued(v)
    <3>1. PICK k \in Level, j \in Nat : j \in 1 .. Len(queue'[k]) /\ queue'[k][j] = v
      BY <2>1 DEF Queued
    <3> DEFINE k0 == IF k = l - 1 /\ j > n THEN l ELSE k
               j0 == IF k = l - 1 /\ j > n THEN j - n ELSE j
    <3>2. k0 \in Level /\ j0 \in 1 .. Len(queue[k0]) /\ queue'[k][j] = queue[k0][j0]
      BY <1>2, <3>1
    <3> HIDE DEF k0, j0
    <3> QED
      BY <3>1, <3>2 DEF Queued
  <2>2. ASSUME Queued(v) PROVE Queued(v)'
    <3>1. PICK k \in Level, i \in Nat : i \in 1 .. Len(queue[k]) /\ queue[k][i] = v
      BY <2>2 DEF Queued
    <3> DEFINE k1 == IF k = l THEN l - 1 ELSE k
               i1 == IF k = l THEN n + i ELSE i
    <3>2. k1 \in Level /\ i1 \in 1 .. Len(queue'[k1]) /\ queue'[k1][i1] = queue[k][i]
      BY <1>3, <3>1
    <3> HIDE DEF k1, i1
    <3> QED
      BY <3>1, <3>2 DEF Queued
  <2> QED
    BY <2>1, <2>2
<1> QED
  BY <1>2, <1>3, <1>4

LEMMA RaiseKept ==
  ASSUME Exclusive, Raised,
         NEW l \in 1 .. 3, NEW n \in Nat, NEW m \in Nat, RaisedInto(l, n, m),
         \A v \in Task : ~Held(v)'
  PROVE  Exclusive' /\ Raised' /\ \A v \in Task : Queued(v)' <=> Queued(v)
<1>1. l # l - 1 /\ queue \in [Level -> Seq(Task)] /\ Len(queue'[l]) = 0 /\ l \in Level /\ l - 1 \in Level
  BY DEF RaisedInto
<1>2. \A k \in Level : \A j \in 1 .. Len(queue'[k]) :
             LET k0 == IF k = l - 1 /\ j > n THEN l ELSE k
                 j0 == IF k = l - 1 /\ j > n THEN j - n ELSE j
             IN  k0 \in Level /\ j0 \in 1 .. Len(queue[k0]) /\ queue'[k][j] = queue[k0][j0] /\ k <= k0 /\ k # l
  BY RaiseMoves
<1>4. \A v \in Task : Queued(v)' <=> Queued(v)
  BY RaiseMoves
<1>5. Exclusive'
  <2>1. ASSUME NEW a \in Level, NEW k \in Level, NEW i \in 1 .. Len(queue'[a]), NEW j \in 1 .. Len(queue'[k]),
               queue'[k][j] \in Kin(queue'[a][i])
        PROVE  a = k /\ i = j
    <3> DEFINE a0 == IF a = l - 1 /\ i > n THEN l ELSE a
               i0 == IF a = l - 1 /\ i > n THEN i - n ELSE i
               k0 == IF k = l - 1 /\ j > n THEN l ELSE k
               j0 == IF k = l - 1 /\ j > n THEN j - n ELSE j
    <3>1. a0 \in Level /\ i0 \in 1 .. Len(queue[a0]) /\ queue'[a][i] = queue[a0][i0] /\ a # l
      BY <1>2
    <3>2. k0 \in Level /\ j0 \in 1 .. Len(queue[k0]) /\ queue'[k][j] = queue[k0][j0] /\ k # l
      BY <1>2
    <3>3. a0 = k0 /\ i0 = j0
      <4> HIDE DEF a0, i0, k0, j0
      <4> QED
        BY <2>1, <3>1, <3>2 DEF Exclusive
    <3>4. i \in Nat /\ j \in Nat
      BY <1>1
    <3> QED
      BY <1>1, <3>1, <3>2, <3>3, <3>4
  <2> QED
    BY <2>1 DEF Exclusive
<1>6. Raised'
  <2> SUFFICES ASSUME NEW v \in Task, NEW k \in Level, NEW j \in 1 .. Len(queue'[k]), queue'[k][j] = v
               PROVE  k <= maskToPriority(MaskOf[v])
    BY DEF Raised
  <2> DEFINE k0 == IF k = l - 1 /\ j > n THEN l ELSE k
             j0 == IF k = l - 1 /\ j > n THEN j - n ELSE j
  <2>1. k0 \in Level /\ j0 \in 1 .. Len(queue[k0]) /\ queue[k0][j0] = v /\ k <= k0
    BY <1>2
  <2> HIDE DEF k0, j0
  <2>2. k0 <= maskToPriority(MaskOf[v])
    BY <2>1 DEF Raised
  <2> DEFINE p == maskToPriority(MaskOf[v])
  <2>3. p \in Level
    BY LevelOf
  <2> HIDE DEF p
  <2>4. k <= p
    BY <2>1, <2>2, <2>3 DEF Level, p
  <2> QED
    BY <2>4 DEF p
<1> QED
  BY <1>4, <1>5, <1>6

-------------------------------------------------------------------------------
\* What an action of the worker makes of the task that is held.
LEMMA HeldNow ==
  ASSUME FiberInv
  PROVE  /\ \A v \in Task : me.at \notin {"run", "back"} => ~Held(v)
         /\ me.at \in {"run", "back"} => me.task \in Task /\ \A v \in Task : Held(v) <=> v = me.task
BY DEF Held, FiberInv, OnFiber

LEMMA PresentKept ==
  ASSUME Present, UNCHANGED life,
         \A v \in Task : (\E u \in Kin(v) : Queued(u) \/ Held(u))
                            <=> \E u \in Kin(v) : (Queued(u) \/ Held(u))'
  PROVE  Present'
BY DEF Present

\* The worker neither takes a task nor lets go of one, and pushes none.
LEMMA PlacesStill ==
  ASSUME PlaceInv, UNCHANGED <<queue, life>>, \A v \in Task : Held(v)' <=> Held(v)
  PROVE  PlaceInv'
<1>1. \A v \in Task : Queued(v)' <=> Queued(v)
  BY DEF Queued
<1>2. Exclusive'
  BY <1>1 DEF PlaceInv, Exclusive
<1>3. \A u, v \in Task : u \in Kin(v) => u \in Task
  OBVIOUS
<1>4. Present'
  <2>1. \A v \in Task : Kin(v) \subseteq Task
    BY KinFacts
  <2> QED
    BY <1>1, <2>1, PresentKept DEF PlaceInv
<1>5. Raised'
  BY DEF PlaceInv, Raised
<1> QED
  BY <1>2, <1>4, <1>5 DEF PlaceInv

LEMMA PlaceInitially == Init => PlaceInv
<1> SUFFICES ASSUME Init PROVE PlaceInv
  OBVIOUS
<1> DEFINE c == Chain[1]
           p == maskToPriority(MaskOf[c])
<1>1. c \in StageTask /\ c \in Task
  <2>1. 1 \in DOMAIN Chain
    BY ConstantsAssumption
  <2> QED
    BY <2>1, FiberFacts DEF StageTask, ToSet
<1>2. p \in Level
  BY <1>1, LevelOf
<1>3. \A l \in Level : queue[l] = IF l = p THEN <<c>> ELSE <<>>
  BY DEF Init
<1>4. \A v \in Task : ~Held(v)
  BY DEF Init, Held, me, Worker, Idle
<1>5. ASSUME NEW l \in Level, NEW i \in 1 .. Len(queue[l]) PROVE l = p /\ i = 1 /\ queue[l][i] = c
  <2>1. CASE l = p
    BY <1>3, <2>1
  <2>2. CASE l # p
    BY <1>3, <2>2
  <2> QED
    BY <2>1, <2>2
<1> HIDE DEF p, c
<1>6. Queued(c)
  <2>1. Len(queue[p]) = 1 /\ queue[p][1] = c
    BY <1>2, <1>3
  <2> QED
    BY <1>2, <2>1 DEF Queued
<1>7. \A v \in Task : Queued(v) => v = c
  BY <1>5 DEF Queued
<1>8. Exclusive
  <2>1. ASSUME NEW l \in Level, NEW k \in Level, NEW i \in 1 .. Len(queue[l]), NEW j \in 1 .. Len(queue[k])
        PROVE  l = k /\ i = j
    BY <1>5
  <2> QED
    BY <1>4, <2>1 DEF Exclusive
<1>9. Present
  <2>1. \A t \in Task : life[t] = "live" <=> t \in StageTask
    BY DEF Init
  <2>2. \A t \in Task : Kin(t) \subseteq Task /\ (c \in Kin(t) <=> t \in StageTask)
    BY <1>1, KinFacts DEF Kin
  <2>3. \A t \in Task : (\E u \in Kin(t) : Queued(u) \/ Held(u)) <=> c \in Kin(t)
    BY <1>4, <1>6, <1>7, <2>2
  <2> QED
    BY <2>1, <2>2, <2>3, FiberFacts DEF Present
<1>10. Raised
  <2> SUFFICES ASSUME NEW v \in Task, NEW l \in Level, NEW i \in 1 .. Len(queue[l]), queue[l][i] = v
               PROVE  l <= maskToPriority(MaskOf[v])
    BY DEF Raised
  <2>1. l = p /\ v = c
    BY <1>5
  <2> QED
    BY <1>2, <2>1 DEF p, Level
<1> QED
  BY <1>8, <1>9, <1>10 DEF PlaceInv

LEMMA ExecPlace ==
  ASSUME FiberInv, PlaceInv, NEW t \in Job \cup Poller, Exec(t)
  PROVE  PlaceInv'
<1>1. /\ t \in Task /\ life[t] = "new" /\ life' = [life EXCEPT ![t] = "live"] /\ queue' = Pushed(t)
      /\ queue \in [Level -> Seq(Task)] /\ life \in [Task -> {"new", "live", "gone"}]
      /\ Kin(t) = {t} /\ t \notin StageTask
  BY FiberFacts, ConstantsAssumption DEF Exec, FiberInv, TypeOK, Kin
<1>2. \A v \in Task : Held(v)' <=> Held(v)
  BY DEF Held, Exec, me
<1>3. \A u \in Kin(t) : ~Queued(u) /\ ~Held(u)
  BY <1>1 DEF PlaceInv, Present
<1>4. Exclusive' /\ Raised' /\ \A v \in Task : Queued(v)' <=> (Queued(v) \/ v = t)
  BY <1>1, <1>2, <1>3, PushKept DEF PlaceInv
<1>5. Present'
  <2>1. \A v \in Task : v # t => life'[v] = life[v] /\ t \notin Kin(v) /\ Kin(v) \subseteq Task
    BY <1>1, KinFacts
  <2>2. life'[t] = "live" /\ \E u \in Kin(t) : (Queued(u) \/ Held(u))'
    BY <1>1, <1>4
  <2>3. \A v \in Task : v # t => ((\E u \in Kin(v) : Queued(u) \/ Held(u))
                                      <=> \E u \in Kin(v) : (Queued(u) \/ Held(u))')
    BY <1>2, <1>4, <2>1
  <2>4. \A v \in StageTask : v \in Task /\ v # t
    BY <1>1, FiberFacts
  <2> QED
    BY <2>1, <2>2, <2>3, <2>4 DEF PlaceInv, Present
<1> QED
  BY <1>4, <1>5 DEF PlaceInv

LEMMA PopPlace ==
  ASSUME FiberInv, PlaceInv, Pop(1)
  PROVE  PlaceInv'
<1>1. PICK l \in Level :
        /\ me.at = "pop" /\ queue[l] # <<>>
        /\ queue' = [queue EXCEPT ![l] = Tail(queue[l])] /\ life' = life
        /\ \E f, a : a \in {"run", "back"} /\
              worker' = [worker EXCEPT ![1] = [at |-> a, task |-> Head(queue[l]), fiber |-> f, level |-> 0]]
  BY DEF Pop, me
<1>2. queue \in [Level -> Seq(Task)] /\ worker \in [Worker -> WorkerState] /\ 1 \in Worker
  BY DEF FiberInv, TypeOK, Worker
<1>3. PICK t \in Task : t = Head(queue[l])
  BY <1>1, <1>2
<1>4. me'.at \in {"run", "back"} /\ me'.task = t
  BY <1>1, <1>2, <1>3 DEF me
<1>5. \A v \in Task : ~Held(v) /\ (Held(v)' <=> v = t)
  BY <1>1, <1>4, HeldNow DEF Held
<1>6. Exclusive' /\ Raised' /\ Queued(t) /\ \A v \in Task : Queued(v)' <=> (Queued(v) /\ v # t)
  BY <1>1, <1>2, <1>3, <1>5, PopKept DEF PlaceInv
<1>7. \A v \in Task : (Queued(v) \/ Held(v)) <=> (Queued(v) \/ Held(v))'
  BY <1>5, <1>6
<1>8. Present'
  <2>1. \A v \in Task : Kin(v) \subseteq Task
    BY KinFacts
  <2> QED
    BY <1>1, <1>7, <2>1, PresentKept DEF PlaceInv
<1> QED
  BY <1>6, <1>8 DEF PlaceInv

\* The worker lets go of a task and pushes one of its kin: the task itself, or that
\* of the next stage.
LEMMA HandOver ==
  ASSUME FiberInv, PlaceInv, NEW t \in Task, NEW u \in Kin(t), Held(t),
         queue' = Pushed(u), UNCHANGED life, \A v \in Task : ~Held(v)'
  PROVE  PlaceInv'
<1>1. u \in Task /\ Kin(u) = Kin(t) /\ Kin(t) \subseteq Task /\ queue \in [Level -> Seq(Task)]
  BY KinFacts DEF FiberInv, TypeOK
<1>2. \A v \in Kin(u) : ~Queued(v) /\ ~Held(v)'
  BY <1>1 DEF PlaceInv, Exclusive
<1>3. Exclusive' /\ Raised' /\ \A v \in Task : Queued(v)' <=> (Queued(v) \/ v = u)
  BY <1>1, <1>2, PushKept DEF PlaceInv
<1>4. \A v \in Task : Held(v) => v = t
  BY DEF Held
<1>5. ASSUME NEW v \in Task
      PROVE  (\E x \in Kin(v) : Queued(x) \/ Held(x)) <=> \E x \in Kin(v) : (Queued(x) \/ Held(x))'
  <2>1. Kin(v) \subseteq Task /\ (t \in Kin(v) <=> u \in Kin(v))
    BY <1>1, KinFacts
  <2>2. CASE t \in Kin(v)
    BY <1>3, <2>1, <2>2
  <2>3. CASE t \notin Kin(v)
    BY <1>3, <1>4, <2>1, <2>3
  <2> QED
    BY <2>2, <2>3
<1>6. Present'
  BY <1>5, PresentKept DEF PlaceInv
<1> QED
  BY <1>3, <1>6 DEF PlaceInv

\* The worker lets go of a task that is deleted.
LEMMA Vanish ==
  ASSUME FiberInv, PlaceInv, NEW t \in Job \cup Poller, Held(t),
         life' = [life EXCEPT ![t] = "gone"], UNCHANGED queue, \A v \in Task : ~Held(v)'
  PROVE  PlaceInv'
<1>1. /\ t \in Task /\ Kin(t) = {t} /\ t \notin StageTask
      /\ life \in [Task -> {"new", "live", "gone"}]
  BY FiberFacts, ConstantsAssumption DEF FiberInv, TypeOK, Kin
<1>2. \A v \in Task : Queued(v)' <=> Queued(v)
  BY DEF Queued
<1>3. ~Queued(t) /\ \A v \in Task : Held(v) => v = t
  BY <1>1 DEF PlaceInv, Exclusive, Held
<1>4. Exclusive' /\ Raised'
  BY DEF PlaceInv, Exclusive, Raised
<1>5. Present'
  <2>1. \A v \in Task : v # t => life'[v] = life[v] /\ t \notin Kin(v) /\ Kin(v) \subseteq Task
    BY <1>1, KinFacts
  <2>2. life'[t] = "gone" /\ ~\E u \in Kin(t) : (Queued(u) \/ Held(u))'
    BY <1>1, <1>2, <1>3
  <2>3. \A v \in Task : v # t => ((\E u \in Kin(v) : Queued(u) \/ Held(u))
                                      <=> \E u \in Kin(v) : (Queued(u) \/ Held(u))')
    BY <1>2, <1>3, <2>1
  <2>4. \A v \in StageTask : v \in Task /\ v # t
    BY <1>1, FiberFacts
  <2> QED
    BY <2>1, <2>2, <2>3, <2>4 DEF PlaceInv, Present
<1> QED
  BY <1>4, <1>5 DEF PlaceInv

LEMMA RequeuePlace ==
  ASSUME FiberInv, PlaceInv, Requeue(1)
  PROVE  PlaceInv'
<1>1. /\ me.at = "back" /\ queue' = Pushed(me.task) /\ life' = life
      /\ worker' = [worker EXCEPT ![1] = Idle]
  BY DEF Requeue, me
<1>2. me' = Idle
  BY <1>1, IdleState, MeUpdate DEF FiberInv
<1>3. \A v \in Task : ~Held(v)'
  BY <1>2 DEF Held, Idle
<1>4. PICK t \in Task : t = me.task
  BY <1>1, HeldNow
<1>5. Held(t) /\ t \in Kin(t)
  BY <1>1, <1>4, KinFacts DEF Held
<1>6. queue' = Pushed(t)
  BY <1>1, <1>4
<1> QED
  BY <1>1, <1>3, <1>5, <1>6, HandOver

LEMMA FinishJobPlace ==
  ASSUME FiberInv, PlaceInv, NEW t \in Task, FinishJob(1, t)
  PROVE  PlaceInv'
<1>1. /\ t \in Job /\ Held(t) /\ life' = [life EXCEPT ![t] = "gone"] /\ UNCHANGED queue
  BY DEF FinishJob, Held, me
<1>2. \A v \in Task : ~Held(v)'
  <2>1. me'.at = "leave"
    BY LeaveState DEF FinishJob, FiberInv
  <2> QED
    BY <2>1 DEF Held
<1> QED
  BY <1>1, <1>2, Vanish

LEMMA FinishPollerPlace ==
  ASSUME FiberInv, PlaceInv, NEW t \in Task, FinishPoller(1, t)
  PROVE  PlaceInv'
<1>1. /\ t \in Poller /\ Held(t)
      /\ \/ queue' = Pushed(t) /\ life' = life
         \/ queue' = queue /\ life' = [life EXCEPT ![t] = "gone"]
  BY DEF FinishPoller, Held, me
<1>2. \A v \in Task : ~Held(v)'
  <2>1. me'.at = "leave"
    BY LeaveState DEF FinishPoller, FiberInv
  <2> QED
    BY <2>1 DEF Held
<1>3. t \in Kin(t)
  BY KinFacts
<1> QED
  BY <1>1, <1>2, <1>3, HandOver, Vanish

LEMMA FinishStagePlace ==
  ASSUME FiberInv, PlaceInv, NEW t \in Task, FinishStage(1, t)
  PROVE  PlaceInv'
<1>1. /\ t \in StageTask /\ Held(t) /\ queue' = Pushed(NextStage(t)) /\ life' = life
  BY DEF FinishStage, Held, me
<1>2. \A v \in Task : ~Held(v)'
  <2>1. 1 \in Level
    BY DEF Level
  <2>2. me'.at = "tick"
    BY <2>1, MeAtLevel DEF FinishStage, FiberInv
  <2> QED
    BY <2>2 DEF Held
<1>3. PICK u \in Task : u = NextStage(t) /\ u \in Kin(t)
  BY <1>1, NextStageType DEF Kin
<1>4. queue' = Pushed(u)
  BY <1>1, <1>3
<1> QED
  BY <1>1, <1>2, <1>3, <1>4, HandOver

\* A body yields or awaits: the worker still has the task.
LEMMA BackPlace ==
  ASSUME FiberInv, PlaceInv, Yield(1) \/ Await(1)
  PROVE  PlaceInv'
<1> DEFINE v == [me EXCEPT !.at = "back"]
<1>1. v \in WorkerState /\ v.at = "back" /\ v.task = me.task
  BY MeType DEF FiberInv, WorkerState
<1>2. worker' = [worker EXCEPT ![1] = v] /\ me.at = "run" /\ UNCHANGED <<queue, life>>
  BY DEF Yield, Await, me
<1> HIDE DEF v
<1>3. me' = v
  BY <1>1, <1>2, MeUpdate DEF FiberInv
<1>4. \A u \in Task : Held(u)' <=> Held(u)
  BY <1>1, <1>2, <1>3 DEF Held
<1> QED
  BY <1>2, <1>4, PlacesStill

LEMMA LeavePlace ==
  ASSUME FiberInv, PlaceInv, Leave(1)
  PROVE  PlaceInv'
<1>1. me.at = "leave" /\ UNCHANGED <<queue, life>> /\ worker' = [worker EXCEPT ![1] = Idle]
  BY DEF Leave, me
<1>2. me' = Idle
  BY <1>1, IdleState, MeUpdate DEF FiberInv
<1>3. \A u \in Task : Held(u)' <=> Held(u)
  BY <1>1, <1>2 DEF Held, Idle
<1> QED
  BY <1>1, <1>3, PlacesStill

LEMMA RaisePlace ==
  ASSUME FiberInv, PlaceInv, Raise(1)
  PROVE  PlaceInv'
<1>1. /\ me.at = "tick" /\ me.level \in 1 .. 3 /\ life' = life
      /\ queue' = [queue EXCEPT ![me.level - 1] = @ \o queue[me.level], ![me.level] = <<>>]
      /\ queue \in [Level -> Seq(Task)]
  BY DEF Raise, me, FiberInv, OnFiber, TypeOK
<1>2. \A v \in Task : ~Held(v) /\ ~Held(v)'
  <2> DEFINE a == IF me.level = 3 THEN "leave" ELSE "tick"
             n == IF me.level = 3 THEN 0 ELSE me.level + 1
  <2>1. a \in {"tick", "leave"} /\ n \in Level
    BY <1>1 DEF Level
  <2>2. worker' = [worker EXCEPT ![1].at = a, ![1].level = n]
    BY DEF Raise, me
  <2> HIDE DEF a, n
  <2>3. me'.at = a
    BY <2>1, <2>2, MeAtLevel DEF FiberInv
  <2> QED
    BY <1>1, <2>1, <2>3 DEF Held
<1>3. PICK l \in 1 .. 3 : l = me.level
  BY <1>1
<1>4. queue' = [queue EXCEPT ![l - 1] = @ \o queue[l], ![l] = <<>>] /\ queue \in [Level -> Seq(Task)]
  BY <1>1, <1>3
<1>5. PICK n \in Nat, m \in Nat : RaisedInto(l, n, m)
  BY ONLY <1>4, RaisedPlaces
<1>6. Exclusive' /\ Raised' /\ \A v \in Task : Queued(v)' <=> Queued(v)
  BY <1>2, <1>5, RaiseKept DEF PlaceInv
<1>7. Present'
  <2>1. \A v \in Task : Kin(v) \subseteq Task
    BY KinFacts
  <2> QED
    BY <1>1, <1>2, <1>6, <2>1, PresentKept DEF PlaceInv
<1> QED
  BY <1>6, <1>7 DEF PlaceInv

LEMMA PlaceStep ==
  ASSUME FiberInv, PlaceInv, [Next]_vars
  PROVE  PlaceInv'
<1>1. ASSUME NEW t \in Job \cup Poller, Exec(t) PROVE PlaceInv'
  BY <1>1, ExecPlace
<1>2. ASSUME NEW t \in Awaits, SetSignal(t) PROVE PlaceInv'
  <2>1. UNCHANGED <<queue, life>> /\ \A v \in Task : Held(v)' <=> Held(v)
    BY <1>2 DEF SetSignal, Held, me
  <2> QED
    BY <2>1, PlacesStill
<1>3. ASSUME NEW w \in Worker,
             Pop(w) \/ Yield(w) \/ Await(w) \/ Requeue(w) \/ Raise(w) \/ Leave(w)
      PROVE  PlaceInv'
  <2>1. w = 1
    BY DEF Worker
  <2> QED
    BY <1>3, <2>1, PopPlace, BackPlace, RequeuePlace, RaisePlace, LeavePlace
<1>4. ASSUME NEW w \in Worker, NEW t \in Task, Finish(w, t) PROVE PlaceInv'
  <2>1. w = 1
    BY DEF Worker
  <2> QED
    BY <1>4, <2>1, FinishJobPlace, FinishPollerPlace, FinishStagePlace DEF Finish
<1>5. CASE UNCHANGED vars
  <2>1. UNCHANGED <<queue, life>> /\ \A v \in Task : Held(v)' <=> Held(v)
    BY <1>5 DEF vars, Held, me
  <2> QED
    BY <2>1, PlacesStill
<1> QED
  BY <1>1, <1>2, <1>3, <1>4, <1>5 DEF Next

LEMMA PlaceAlways == Spec => [](FiberInv /\ PlaceInv)
<1>1. Init => FiberInv /\ PlaceInv
  BY FiberInitially, PlaceInitially
<1>2. FiberInv /\ PlaceInv /\ [Next]_vars => FiberInv' /\ PlaceInv'
  BY FiberStep, PlaceStep
<1> QED
  BY <1>1, <1>2, PTL DEF Spec

\* What the fifos hold in terms of the places of the property.
LEMMA FifoLength ==
  ASSUME TypeOK, PlaceInv, NEW l \in Level
  PROVE  queue[l] \in Seq(Task) /\ Len(queue[l]) \in Nat /\ Len(queue[l]) <= Cardinality(Task)
<1> DEFINE s == queue[l]
<1>1. s \in Seq(Task)
  BY DEF TypeOK
<1>2. \A i, j \in 1 .. Len(s) : s[i] = s[j] => i = j
  <2> SUFFICES ASSUME NEW i \in 1 .. Len(s), NEW j \in 1 .. Len(s), s[i] = s[j] PROVE i = j
    OBVIOUS
  <2>1. s[i] \in Task
    BY <1>1
  <2>2. queue[l][j] \in Kin(queue[l][i])
    BY <2>1, KinFacts
  <2> QED
    BY <2>2 DEF PlaceInv, Exclusive
<1> HIDE DEF s
<1>3. Len(s) = Cardinality(ToSet(s))
  <2>1. DOMAIN s = 1 .. Len(s)
    BY <1>1
  <2>2. IsInjective(s)
    BY <1>2, <2>1 DEF IsInjective
  <2> QED
    BY <1>1, <2>2, LenOfInjective
<1>4. ToSet(s) \subseteq Task /\ IsFiniteSet(Task)
  BY <1>1, ConstantsAssumption DEF ToSet
<1>5. Cardinality(ToSet(s)) <= Cardinality(Task)
  BY <1>4, FS_Subset
<1> QED
  BY <1>1, <1>3, <1>5 DEF s

LEMMA WaitingFacts ==
  ASSUME TypeOK, PlaceInv, NEW t \in Task
  PROVE  /\ Queued(t) <=> Waiting(t) # {}
         /\ \A p \in Waiting(t), u \in Kin(t) : \A q \in Waiting(u) : p = q
<1>1. \A p \in Places : p = <<p[1], p[2]>> /\ p[1] \in Level /\ p[2] \in 1 .. Len(queue[p[1]])
  <2> SUFFICES ASSUME NEW p \in Places PROVE p = <<p[1], p[2]>> /\ p[1] \in Level /\ p[2] \in 1 .. Len(queue[p[1]])
    OBVIOUS
  <2>1. p \in Level \X (1 .. Cardinality(Task)) /\ p[2] <= Len(queue[p[1]])
    BY DEF Places
  <2>2. p = <<p[1], p[2]>> /\ p[1] \in Level /\ p[2] \in 1 .. Cardinality(Task)
    BY <2>1
  <2> QED
    BY <2>1, <2>2, FifoLength
<1>2. ASSUME NEW l \in Level, NEW i \in 1 .. Len(queue[l]) PROVE <<l, i>> \in Places
  <2>1. i \in 1 .. Cardinality(Task) /\ i <= Len(queue[l])
    BY FifoLength, FiberFacts
  <2> QED
    BY <2>1 DEF Places
<1>3. ASSUME Queued(t) PROVE Waiting(t) # {}
  <2>1. PICK l \in Level, i \in Nat : i \in 1 .. Len(queue[l]) /\ queue[l][i] = t
    BY <1>3 DEF Queued
  <2>2. <<l, i>> \in Places /\ queue[<<l, i>>[1]][<<l, i>>[2]] = t
    BY <1>2, <2>1
  <2> QED
    BY <2>2 DEF Waiting
<1>4. ASSUME NEW p \in Waiting(t) PROVE Queued(t)
  <2>1. p \in Places /\ queue[p[1]][p[2]] = t
    BY <1>4 DEF Waiting
  <2> QED
    BY <1>1, <2>1 DEF Queued
<1>5. ASSUME NEW p \in Waiting(t), NEW u \in Kin(t), NEW q \in Waiting(u) PROVE p = q
  <2>1. p \in Places /\ queue[p[1]][p[2]] = t /\ q \in Places /\ queue[q[1]][q[2]] = u
    BY DEF Waiting
  <2>2. p[1] = q[1] /\ p[2] = q[2]
    BY <1>1, <2>1 DEF PlaceInv, Exclusive
  <2> QED
    BY <1>1, <2>1, <2>2
<1> QED
  BY <1>3, <1>4, <1>5

LEMMA HoldingFacts ==
  ASSUME NEW t \in Task
  PROVE  Holding(t) = IF Held(t) THEN {1} ELSE {}
BY DEF Holding, Held, me, Worker

LEMMA OneOrNone ==
  ASSUME NEW S, \A x, y \in S : x = y
  PROVE  Cardinality(S) = IF S = {} THEN 0 ELSE 1
<1>1. CASE S = {}
  BY <1>1, FS_EmptySet
<1>2. CASE S # {}
  <2>1. PICK x \in S : TRUE
    BY <1>2
  <2>2. S = {x}
    BY <2>1
  <2>3. Cardinality({x}) = 1
    BY FS_Singleton
  <2> QED
    BY <1>2, <2>2, <2>3
<1> QED
  BY <1>1, <1>2

\* All those of a kin are in one place together, if one of them is live.
LEMMA OnePlaceOfKin ==
  ASSUME TypeOK, PlaceInv, NEW t \in Task
  PROVE  Cardinality(UNION {Waiting(u) : u \in Kin(t)}) + Cardinality(UNION {Holding(u) : u \in Kin(t)})
            = IF life[t] = "live" THEN 1 ELSE 0
<1> DEFINE W == UNION {Waiting(u) : u \in Kin(t)}
           H == UNION {Holding(u) : u \in Kin(t)}
<1>1. Kin(t) \subseteq Task
  BY KinFacts
<1>2. \A u \in Kin(t), v \in Kin(t) : v \in Kin(u)
  BY <1>1, KinFacts
<1>3. \A p, q \in W : p = q
  <2> SUFFICES ASSUME NEW p \in W, NEW q \in W PROVE p = q
    OBVIOUS
  <2>1. PICK u \in Kin(t) : p \in Waiting(u)
    OBVIOUS
  <2>2. PICK v \in Kin(t) : q \in Waiting(v)
    OBVIOUS
  <2>3. u \in Task /\ v \in Kin(u)
    BY <1>1, <1>2
  <2> QED
    BY <2>1, <2>2, <2>3, WaitingFacts
<1>4. W # {} <=> \E u \in Kin(t) : Queued(u)
  <2>1. W # {} <=> \E u \in Kin(t) : Waiting(u) # {}
    OBVIOUS
  <2> QED
    BY <1>1, <2>1, WaitingFacts
<1>5. \A p, q \in H : p = q
  BY <1>1, HoldingFacts
<1>6. H # {} <=> \E u \in Kin(t) : Held(u)
  <2>1. H # {} <=> \E u \in Kin(t) : Holding(u) # {}
    OBVIOUS
  <2>2. \A u \in Kin(t) : Holding(u) # {} <=> Held(u)
    BY <1>1, HoldingFacts
  <2> QED
    BY <2>1, <2>2
<1> HIDE DEF W, H
<1>7. Cardinality(W) = (IF W = {} THEN 0 ELSE 1) /\ Cardinality(H) = (IF H = {} THEN 0 ELSE 1)
  BY <1>3, <1>5, OneOrNone
<1>8. W # {} => H = {}
  <2>1. \A u \in Kin(t), v \in Kin(t) : Held(u) => ~Queued(v)
    BY <1>1, <1>2 DEF PlaceInv, Exclusive
  <2> QED
    BY <1>4, <1>6, <2>1
<1>9. life[t] = "live" <=> (W # {} \/ H # {})
  BY <1>4, <1>6 DEF PlaceInv, Present
<1>10. Cardinality(W) + Cardinality(H) = IF life[t] = "live" THEN 1 ELSE 0
  BY <1>7, <1>8, <1>9
<1> QED
  BY <1>10 DEF W, H

\* For any tasks, masks and stages: a task that has been passed to exec() and not
\* been deleted is in one place, in a fifo or on the worker, and so is one of the
\* stage tasks; no task is lost or run twice by suspending, awaiting and raising.
THEOREM OnePlaceTheorem == Spec => []OnePlaceEach
<1>1. FiberInv /\ PlaceInv => OnePlaceEach
  <2> SUFFICES ASSUME FiberInv, PlaceInv PROVE OnePlaceEach
    OBVIOUS
  <2>1. TypeOK
    BY DEF FiberInv
  <2>2. ASSUME NEW t \in Job \cup Poller
        PROVE  Cardinality(Waiting(t)) + Cardinality(Holding(t)) = IF life[t] = "live" THEN 1 ELSE 0
    <3>1. t \in Task /\ Kin(t) = {t}
      BY FiberFacts, ConstantsAssumption DEF Kin
    <3>2. UNION {Waiting(u) : u \in {t}} = Waiting(t) /\ UNION {Holding(u) : u \in {t}} = Holding(t)
      OBVIOUS
    <3>3. /\ UNION {Waiting(u) : u \in Kin(t)} = Waiting(t)
          /\ UNION {Holding(u) : u \in Kin(t)} = Holding(t)
      BY <3>1, <3>2
    <3>4. Cardinality(UNION {Waiting(u) : u \in Kin(t)}) + Cardinality(UNION {Holding(u) : u \in Kin(t)})
             = IF life[t] = "live" THEN 1 ELSE 0
      BY <2>1, <3>1, OnePlaceOfKin
    <3> QED
      BY <3>3, <3>4
  <2>3. Cardinality(UNION {Waiting(t) : t \in StageTask})
          + Cardinality(UNION {Holding(t) : t \in StageTask}) = 1
    <3>1. PICK c \in StageTask : c = Chain[1]
      <4>1. 1 \in DOMAIN Chain
        BY ConstantsAssumption
      <4> QED
        BY <4>1 DEF StageTask, ToSet
    <3>2. c \in Task /\ Kin(c) = StageTask /\ life[c] = "live"
      BY <3>1, FiberFacts DEF Kin, PlaceInv, Present
    <3>3. Cardinality(UNION {Waiting(u) : u \in Kin(c)}) + Cardinality(UNION {Holding(u) : u \in Kin(c)})
             = IF life[c] = "live" THEN 1 ELSE 0
      BY <2>1, <3>2, OnePlaceOfKin
    <3> QED
      BY <3>2, <3>3
  <2>4. \A l \in Level : Len(queue[l]) <= Cardinality(Task)
    BY <2>1, FifoLength
  <2> QED
    BY <2>2, <2>3, <2>4 DEF OnePlaceEach
<1> QED
  BY <1>1, PlaceAlways, PTL
-------------------------------------------------------------------------------
\* The order of the property, over the fifos themselves.
Ahead(a, b) ==
    \E l, k \in Level : \E i \in 1 .. Len(queue[l]), j \in 1 .. Len(queue[k]) :
        queue[l][i] = a /\ queue[k][j] = b /\ (l < k \/ (l = k /\ i < j))

AsSeen ==
    /\ \A a \in Task : Queued(a) <=> Waiting(a) # {}
    /\ \A a, b \in Task : Ahead(a, b) <=> Before(a, b)

\* a stays ahead of b as long as both wait, and b comes after a when it is pushed.
OrderKept(a, b) ==
    /\ Ahead(a, b) => Ahead(a, b)'
    /\ ~Queued(b) => ~Queued(b)' \/ Ahead(a, b)'

LEMMA SeenAlways == TypeOK /\ PlaceInv => AsSeen
<1> SUFFICES ASSUME TypeOK, PlaceInv PROVE AsSeen
  OBVIOUS
<1>1. \A a \in Task : Queued(a) <=> Waiting(a) # {}
  BY WaitingFacts
<1>2. ASSUME NEW l \in Level, NEW i \in 1 .. Len(queue[l])
      PROVE  <<l, i>> \in Waiting(queue[l][i])
  <2>1. i \in 1 .. Cardinality(Task) /\ i <= Len(queue[l])
    BY FifoLength, FiberFacts
  <2>2. <<l, i>> \in Places
    BY <2>1 DEF Places
  <2> QED
    BY <2>2 DEF Waiting
<1>3. ASSUME NEW a \in Task, NEW p \in Waiting(a)
      PROVE  p[1] \in Level /\ p[2] \in 1 .. Len(queue[p[1]]) /\ queue[p[1]][p[2]] = a
  <2>1. p \in Level \X (1 .. Cardinality(Task)) /\ p[2] <= Len(queue[p[1]]) /\ queue[p[1]][p[2]] = a
    BY DEF Waiting, Places
  <2>2. p[1] \in Level /\ p[2] \in 1 .. Cardinality(Task)
    BY <2>1
  <2> QED
    BY <2>1, <2>2, FifoLength
<1>4. ASSUME NEW a \in Task, NEW b \in Task, Ahead(a, b) PROVE Before(a, b)
  <2>1. PICK l \in Level, k \in Level, i \in Nat, j \in Nat :
          /\ i \in 1 .. Len(queue[l]) /\ j \in 1 .. Len(queue[k])
          /\ queue[l][i] = a /\ queue[k][j] = b /\ (l < k \/ (l = k /\ i < j))
    BY <1>4 DEF Ahead
  <2>2. <<l, i>> \in Waiting(a) /\ <<k, j>> \in Waiting(b)
    BY <1>2, <2>1
  <2> QED
    BY <2>1, <2>2 DEF Before
<1>5. ASSUME NEW a \in Task, NEW b \in Task, Before(a, b) PROVE Ahead(a, b)
  <2>1. PICK p \in Waiting(a), q \in Waiting(b) : p[1] < q[1] \/ (p[1] = q[1] /\ p[2] < q[2])
    BY <1>5 DEF Before
  <2>2. /\ p[1] \in Level /\ p[2] \in 1 .. Len(queue[p[1]]) /\ queue[p[1]][p[2]] = a
        /\ q[1] \in Level /\ q[2] \in 1 .. Len(queue[q[1]]) /\ queue[q[1]][q[2]] = b
    BY <1>3, <2>1
  <2> QED
    BY <2>1, <2>2 DEF Ahead
<1> QED
  BY <1>1, <1>4, <1>5 DEF AsSeen

\* The task that is pushed goes behind those of its mask: they wait at its priority
\* or at a higher one.
LEMMA OrderPush ==
  ASSUME queue \in [Level -> Seq(Task)], Raised,
         NEW t \in Task, ~Queued(t), queue' = Pushed(t),
         NEW a \in Task, NEW b \in Task, MaskOf[a] = MaskOf[b], Queued(a)
  PROVE  OrderKept(a, b)
<1> DEFINE p == maskToPriority(MaskOf[t])
           n == Len(queue[p])
<1>1. /\ p \in Level /\ n \in Nat
      /\ Len(queue'[p]) = n + 1 /\ queue'[p][n + 1] = t
      /\ \A i \in 1 .. n : queue'[p][i] = queue[p][i]
      /\ \A l \in Level : l # p => queue'[l] = queue[l]
  <2>1. p \in Level
    BY LevelOf
  <2> QED
    BY <2>1, PushPlaces
<1>2. \A l \in Level : \A i \in 1 .. Len(queue[l]) : i \in 1 .. Len(queue'[l]) /\ queue'[l][i] = queue[l][i]
  <2> SUFFICES ASSUME NEW l \in Level, NEW i \in 1 .. Len(queue[l])
               PROVE  i \in 1 .. Len(queue'[l]) /\ queue'[l][i] = queue[l][i]
    OBVIOUS
  <2>1. CASE l # p
    BY <1>1, <2>1
  <2>2. CASE l = p
    BY <1>1, <2>2
  <2> QED
    BY <2>1, <2>2
<1>3. ASSUME NEW l \in Level, NEW i \in 1 .. Len(queue'[l]), queue'[l][i] # t
      PROVE  i \in 1 .. Len(queue[l]) /\ queue'[l][i] = queue[l][i]
  <2>1. CASE l # p
    BY <1>1, <2>1
  <2>2. CASE l = p
    <3>1. i \in 1 .. n \/ i = n + 1
      BY <1>1, <2>2
    <3> QED
      BY <1>1, <1>3, <2>2, <3>1
  <2> QED
    BY <2>1, <2>2
<1>4. Ahead(a, b) => Ahead(a, b)'
  BY <1>2 DEF Ahead
<1>5. ASSUME ~Queued(b), Queued(b)' PROVE Ahead(a, b)'
  <2>1. b = t
    BY <1>3, <1>5 DEF Queued
  <2>2. PICK l \in Level, i \in Nat : i \in 1 .. Len(queue[l]) /\ queue[l][i] = a
    BY DEF Queued
  <2>3. l <= p
    BY <2>1, <2>2 DEF Raised
  <2>4. i \in 1 .. Len(queue'[l]) /\ queue'[l][i] = a
    BY <1>2, <2>2
  <2>5. n + 1 \in 1 .. Len(queue'[p]) /\ queue'[p][n + 1] = b
    BY <1>1, <2>1
  <2>6. l < p \/ (l = p /\ i < n + 1)
    <3> HIDE DEF p
    <3> QED
      BY <1>1, <2>2, <2>3 DEF Level
  <2> HIDE DEF p, n
  <2> QED
    BY <1>1, <2>4, <2>5, <2>6 DEF Ahead
<1> QED
  BY <1>4, <1>5 DEF OrderKept

\* Nothing is ahead of the task that is popped.
LEMMA OrderPop ==
  ASSUME queue \in [Level -> Seq(Task)],
         NEW l \in Level, queue[l] # <<>>, queue' = [queue EXCEPT ![l] = Tail(queue[l])],
         \A k \in Level : k < l => queue[k] = <<>>,
         Exclusive, NEW a \in Task, NEW b \in Task, Queued(a)'
  PROVE  OrderKept(a, b)
<1> DEFINE n == Len(queue[l])
<1>1. /\ n \in Nat /\ n >= 1 /\ Len(queue'[l]) = n - 1
      /\ \A i \in 1 .. n - 1 : queue'[l][i] = queue[l][i + 1]
      /\ \A k \in Level : k # l => queue'[k] = queue[k]
  BY PopPlaces
<1>2. ASSUME NEW k \in Level, NEW j \in 1 .. Len(queue'[k])
      PROVE  LET i == IF k = l THEN j + 1 ELSE j
             IN  i \in 1 .. Len(queue[k]) /\ queue'[k][j] = queue[k][i]
  <2>1. CASE k = l
    BY <1>1, <2>1
  <2>2. CASE k # l
    BY <1>1, <2>2
  <2> QED
    BY <2>1, <2>2
<1>3. ~Queued(b) => ~Queued(b)'
  BY <1>2 DEF Queued
<1>4. ASSUME Ahead(a, b) PROVE Ahead(a, b)'
  <2>1. PICK h \in Level, k \in Level, i \in Nat, j \in Nat :
          /\ i \in 1 .. Len(queue[h]) /\ j \in 1 .. Len(queue[k])
          /\ queue[h][i] = a /\ queue[k][j] = b /\ (h < k \/ (h = k /\ i < j))
    BY <1>4 DEF Ahead
\* a is not the head that is popped: it is queued afterwards, and was in one place.
  <2>2. ~(h = l /\ i = 1)
    <3>1. PICK g \in Level, m \in Nat : m \in 1 .. Len(queue'[g]) /\ queue'[g][m] = a
      BY DEF Queued
    <3> DEFINE m0 == IF g = l THEN m + 1 ELSE m
    <3>2. m0 \in 1 .. Len(queue[g]) /\ queue[g][m0] = a /\ (g = l => m0 # 1)
      BY <1>2, <3>1
    <3> HIDE DEF m0
    <3>3. queue[g][m0] \in Kin(queue[h][i])
      BY <2>1, <3>2, KinFacts
    <3>4. g = h /\ m0 = i
      BY <2>1, <3>1, <3>2, <3>3 DEF Exclusive
    <3> QED
      BY <3>2, <3>4
  <2>3. h >= l
    <3>1. h < l => Len(queue[h]) = 0
      BY <2>1
    <3> QED
      BY <2>1, <3>1 DEF Level
  <2>4. k > l \/ (k = l /\ j > 1)
    BY <2>1, <2>2, <2>3 DEF Level
  <2> DEFINE i0 == IF h = l THEN i - 1 ELSE i
             j0 == IF k = l THEN j - 1 ELSE j
  <2>5. i0 \in 1 .. Len(queue'[h]) /\ queue'[h][i0] = a
    <3>1. CASE h = l
      <4>1. i - 1 \in 1 .. n - 1 /\ (i - 1) + 1 = i
        BY <1>1, <2>1, <2>2, <3>1
      <4> QED
        BY <1>1, <2>1, <3>1, <4>1
    <3>2. CASE h # l
      BY <1>1, <2>1, <3>2
    <3> QED
      BY <3>1, <3>2
  <2>6. j0 \in 1 .. Len(queue'[k]) /\ queue'[k][j0] = b
    <3>1. CASE k = l
      <4>1. j - 1 \in 1 .. n - 1 /\ (j - 1) + 1 = j
        BY <1>1, <2>1, <2>4, <3>1 DEF Level
      <4> QED
        BY <1>1, <2>1, <3>1, <4>1
    <3>2. CASE k # l
      BY <1>1, <2>1, <3>2
    <3> QED
      BY <3>1, <3>2
  <2>7. h < k \/ (h = k /\ i0 < j0)
    BY <2>1
  <2> HIDE DEF i0, j0
  <2> QED
    BY <2>1, <2>5, <2>6, <2>7 DEF Ahead
<1> QED
  BY <1>3, <1>4 DEF OrderKept

\* A fifo goes behind the one above it as a whole.
LEMMA OrderRaise ==
  ASSUME NEW l \in 1 .. 3, NEW n \in Nat, NEW m \in Nat, RaisedInto(l, n, m),
         NEW a \in Task, NEW b \in Task
  PROVE  OrderKept(a, b)
<1>1. ASSUME NEW k \in Level, NEW i \in 1 .. Len(queue[k])
      PROVE  LET k1 == IF k = l THEN l - 1 ELSE k
                 i1 == IF k = l THEN n + i ELSE i
             IN  k1 \in Level /\ i1 \in 1 .. Len(queue'[k1]) /\ queue'[k1][i1] = queue[k][i]
  BY RaiseMoves
<1>2. ASSUME Ahead(a, b) PROVE Ahead(a, b)'
  <2>1. PICK h \in Level, k \in Level, i \in Nat, j \in Nat :
          /\ i \in 1 .. Len(queue[h]) /\ j \in 1 .. Len(queue[k])
          /\ queue[h][i] = a /\ queue[k][j] = b /\ (h < k \/ (h = k /\ i < j))
    BY <1>2 DEF Ahead
  <2> DEFINE h1 == IF h = l THEN l - 1 ELSE h
             i1 == IF h = l THEN n + i ELSE i
             k1 == IF k = l THEN l - 1 ELSE k
             j1 == IF k = l THEN n + j ELSE j
  <2>2. h1 \in Level /\ i1 \in 1 .. Len(queue'[h1]) /\ queue'[h1][i1] = a
    BY <1>1, <2>1
  <2>3. k1 \in Level /\ j1 \in 1 .. Len(queue'[k1]) /\ queue'[k1][j1] = b
    BY <1>1, <2>1
  <2>4. h1 < k1 \/ (h1 = k1 /\ i1 < j1)
    <3>1. (h = l - 1 => i <= n) /\ h \in 0 .. 3 /\ k \in 0 .. 3 /\ i >= 1 /\ j >= 1
      BY <2>1 DEF Level, RaisedInto
    <3> QED
      BY ONLY <2>1, <3>1, l \in 1 .. 3, n \in Nat, i \in Nat, j \in Nat
  <2> HIDE DEF h1, i1, k1, j1
  <2> QED
    BY <2>2, <2>3, <2>4 DEF Ahead
<1>3. Queued(b)' <=> Queued(b)
  BY RaiseMoves
<1> QED
  BY <1>2, <1>3 DEF OrderKept

\* What a step makes of the fifos.
LEMMA QueueStep ==
  ASSUME FiberInv, PlaceInv, [Next]_vars
  PROVE  \/ queue' = queue
         \/ \E t \in Task : ~Queued(t) /\ queue' = Pushed(t)
         \/ \E l \in Level :
               /\ queue[l] # <<>> /\ queue' = [queue EXCEPT ![l] = Tail(queue[l])]
               /\ \A k \in Level : k < l => queue[k] = <<>>
         \/ \E l \in 1 .. 3 : queue' = [queue EXCEPT ![l - 1] = @ \o queue[l], ![l] = <<>>]
<1> DEFINE Result ==
              \/ queue' = queue
              \/ \E t \in Task : ~Queued(t) /\ queue' = Pushed(t)
              \/ \E l \in Level :
                    /\ queue[l] # <<>> /\ queue' = [queue EXCEPT ![l] = Tail(queue[l])]
                    /\ \A k \in Level : k < l => queue[k] = <<>>
              \/ \E l \in 1 .. 3 : queue' = [queue EXCEPT ![l - 1] = @ \o queue[l], ![l] = <<>>]
<1> SUFFICES Result
  OBVIOUS
\* Whoever is held is not queued, nor is another of its kin.
<1>1. ASSUME me.at \in {"run", "back"}, NEW u \in Kin(me.task) PROVE u \in Task /\ ~Queued(u)
  <2>1. PICK t \in Task : t = me.task /\ Held(t)
    BY <1>1, HeldNow DEF Held
  <2>2. u \in Kin(t) /\ u \in Task
    BY <1>1, <2>1, KinFacts
  <2> QED
    BY <2>1, <2>2 DEF PlaceInv, Exclusive
<1>2. me.at \in {"run", "back"} => me.task \in Task /\ me.task \in Kin(me.task)
  BY HeldNow, KinFacts
<1>3. ASSUME NEW t \in Job \cup Poller, Exec(t) PROVE Result
  <2>1. t \in Task /\ life[t] = "new" /\ queue' = Pushed(t) /\ t \in Kin(t)
    BY <1>3, FiberFacts, KinFacts DEF Exec
  <2>2. ~Queued(t)
    BY <2>1 DEF PlaceInv, Present
  <2> QED
    BY <2>1, <2>2
<1>4. CASE Requeue(1)
  <2>1. me.at = "back" /\ queue' = Pushed(me.task)
    BY <1>4 DEF Requeue, me
  <2> QED
    BY <1>1, <1>2, <2>1
<1>5. ASSUME NEW t \in Task, Finish(1, t) PROVE Result
  <2>1. CASE FinishJob(1, t)
    BY <2>1 DEF FinishJob
  <2>2. CASE FinishPoller(1, t)
    <3>1. me.at = "run" /\ me.task = t /\ (queue' = queue \/ queue' = Pushed(t))
      BY <2>2 DEF FinishPoller, me
    <3> QED
      BY <1>1, <1>2, <3>1
  <2>3. CASE FinishStage(1, t)
    <3>1. me.at = "run" /\ me.task = t /\ t \in StageTask /\ queue' = Pushed(NextStage(t))
      BY <2>3 DEF FinishStage, me
    <3>2. NextStage(t) \in Kin(me.task)
      BY <3>1, NextStageType DEF Kin
    <3> QED
      BY <1>1, <3>1, <3>2
  <2> QED
    BY <1>5, <2>1, <2>2, <2>3 DEF Finish
<1>6. CASE Pop(1)
  <2>1. PICK l \in Level :
          /\ queue[l] # <<>> /\ queue' = [queue EXCEPT ![l] = Tail(queue[l])]
          /\ \A k \in maskToPriority(eAll) .. l - 1 : queue[k] = <<>>
    BY <1>6 DEF Pop
  <2>2. maskToPriority(eAll) = 0
    BY DEF maskToPriority, eAll, MaskBit
  <2>3. \A k \in Level : k < l => k \in maskToPriority(eAll) .. l - 1
    BY <2>2 DEF Level
  <2> QED
    BY <2>1, <2>3
<1>7. CASE Raise(1)
  <2>1. me.level \in 1 .. 3
    BY <1>7 DEF Raise, me, FiberInv, OnFiber
  <2>2. queue' = [queue EXCEPT ![me.level - 1] = @ \o queue[me.level], ![me.level] = <<>>]
    BY <1>7 DEF Raise, me
  <2>3. PICK l \in 1 .. 3 : l = me.level
    BY <2>1
  <2>4. queue' = [queue EXCEPT ![l - 1] = @ \o queue[l], ![l] = <<>>]
    BY <2>2, <2>3
  <2> QED
    BY <2>4
<1>8. ASSUME NEW w \in Worker, Yield(w) \/ Await(w) \/ Leave(w) PROVE Result
  BY <1>8 DEF Yield, Await, Leave
<1>9. ASSUME NEW t \in Awaits, SetSignal(t) PROVE Result
  BY <1>9 DEF SetSignal
<1>10. CASE UNCHANGED vars
  BY <1>10 DEF vars
<1> HIDE DEF Result
<1>11. ASSUME NEW w \in Worker,
              Pop(w) \/ Yield(w) \/ Await(w) \/ Requeue(w) \/ Raise(w) \/ Leave(w)
       PROVE  Result
  <2>1. w = 1
    BY DEF Worker
  <2> QED
    BY <1>4, <1>6, <1>7, <1>8, <1>11, <2>1
<1>12. ASSUME NEW w \in Worker, NEW t \in Task, Finish(w, t) PROVE Result
  <2>1. w = 1
    BY DEF Worker
  <2> QED
    BY <1>5, <1>12, <2>1
<1> QED
  BY <1>3, <1>9, <1>10, <1>11, <1>12 DEF Next

LEMMA OrderStep ==
  ASSUME FiberInv, PlaceInv, [Next]_vars,
         NEW a \in Task, NEW b \in Task, MaskOf[a] = MaskOf[b], Queued(a), Queued(a)'
  PROVE  OrderKept(a, b)
<1>1. queue \in [Level -> Seq(Task)] /\ Exclusive /\ Raised
  BY DEF FiberInv, TypeOK, PlaceInv
<1>2. CASE queue' = queue
  BY <1>2 DEF OrderKept, Ahead, Queued
<1>3. ASSUME NEW t \in Task, ~Queued(t), queue' = Pushed(t) PROVE OrderKept(a, b)
  BY <1>1, <1>3, OrderPush
<1>4. ASSUME NEW l \in Level, queue[l] # <<>>, queue' = [queue EXCEPT ![l] = Tail(queue[l])],
             \A k \in Level : k < l => queue[k] = <<>>
      PROVE  OrderKept(a, b)
  BY <1>1, <1>4, OrderPop
<1>5. ASSUME NEW l \in 1 .. 3, queue' = [queue EXCEPT ![l - 1] = @ \o queue[l], ![l] = <<>>]
      PROVE  OrderKept(a, b)
  <2>1. PICK n \in Nat, m \in Nat : RaisedInto(l, n, m)
    BY <1>1, <1>5, RaisedPlaces
  <2> QED
    BY <2>1, OrderRaise
<1> QED
  BY <1>2, <1>3, <1>4, <1>5, QueueStep

\* For any tasks and masks: of two tasks of the same mask the one that waits first is
\* popped first, through every push, pop and tick.
THEOREM SameMaskTheorem == Spec => SameMaskInOrder
<1> DEFINE InOrder ==
      \A a, b \in Task :
         MaskOf[a] = MaskOf[b] /\ a # b /\ Waiting(a) # {} =>
             \/ Waiting(a)' = {}
             \/ (Before(a, b) \/ Waiting(b) = {}) =>
                    (Before(a, b)' \/ (Waiting(b) = {} /\ Waiting(b)' = {}))
<1>1. FiberInv /\ PlaceInv => AsSeen
  BY SeenAlways DEF FiberInv
<1>2. ASSUME FiberInv, PlaceInv, AsSeen, AsSeen', [Next]_vars PROVE [InOrder]_vars
  <2> SUFFICES ASSUME NEW a \in Task, NEW b \in Task, MaskOf[a] = MaskOf[b],
                      Waiting(a) # {}, Waiting(a)' # {}, Before(a, b) \/ Waiting(b) = {}
               PROVE  Before(a, b)' \/ (Waiting(b) = {} /\ Waiting(b)' = {})
    OBVIOUS
  <2>1. Queued(a) /\ Queued(a)' /\ (Ahead(a, b) \/ ~Queued(b))
    BY <1>2 DEF AsSeen
  <2>2. OrderKept(a, b)
    BY <1>2, <2>1, OrderStep
  <2>3. Ahead(a, b)' \/ (~Queued(b) /\ ~Queued(b)')
    BY <2>1, <2>2 DEF OrderKept
  <2> QED
    BY <1>2, <2>3 DEF AsSeen
<1>3. (FiberInv /\ PlaceInv /\ AsSeen) /\ (FiberInv /\ PlaceInv /\ AsSeen)' /\ [Next]_vars => [InOrder]_vars
  BY <1>2
<1>4. Spec => [](FiberInv /\ PlaceInv /\ AsSeen)
  BY <1>1, PlaceAlways, PTL
<1>5. Spec => [][InOrder]_vars
  BY <1>3, <1>4, PTL DEF Spec
<1> QED
  BY <1>5 DEF SameMaskInOrder
===============================================================================
