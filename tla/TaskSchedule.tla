----------------------------- MODULE TaskSchedule -----------------------------
(***************************************************************************)
(* The Schedule (Process, Process/WorkSet), the Worker that empties it and *)
(* the Fibers on which it runs the tasks.                                  *)
(*                                                                         *)
(* The Schedule has one fifo for each priority.  A worker pops the front   *)
(* of the first fifo that is not empty, gives the task a fiber unless it   *)
(* brings one along, and switches to the fiber.  A body that yields, or    *)
(* awaits a signal, switches back; the worker then pushes the task again,  *)
(* at the priority of its mask, with the fiber bound to it.  While the     *)
(* signal is not set the worker does not switch but only pushes again.     *)
(*                                                                         *)
(* Three kinds of tasks are told apart by what happens when the body has   *)
(* returned.  A Job (Task without TaskCtrl) is deleted.  A Poller          *)
(* (RepetitiveTask without TaskCtrl) is pushed again or deleted.  A stage  *)
(* task (RepetitiveTask of a CompositeSlot) reports to its pipeline, which *)
(* pushes the task of the next stage and ticks the Schedule; the pipeline  *)
(* itself is the subject of CompositePipeline and here a ring of stages of *)
(* one task each.                                                          *)
(***************************************************************************)
EXTENDS Naturals, Sequences, FiniteSets, SequencesExt

CONSTANTS
    Chain,          \* the stage tasks, in the order of their stages
    Job, Poller,    \* tasks that other threads pass to exec()
    MaskOf,         \* MaskOf[t]: the bits of TaskDelegate::_mask
    Suspends,       \* tasks whose body may yield
    Awaits,         \* jobs whose body awaits a signal of their own
    NoTask,         \* nullptr
    PoolCapacity    \* how many fibers the FiberPool keeps

StageTask == ToSet(Chain)
Task == StageTask \cup Job \cup Poller

MaskBit == {"critical", "higher", "normal", "lower"}
eAll == MaskBit

ASSUME ConstantsAssumption ==
    /\ Chain \in Seq(StageTask) /\ Chain # <<>>
    /\ IsInjective(Chain)
    /\ IsFiniteSet(Task)
    /\ StageTask \cap (Job \cup Poller) = {} /\ Job \cap Poller = {}
    /\ MaskOf \in [Task -> SUBSET MaskBit]
    /\ Suspends \subseteq Task /\ Awaits \subseteq Job
    /\ NoTask \notin Task
    /\ PoolCapacity \in Nat

\* Fibers are numbered; a task has one at a time, and a task that has been
\* pushed again while its body returned leaves one behind.
Fiber == 1 .. Cardinality(Task) + 1
NoFiber == 0

\* CompScheduler::setup overrides the requested number of workers.
Worker == {1}

Level == 0 .. 3

maskToPriority(mask) ==
    CASE "critical" \in mask -> 0
      [] "critical" \notin mask /\ "higher" \in mask -> 1
      [] mask \cap {"critical", "higher"} = {} /\ "lower" \in mask /\ "normal" \notin mask -> 3
      [] OTHER -> 2

VARIABLES
    queue,      \* the fifos of Schedule::_workSets
    life,       \* whether a task has been passed to the Schedule or deleted
    fiberOf,    \* TaskDelegate::_fiber
    alive,      \* the fibers that exist
    bound,      \* Fiber::task
    awaiter,    \* Fiber::awaiter: the fiber waits for the signal of its task
    pool,       \* FiberPool::_pool
    signal,     \* signals that have been set
    worker      \* what a worker is doing, see WorkerState

vars == <<queue, life, fiberOf, alive, bound, awaiter, pool, signal, worker>>

\* "pop": looking for a task; "run": inside the body; "tick": in the tick that
\* ends a stage, about to raise fifo level; "leave": delegate() has returned;
\* "back": switched back from a fiber that has not ended its task.
WorkerState ==
    [at : {"pop", "run", "tick", "leave", "back"}, task : Task \cup {NoTask},
     fiber : Fiber \cup {NoFiber}, level : Level]

Idle == [at |-> "pop", task |-> NoTask, fiber |-> NoFiber, level |-> 0]

TypeOK ==
    /\ queue \in [Level -> Seq(Task)]
    /\ life \in [Task -> {"new", "live", "gone"}]
    /\ fiberOf \in [Task -> Fiber \cup {NoFiber}]
    /\ alive \subseteq Fiber
    /\ bound \in [Fiber -> Task \cup {NoTask}]
    /\ awaiter \in [Fiber -> BOOLEAN]
    /\ pool \in Seq(Fiber)
    /\ signal \subseteq Awaits
    /\ worker \in [Worker -> WorkerState]

\* The pipeline has been started: the task of its first stage is pushed.
Init ==
    /\ queue = [l \in Level |->
                  IF l = maskToPriority(MaskOf[Chain[1]]) THEN <<Chain[1]>> ELSE <<>>]
    /\ life = [t \in Task |-> IF t \in StageTask THEN "live" ELSE "new"]
    /\ fiberOf = [t \in Task |-> NoFiber]
    /\ alive = {}
    /\ bound = [f \in Fiber |-> NoTask]
    /\ awaiter = [f \in Fiber |-> FALSE]
    /\ pool = <<>>
    /\ signal = {}
    /\ worker = [w \in Worker |-> Idle]
------------------------------------------------------------------------------
\* Definitions marked "Faulty" are not part of the model, see CompositePipeline.

\* Faulty Pushed: the task goes to the front.
PushedFirst(t) ==
    [queue EXCEPT ![maskToPriority(MaskOf[t])] = <<t>> \o @]

\* Schedule::push()
Pushed(t) == [queue EXCEPT ![maskToPriority(MaskOf[t])] = Append(@, t)]

\* exec() called by a thread that is no worker.
Exec(t) ==
    /\ life[t] = "new"
    /\ life' = [life EXCEPT ![t] = "live"]
    /\ queue' = Pushed(t)
    /\ UNCHANGED <<fiberOf, alive, bound, awaiter, pool, signal, worker>>

\* The platform sets the signal that a job awaits or is going to await.
SetSignal(t) ==
    /\ t \notin signal
    /\ signal' = signal \cup {t}
    /\ UNCHANGED <<queue, life, fiberOf, alive, bound, awaiter, pool, worker>>

\* FiberPool::acquire(): the oldest fiber of the pool, or a new one.
Acquired ==
    IF pool # <<>> THEN Head(pool) ELSE CHOOSE f \in Fiber : f \notin alive

\* Schedule::pop() and the switch to the fiber of the task, if its awaiter is
\* ready.  A body that is resumed in await() resets the awaiter.
Pop(w) ==
    \E l \in Level :
        /\ worker[w].at = "pop"
        /\ maskToPriority(eAll) <= l
        /\ queue[l] # <<>>
        /\ \A k \in maskToPriority(eAll) .. l - 1 : queue[k] = <<>>
        /\ LET t == Head(queue[l])
               f == IF fiberOf[t] = NoFiber THEN Acquired ELSE fiberOf[t]
               ready == awaiter[f] => t \in signal
           IN  /\ queue' = [queue EXCEPT ![l] = Tail(@)]
               /\ fiberOf' = [fiberOf EXCEPT ![t] = f]
               /\ bound' = [bound EXCEPT ![f] = IF fiberOf[t] = NoFiber THEN t ELSE @]
               /\ alive' = alive \cup {f}
               /\ pool' = IF fiberOf[t] = NoFiber /\ pool # <<>> THEN Tail(pool) ELSE pool
               /\ awaiter' = [awaiter EXCEPT ![f] = @ /\ ~ready]
               /\ worker' = [worker EXCEPT ![w] =
                    [at |-> IF ready THEN "run" ELSE "back", task |-> t, fiber |-> f, level |-> 0]]
        /\ UNCHANGED <<life, signal>>

\* The body calls yield().
Yield(w) ==
    /\ worker[w].at = "run"
    /\ worker[w].task \in Suspends
    /\ worker' = [worker EXCEPT ![w].at = "back"]
    /\ UNCHANGED <<queue, life, fiberOf, alive, bound, awaiter, pool, signal>>

\* The body calls await_signal().
Await(w) ==
    /\ worker[w].at = "run"
    /\ worker[w].task \in Awaits
    /\ awaiter' = [awaiter EXCEPT ![worker[w].fiber] = TRUE]
    /\ worker' = [worker EXCEPT ![w].at = "back"]
    /\ UNCHANGED <<queue, life, fiberOf, alive, bound, pool, signal>>

\* Faulty Requeue: only a task that is ready is pushed again.
RequeueReady(w) ==
    /\ worker[w].at = "back"
    /\ queue' = IF awaiter[worker[w].fiber] THEN queue ELSE Pushed(worker[w].task)
    /\ worker' = [worker EXCEPT ![w] = Idle]
    /\ UNCHANGED <<life, fiberOf, alive, bound, awaiter, pool, signal>>

\* The fiber still has a task: "Reschedule suspended task".
Requeue(w) ==
    /\ worker[w].at = "back"
    /\ queue' = Pushed(worker[w].task)
    /\ worker' = [worker EXCEPT ![w] = Idle]
    /\ UNCHANGED <<life, fiberOf, alive, bound, awaiter, pool, signal>>
------------------------------------------------------------------------------
\* The body of a task has returned; what delegate() does then.  A task that is
\* deleted has no fiber any more.
FinishJob(w, t) ==
    /\ worker[w].at = "run"
    /\ worker[w].task = t
    /\ t \in Job
    /\ t \in Awaits => t \in signal
    /\ life' = [life EXCEPT ![t] = "gone"]
    /\ fiberOf' = [fiberOf EXCEPT ![t] = NoFiber]
    /\ worker' = [worker EXCEPT ![w].at = "leave"]
    /\ UNCHANGED <<queue, alive, bound, awaiter, pool, signal>>

FinishPoller(w, t) ==
    /\ worker[w].at = "run"
    /\ worker[w].task = t
    /\ t \in Poller
    /\ fiberOf' = [fiberOf EXCEPT ![t] = NoFiber]
    /\ \/ queue' = Pushed(t) /\ life' = life
       \/ queue' = queue /\ life' = [life EXCEPT ![t] = "gone"]
    /\ worker' = [worker EXCEPT ![w].at = "leave"]
    /\ UNCHANGED <<alive, bound, awaiter, pool, signal>>

NextStage(t) ==
    LET i == CHOOSE i \in DOMAIN Chain : Chain[i] = t
    IN  IF i = Len(Chain) THEN Chain[1] ELSE Chain[i + 1]

\* Faulty FinishStage: the task keeps its fiber, as it does in delegate() when
\* the body of a stage task returns false.
FinishStageBound(w, t) ==
    /\ worker[w].at = "run"
    /\ worker[w].task = t
    /\ t \in StageTask
    /\ fiberOf' = fiberOf
    /\ queue' = Pushed(NextStage(t))
    /\ worker' = [worker EXCEPT ![w].at = "tick", ![w].level = 1]
    /\ UNCHANGED <<life, alive, bound, awaiter, pool, signal>>

\* The task drops its fiber before onComplete(); the pipeline pushes the next
\* stage, which may be this very task, and ticks.
FinishStage(w, t) ==
    /\ worker[w].at = "run"
    /\ worker[w].task = t
    /\ t \in StageTask
    /\ fiberOf' = [fiberOf EXCEPT ![t] = NoFiber]
    /\ queue' = Pushed(NextStage(t))
    /\ worker' = [worker EXCEPT ![w].at = "tick", ![w].level = 1]
    /\ UNCHANGED <<life, alive, bound, awaiter, pool, signal>>

\* Faulty Raise: nothing is raised.
RaiseNothing(w) ==
    /\ worker[w].at = "tick"
    /\ queue' = queue
    /\ worker' = [worker EXCEPT
                    ![w].at = IF worker[w].level = 3 THEN "leave" ELSE "tick",
                    ![w].level = IF worker[w].level = 3 THEN 0 ELSE @ + 1]
    /\ UNCHANGED <<life, fiberOf, alive, bound, awaiter, pool, signal>>

\* Faulty Raise: the loop over the fifos runs one too far.
RaiseTooFar(w) ==
    LET l == worker[w].level IN
    /\ worker[w].at = "tick"
    /\ queue' = [queue EXCEPT ![l - 1] = @ \o queue[l], ![l] = <<>>]
    /\ worker' = [worker EXCEPT ![w].at = IF l = 4 THEN "leave" ELSE "tick",
                                ![w].level = IF l = 4 THEN 0 ELSE l + 1]
    /\ UNCHANGED <<life, fiberOf, alive, bound, awaiter, pool, signal>>

\* Schedule::tick(): one fifo after the other is appended to that of the next
\* higher priority.
Raise(w) ==
    LET l == worker[w].level IN
    /\ worker[w].at = "tick"
    /\ queue' = [queue EXCEPT ![l - 1] = @ \o queue[l], ![l] = <<>>]
    /\ worker' = [worker EXCEPT ![w].at = IF l = 3 THEN "leave" ELSE "tick",
                                ![w].level = IF l = 3 THEN 0 ELSE l + 1]
    /\ UNCHANGED <<life, fiberOf, alive, bound, awaiter, pool, signal>>

\* The launch pad clears the task of the fiber and yields; FiberPool::release()
\* keeps the fiber, or destroys it when the pool is full.
Leave(w) ==
    LET f == worker[w].fiber
        kept == Len(pool) < PoolCapacity
    IN
    /\ worker[w].at = "leave"
    /\ bound' = [bound EXCEPT ![f] = NoTask]
    /\ pool' = IF kept THEN Append(pool, f) ELSE pool
    /\ alive' = IF kept THEN alive ELSE alive \ {f}
    /\ worker' = [worker EXCEPT ![w] = Idle]
    /\ UNCHANGED <<queue, life, fiberOf, awaiter, signal>>

Finish(w, t) == FinishJob(w, t) \/ FinishPoller(w, t) \/ FinishStage(w, t)

Next ==
    \/ \E t \in Job \cup Poller : Exec(t)
    \/ \E t \in Awaits : SetSignal(t)
    \/ \E w \in Worker :
          \/ Pop(w) \/ Yield(w) \/ Await(w) \/ Requeue(w) \/ Raise(w) \/ Leave(w)
          \/ \E t \in Task : Finish(w, t)

Spec == Init /\ [][Next]_vars

\* The worker never stops (weak fairness), a body that is resumed again and
\* again returns at last (strong fairness), and the platform sets its signals.
Fairness ==
    /\ \A w \in Worker :
          /\ WF_vars(Pop(w) \/ Requeue(w) \/ Raise(w) \/ Leave(w))
          /\ \A t \in Task : SF_vars(Finish(w, t))
    /\ \A t \in Awaits : WF_vars(SetSignal(t))

FairSpec == Spec /\ Fairness
------------------------------------------------------------------------------
Places == {p \in Level \X (1 .. Cardinality(Task)) : p[2] <= Len(queue[p[1]])}
Waiting(t) == {p \in Places : queue[p[1]][p[2]] = t}
Holding(t) ==
    {w \in Worker : worker[w].task = t /\ worker[w].at \in {"run", "back"}}

\* Safety.  A task is in the Schedule or on a worker, in one place only, and it
\* is in one of them from exec() until it is deleted: no task is lost while it
\* waits for its signal, and none is run twice at a time.  Of the stage tasks
\* one is under way.
OnePlaceEach ==
    /\ \A l \in Level : Len(queue[l]) <= Cardinality(Task)
    /\ \A t \in Job \cup Poller :
          Cardinality(Waiting(t)) + Cardinality(Holding(t))
              = IF life[t] = "live" THEN 1 ELSE 0
    /\ Cardinality(UNION {Waiting(t) : t \in StageTask})
          + Cardinality(UNION {Holding(t) : t \in StageTask}) = 1

\* Safety.  Every fiber that exists is either spare (in the pool, without task
\* and awaiter), or the fiber of the one task it is bound to, or about to be
\* released by the worker on it.  A task that waits never brings along a fiber
\* of the pool or of another task.
FibersOwned ==
    LET spare == ToSet(pool)
        owned == {f \in Fiber : \E t \in Task : fiberOf[t] = f}
        leaving == {worker[w].fiber : w \in {v \in Worker : worker[v].at \in {"tick", "leave"}}}
    IN  /\ alive = spare \cup owned \cup leaving
        /\ Len(pool) = Cardinality(spare) /\ Len(pool) <= PoolCapacity
        /\ spare \cap (owned \cup leaving) = {} /\ owned \cap leaving = {}
        /\ \A f \in spare : bound[f] = NoTask /\ ~awaiter[f]
        /\ \A t \in Task : fiberOf[t] # NoFiber => bound[fiberOf[t]] = t
        /\ \A f \in leaving : ~awaiter[f]

\* Where a task is in the order in which a worker looks for tasks.
Before(a, b) ==
    \E p \in Waiting(a), q \in Waiting(b) :
        p[1] < q[1] \/ (p[1] = q[1] /\ p[2] < q[2])

\* Action property.  Tasks of the same mask are popped in the order in which
\* they are pushed, whatever ticks raise them in between and whichever of them
\* is suspended and pushed again.
SameMaskInOrder ==
    [][\A a, b \in Task :
         MaskOf[a] = MaskOf[b] /\ a # b /\ Waiting(a) # {} =>
             \/ Waiting(a)' = {}
             \/ (Before(a, b) \/ Waiting(b) = {}) =>
                    (Before(a, b)' \/ (Waiting(b) = {} /\ Waiting(b)' = {}))]_vars

\* Liveness.  A job that has been passed to exec() runs to its end, also one of
\* the lowest priority among tasks that are pushed again for ever.
JobsFinish == \A t \in Job : life[t] = "live" ~> life[t] = "gone"

\* Liveness.  The stages go round, whatever the other tasks wait for.
StagesGoRound == \A t \in StageTask : []<>(\E w \in Worker : worker[w].task = t)
===============================================================================
