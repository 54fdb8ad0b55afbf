-------------------------- MODULE CompositePipeline --------------------------
(***************************************************************************)
(* The run time of Engine.Scheduler/Pipeline: CompositePipeline, its       *)
(* CompositeStages and CompositeSlots, driven by the workers that pop the  *)
(* stage tasks.                                                            *)
(*                                                                         *)
(* resolve() has ordered the stages in the vector _compositeStages; a      *)
(* stage is named by its position in that vector.  Every composite stage   *)
(* has a generation (how often it has completed); each of its dependencies *)
(* carries the generation it requires.  start() and dispatch() treat all   *)
(* the dependencies of a stage alike, so one number per stage, req[s],     *)
(* stands for them.  A slot counts the tasks it has pushed and not seen    *)
(* complete (_signals); when the last one completes, complete() advances   *)
(* the generation, dispatches the later stages that have become ready and, *)
(* for the last stage, begins the next frame or clears _stopping.          *)
(*                                                                         *)
(* Tasks are told apart by their slot only: queued[s] is the number of     *)
(* tasks of slot s in the Schedule (the order in which they are popped is  *)
(* the subject of TaskSchedule).  A task body is opaque; it may suspend *)
(* its fiber, which puts the task back into the Schedule.                  *)
(***************************************************************************)
EXTENDS Naturals, FiniteSets

CONSTANTS
    N,              \* number of composite stages
    Deps,           \* Deps[s]: the dependencies of composite stage s
    StaticTasks,    \* StaticTasks[s]: tasks staticDispatch enqueues into slot s
    DynamicTasks,   \* the numbers of tasks a dynamicDispatch may enqueue
    MaxFrames,      \* bound: stop() is called at the latest in this frame
    MaxStarts       \* bound: how often start() is called

Stage == 1 .. N
Front == 1
Last  == N

ASSUME ConstantsAssumption ==
    /\ N \in Nat \ {0}
    /\ Deps \in [Stage -> SUBSET Stage]
    /\ StaticTasks \in [Stage -> Nat]
    /\ DynamicTasks \subseteq Nat
    /\ MaxFrames \in Nat
    /\ MaxStarts \in Nat

\* resolve() inserts a stage only behind everything it depends on.
ASSUME ResolvedAssumption ==
    \A s \in Stage : \A d \in Deps[s] : d < s

\* Every pipeline of the engine hangs its stages below TickBegin.
ASSUME FrontAssumption ==
    \A s \in Stage \ {Front} : Deps[s] # {}

\* CorePipeline and ActorPipeline declare the dependencies that make TickEnd
\* the end of every chain ("Guarantee that tick end stage is latest within
\* dependent chain").
ASSUME LastAssumption ==
    \A s \in Stage \ {Last} : \E t \in Stage : s \in Deps[t]

\* Definitions marked "Faulty" are not part of the model: each is what a
\* plausible mistake in the code would make of the definition it precedes, and
\* serves to show that a property notices that mistake.

\* Faulty WorkerCount: two workers share the pipeline.
TwoWorkers == 2

\* CompScheduler::setup overrides the requested number of workers.
WorkerCount == 1
Worker == 1 .. WorkerCount
------------------------------------------------------------------------------
VARIABLES
    gen,        \* CompositeStage::generation
    req,        \* CompositeDependency::requiredGeneration
    static,     \* number of CompositeSlot::_staticTasks
    sig,        \* CompositeSlot::_signals
    queued,     \* tasks of the slot that wait in the Schedule
    worker,     \* what a worker is doing, see WorkerState
    phase,      \* how far the engine has driven start() and stop()
    stopping,   \* CompositePipeline::_stopping
    starts      \* number of calls of start()

vars == <<gen, req, static, sig, queued, worker, phase, stopping, starts>>

\* "pop": looking for a task; "run": inside a task of stage; "scan": in
\* complete() of stage, about to look at stage next; "dispatch": next was
\* found ready.
WorkerState ==
    [at : {"pop", "run", "scan", "dispatch"}, stage : Stage, next : 1 .. N + 1]

Idle == [at |-> "pop", stage |-> Front, next |-> 1]

TypeOK ==
    /\ gen \in [Stage -> Nat]
    /\ req \in [Stage -> Nat]
    /\ static \in [Stage -> Nat]
    /\ sig \in [Stage -> Nat]
    /\ queued \in [Stage -> Nat]
    /\ worker \in [Worker -> WorkerState]
    /\ phase \in {"setup", "running", "stopping", "stopped"}
    /\ stopping \in BOOLEAN
    /\ starts \in 0 .. MaxStarts

Init ==
    /\ gen = [s \in Stage |-> 0]
    /\ req = [s \in Stage |-> 0]
    /\ static = [s \in Stage |-> 0]
    /\ sig = [s \in Stage |-> 0]
    /\ queued = [s \in Stage |-> 0]
    /\ worker = [w \in Worker |-> Idle]
    /\ phase = "setup"
    /\ stopping = FALSE
    /\ starts = 0
------------------------------------------------------------------------------
\* Faulty Ready: one satisfied dependency is enough.
ReadyAny(s) == \E d \in Deps[s] : req[s] <= gen[d]

Ready(s) == \A d \in Deps[s] : req[s] <= gen[d]

\* Faulty Submit: the dummy task is pushed without a signal.
SubmitUncounted(s, n) ==
    LET pushed == IF sig[s] + n = 0 THEN 1 ELSE n
    IN  /\ sig' = [sig EXCEPT ![s] = @ + n]
        /\ queued' = [queued EXCEPT ![s] = @ + pushed]

\* Faulty Submit: no dummy task for an empty slot.
SubmitNoDummy(s, n) ==
    /\ sig' = [sig EXCEPT ![s] = @ + n]
    /\ queued' = [queued EXCEPT ![s] = @ + n]

\* submit(): the static and the n dynamic tasks are counted and pushed; a slot
\* that would be left without a signal gets a dummy task.
Submit(s, n) ==
    LET pushed == IF sig[s] + n = 0 THEN 1 ELSE n
    IN  /\ sig' = [sig EXCEPT ![s] = @ + pushed]
        /\ queued' = [queued EXCEPT ![s] = @ + pushed]

\* Faulty Dispatch: the required generations stay behind.
DispatchNoIncrement(s) ==
    /\ req' = req
    /\ \E d \in DynamicTasks : Submit(s, static[s] + d)

Dispatch(s) ==
    /\ req' = [req EXCEPT ![s] = @ + 1]
    /\ \E d \in DynamicTasks : Submit(s, static[s] + d)

\* start(), run as a task on worker w: the first stage requires generation 0
\* of its dependencies, all others 1; prepareSlots() enqueues the static tasks;
\* then the first stage is dispatched.
Start(w) ==
    /\ worker[w].at = "pop"
    /\ phase \in {"setup", "stopped"}
    /\ starts < MaxStarts
    /\ req' = [s \in Stage |-> IF s = Front THEN 0 + 1 ELSE 1]
    /\ static' = [s \in Stage |-> static[s] + StaticTasks[s]]
    /\ \E d \in DynamicTasks : Submit(Front, static'[Front] + d)
    /\ phase' = "running"
    /\ starts' = starts + 1
    /\ UNCHANGED <<gen, worker, stopping>>

\* The bound on frames: the last stage of frame MaxFrames waits for stop().
Pop(w, s) ==
    /\ worker[w].at = "pop"
    /\ queued[s] > 0
    /\ s = Last => gen[Last] + 1 < MaxFrames \/ stopping
    /\ queued' = [queued EXCEPT ![s] = @ - 1]
    /\ worker' = [worker EXCEPT ![w] = [at |-> "run", stage |-> s, next |-> 1]]
    /\ UNCHANGED <<gen, req, static, sig, phase, stopping, starts>>

\* The task suspends its fiber and is pushed back.
Suspend(w) ==
    /\ worker[w].at = "run"
    /\ queued' = [queued EXCEPT ![worker[w].stage] = @ + 1]
    /\ worker' = [worker EXCEPT ![w] = Idle]
    /\ UNCHANGED <<gen, req, static, sig, phase, stopping, starts>>

\* The task has finished: onComplete() drops its signal, and the last signal
\* enters complete(), which advances the generation.
OnComplete(w) ==
    LET s == worker[w].stage IN
    /\ worker[w].at = "run"
    /\ sig' = [sig EXCEPT ![s] = @ - 1]
    /\ IF sig[s] # 1
       THEN /\ worker' = [worker EXCEPT ![w] = Idle]
            /\ gen' = gen
       ELSE /\ worker' = [worker EXCEPT ![w] =
                            [at |-> "scan", stage |-> s, next |-> s + 1]]
            /\ gen' = [gen EXCEPT ![s] = @ + 1]
    /\ UNCHANGED <<req, static, queued, phase, stopping, starts>>

\* Faulty Scan: the loop ends at the first stage that is not ready.
ScanBreak(w) ==
    LET s == worker[w].next IN
    /\ worker[w].at = "scan"
    /\ s <= N
    /\ worker' = [worker EXCEPT ![w] =
                    IF Ready(s) THEN [@ EXCEPT !.at = "dispatch"]
                                ELSE [@ EXCEPT !.next = N + 1]]
    /\ UNCHANGED <<gen, req, static, sig, queued, phase, stopping, starts>>

\* One turn of the loop in complete(): is the next later stage ready?
Scan(w) ==
    LET s == worker[w].next IN
    /\ worker[w].at = "scan"
    /\ s <= N
    /\ worker' = [worker EXCEPT ![w] =
                    IF Ready(s) THEN [@ EXCEPT !.at = "dispatch"]
                                ELSE [@ EXCEPT !.next = s + 1]]
    /\ UNCHANGED <<gen, req, static, sig, queued, phase, stopping, starts>>

DispatchNext(w) ==
    LET s == worker[w].next IN
    /\ worker[w].at = "dispatch"
    /\ Dispatch(s)
    /\ worker' = [worker EXCEPT ![w] =
                    [at |-> "scan", stage |-> worker[w].stage, next |-> s + 1]]
    /\ UNCHANGED <<gen, static, phase, stopping, starts>>

\* Faulty Wrap: stop() is never answered.
WrapNoAnswer(w) ==
    /\ worker[w].at = "scan"
    /\ worker[w].next = N + 1
    /\ worker' = [worker EXCEPT ![w] = Idle]
    /\ \/ /\ worker[w].stage = Last
          /\ ~stopping
          /\ Dispatch(Front)
          /\ UNCHANGED stopping
       \/ /\ worker[w].stage = Last
          /\ stopping
          /\ stopping' = stopping
          /\ UNCHANGED <<req, sig, queued>>
       \/ /\ worker[w].stage # Last
          /\ UNCHANGED <<req, sig, queued, stopping>>
    /\ UNCHANGED <<gen, static, phase, starts>>

\* The end of complete(): the last stage begins the next frame, or tells
\* stop() that the frame is over.
Wrap(w) ==
    /\ worker[w].at = "scan"
    /\ worker[w].next = N + 1
    /\ worker' = [worker EXCEPT ![w] = Idle]
    /\ \/ /\ worker[w].stage = Last
          /\ ~stopping
          /\ Dispatch(Front)
          /\ UNCHANGED stopping
       \/ /\ worker[w].stage = Last
          /\ stopping
          /\ stopping' = FALSE
          /\ UNCHANGED <<req, sig, queued>>
       \/ /\ worker[w].stage # Last
          /\ UNCHANGED <<req, sig, queued, stopping>>
    /\ UNCHANGED <<gen, static, phase, starts>>

\* stop(), run as a task on worker w, sets the flag and yields until it is
\* clear; StopReturn is the turn of its loop that finds it clear.
RequestStop(w) ==
    /\ worker[w].at = "pop"
    /\ phase = "running"
    /\ stopping' = TRUE
    /\ phase' = "stopping"
    /\ UNCHANGED <<gen, req, static, sig, queued, worker, starts>>

StopReturn(w) ==
    /\ worker[w].at = "pop"
    /\ phase = "stopping"
    /\ ~stopping
    /\ phase' = "stopped"
    /\ UNCHANGED <<gen, req, static, sig, queued, worker, stopping, starts>>

\* The engine is not started again: workers go on popping nothing.
Rest ==
    /\ phase = "stopped"
    /\ starts = MaxStarts
    /\ UNCHANGED vars

Next ==
    \/ \E w \in Worker :
          \/ \E s \in Stage : Pop(w, s)
          \/ Start(w) \/ Suspend(w) \/ OnComplete(w) \/ Scan(w)
          \/ DispatchNext(w) \/ Wrap(w) \/ RequestStop(w) \/ StopReturn(w)
    \/ Rest

Spec == Init /\ [][Next]_vars

\* The workers never stop looking for tasks and every step of complete() is
\* finite (weak fairness); a task that waits in the Schedule is popped and a
\* body that is resumed again and again finishes (strong fairness: the worker
\* is busy, or the body suspended, in between).
Fairness ==
    \A w \in Worker :
        /\ WF_vars(Start(w))
        /\ WF_vars(Scan(w))
        /\ WF_vars(DispatchNext(w))
        /\ WF_vars(Wrap(w))
        /\ WF_vars(StopReturn(w))
        /\ SF_vars(OnComplete(w))
        /\ \A s \in Stage : SF_vars(Pop(w, s))

FairSpec == Spec /\ Fairness
------------------------------------------------------------------------------
Live(s) == sig[s] > 0

InBody(s) == {w \in Worker : worker[w].at = "run" /\ worker[w].stage = s}

BetweenFrames == \A s \in Stage : ~Live(s) /\ gen[s] = gen[Last]

\* Safety.  The signals of a slot are exactly its tasks that wait in the
\* Schedule or run on a worker: none is lost or counted twice, so the slot
\* neither completes early nor waits for ever.
SignalsMatchTasks ==
    \A s \in Stage : sig[s] = queued[s] + Cardinality(InBody(s))

\* Safety.  While a stage runs, each of its dependencies has completed in the
\* same frame and does not run: the order every declareDependencies() asks for.
DependencyOrder ==
    \A s \in Stage : Live(s) =>
        \A d \in Deps[s] : ~Live(d) /\ gen[d] = gen[s] + 1

\* Safety.  Outside the loop of complete(), every stage whose dependencies
\* have all completed in this frame has run or runs: the loop of one of them
\* has found it ready.
NoStageForgotten ==
    (\A w \in Worker : worker[w].at \in {"pop", "run"}) =>
        \A s \in Stage \ {Front} :
            (\A d \in Deps[s] : gen[d] > gen[s]) => Live(s)

\* Safety.  When stop() has returned, no task of any stage is left and all
\* stages have completed the same frames.
StopsBetweenFrames == phase = "stopped" => BetweenFrames

\* Action property.  A slot is submitted only when it has no signal left: the
\* static tasks of a stage are never in the Schedule twice, which would have
\* two workers resume one fiber.
SubmitOnlyIdleSlots ==
    [][\A s \in Stage : sig'[s] > sig[s] => sig[s] = 0]_vars

\* Action property.  The first stage is dispatched only when the previous frame
\* is over for every stage, not only for the last one of the vector.
FrameBarrier ==
    [][sig'[Front] > sig[Front] => BetweenFrames]_vars

\* Refinement.  The pipeline implements the frame schedule: a stage runs while
\* its slot has signals and has ended when its generation is ahead of the last
\* stage's.
Frames == INSTANCE FrameSchedule WITH
    Requires <- Deps,
    frame    <- gen[Last],
    done     <- {s \in Stage : gen[s] > gen[Last]},
    running  <- {s \in Stage : Live(s)},
    halted   <- phase \in {"setup", "stopped"}

ImplementsFrames == Frames!FrameSpec

\* Liveness.  A started pipeline goes on completing frames until it is asked
\* to stop, also through stages that have no task of their own.
FrameProgress ==
    \A k \in 0 .. MaxFrames :
        (phase = "running" /\ gen[Last] = k)
            ~> (gen[Last] > k \/ phase # "running" \/ k + 1 >= MaxFrames)

\* Liveness.  stop() returns.
StopTerminates == phase = "stopping" ~> phase = "stopped"
==============================================================================
