---------------------------- MODULE EngineLifecycle ----------------------------
(***************************************************************************)
(* The life cycle of an engine: preInit(), init(), postInit(), start(),    *)
(* stop(), shutdown() and exit() of GameEngine and EditorEngine, which the *)
(* main thread calls, and the tasks that these calls pass to the scheduler *)
(* and wait for.                                                           *)
(*                                                                         *)
(* A call works in rounds: it passes one or more tasks to exec(), each of  *)
(* which refers to a counter (or flag) on the stack of the call, waits     *)
(* until the counter has the expected value and goes on.  The tasks visit  *)
(* modules; the body of a module's setup(), start(), stop() or destroy()   *)
(* is opaque and may suspend.  All tasks have the mask eNormal, as have    *)
(* the stage tasks, so that the Schedule is one fifo here (SameMaskInOrder *)
(* of TaskSchedule); the pipeline is what FrameSchedule promises, a frame  *)
(* of MaxStage stages one after the other.                                 *)
(***************************************************************************)
EXTENDS Naturals, Sequences, SequencesExt

CONSTANTS
    CoreModules,    \* the sequence of core modules that preInit() registers
    SubModules,     \* the list of sub modules after preInit(), see ModuleOrder
    Editor,         \* EditorEngine, or else GameEngine
    MaxStage,       \* the number of stages of a frame
    MaxStarts       \* bound: how often an engine that is set up is started

CoreModule == ToSet(CoreModules)
SubModule == ToSet(SubModules)
Module == CoreModule \cup SubModule

\* Definitions marked "Faulty" are not part of the model, see CompositePipeline.

ASSUME ConstantsAssumption ==
    /\ CoreModules \in Seq(CoreModule) /\ SubModules \in Seq(SubModule)
    /\ IsInjective(CoreModules) /\ IsInjective(SubModules)
    /\ CoreModule \cap SubModule = {}
    /\ Editor \in BOOLEAN
    /\ MaxStage \in Nat \ {0} /\ MaxStarts \in Nat

VARIABLES
    engineState,    \* Engine::_engineState
    main,           \* the call the main thread is in
    counter,        \* setupCounter, next, moduleCount, ...: on its stack
    subModules,     \* Modules::_subModules
    status,         \* how far each module is
    scheduler,      \* whether there is a Schedule and a worker
    queue,          \* the Schedule
    worker,         \* the task the worker is in
    frame,          \* the stage that is due or running; 0: the pipeline halts
    stopping,       \* CompositePipeline::_stopping
    starts,         \* number of starts since the scheduler was set up
    aborted         \* an assertion has failed

pipeline == <<frame, stopping, starts>>
vars == <<engineState, main, counter, subModules, status, scheduler, queue,
          worker, pipeline, aborted>>

Call == {"preInit", "init", "postInit", "start", "stop", "shutdown", "exit"}
ModuleJob == {"setup", "start", "stop", "destroy"}
Job == ModuleJob \cup {"run", "halt", "halting", "stage"}

\* A task: what it does, for which call, and the modules it has yet to visit.
Task == [job : Job, of : Call \cup {"pipeline"}, todo : Seq(Module)]
Idle == [job |-> "stage", of |-> "none", todo |-> <<>>]

TypeOK ==
    /\ engineState \in 0 .. 4
    /\ main \in [call : Call \cup {"none"}, round : 0 .. 4, pending : Seq(Task)]
    /\ counter \in 0 .. Len(CoreModules) \cup {1}
    /\ \E k \in 0 .. Len(SubModules) : subModules = SubSeq(SubModules, 1, k)
    /\ status \in [Module -> {"none", "created", "setup", "started", "stopped", "destroyed"}]
    /\ scheduler \in BOOLEAN
    /\ queue \in Seq(Task)
    /\ worker \in Task \cup {Idle}
    /\ frame \in 0 .. MaxStage
    /\ stopping \in BOOLEAN
    /\ starts \in 0 .. MaxStarts
    /\ aborted \in BOOLEAN

Quiet == [call |-> "none", round |-> 0, pending |-> <<>>]

Init ==
    /\ engineState = 0
    /\ main = Quiet
    /\ counter = 0
    /\ subModules = <<>>
    /\ status = [m \in Module |-> "none"]
    /\ scheduler = FALSE
    /\ queue = <<>>
    /\ worker = Idle
    /\ frame = 0 /\ stopping = FALSE /\ starts = 0
    /\ aborted = FALSE
------------------------------------------------------------------------------
\* The states in which a call does not return false at once, and the state it
\* leads to: eStopped is ePostInitialized, eShutdown is ePreInitialized and
\* eExited is eUndefined.
From(call) ==
    CASE call = "preInit"  -> {0}
      [] call = "init"     -> {1}
      [] call = "postInit" -> {2}
      [] call = "start"    -> {3}
      [] call = "stop"     -> {4}
      [] call = "shutdown" -> {2, 3}
      [] call = "exit"     -> {1}
To(call) ==
    CASE call = "preInit"  -> 1
      [] call = "init"     -> 2
      [] call = "postInit" -> 3
      [] call = "start"    -> 4
      [] call = "stop"     -> 3
      [] call = "shutdown" -> 1
      [] call = "exit"     -> 0

\* Faulty SubModulesExpected: nothing to wait for, as it is in a GameEngine
\* without sub modules.
ExpectNothing == 0

\* The value init() expects of the counter that the one task for all sub modules
\* increments.
SubModulesExpected == IF Editor THEN 1 ELSE Len(SubModules)

One(call, job, modules) ==
    [tasks  |-> <<[job |-> job, of |-> call, todo |-> modules]>>, expect |-> 1]
Each(call, job, modules) ==
    [tasks  |-> [i \in DOMAIN modules |-> [job |-> job, of |-> call, todo |-> <<modules[i]>>]],
     expect |-> Len(modules)]

\* The rounds of a call.  The two engines differ in what init() expects of the
\* sub modules and in the direction in which stop() walks through them.
Rounds(call) ==
    CASE call = "init" ->
            << Each(call, "setup", CoreModules),
               [One(call, "setup", subModules) EXCEPT !.expect = SubModulesExpected] >>
      [] call = "start" ->
            << One(call, "run", <<>>), One(call, "start", CoreModules),
               One(call, "start", subModules) >>
      [] call = "stop" ->
            << One(call, "stop", IF Editor THEN Reverse(subModules) ELSE subModules),
               One(call, "stop", CoreModules), One(call, "halt", <<>>) >>
      [] call = "shutdown" ->
            << One(call, "destroy", Reverse(subModules)),
               Each(call, "destroy", CoreModules) >>
      [] OTHER -> <<>>

Entered(call, r) ==
    [call |-> call, round |-> r,
     pending |-> IF r <= Len(Rounds(call)) THEN Rounds(call)[r].tasks ELSE <<>>]

\* preInit() creates the modules.  The sub modules are added by preInitSubModules
\* of the editor, by the program that embeds a GameEngine.
Created(call) ==
    IF call = "preInit"
    THEN /\ status' = [m \in Module |-> "created"]
         /\ subModules' = SubModules
    ELSE UNCHANGED <<status, subModules>>

\* init() sets the scheduler up before its first round.
Enter(call) ==
    /\ main = Quiet /\ ~aborted
    /\ engineState \in From(call)
    /\ call = "start" => starts < MaxStarts
    /\ main' = Entered(call, 1)
    /\ counter' = 0
    /\ Created(call)
    /\ scheduler' = (scheduler \/ call = "init")
    /\ starts' = IF call = "start" THEN starts + 1 ELSE starts
    /\ UNCHANGED <<engineState, queue, worker, frame, stopping, aborted>>

Exec ==
    /\ main.pending # <<>>
    /\ queue' = Append(queue, Head(main.pending))
    /\ main' = [main EXCEPT !.pending = Tail(@)]
    /\ UNCHANGED <<engineState, counter, subModules, status, scheduler, worker,
                   pipeline, aborted>>

\* Faulty Await: the call does not wait.
AwaitNothing ==
    /\ main.pending = <<>>
    /\ main.round \in DOMAIN Rounds(main.call)
    /\ main' = Entered(main.call, main.round + 1)
    /\ counter' = 0
    /\ UNCHANGED <<engineState, subModules, status, scheduler, queue, worker,
                   pipeline, aborted>>

\* waitUntilAtomic() or waitOnAtomic() returns; the counter is cleared.
Await ==
    /\ main.pending = <<>>
    /\ main.round \in DOMAIN Rounds(main.call)
    /\ counter = Rounds(main.call)[main.round].expect
    /\ main' = Entered(main.call, main.round + 1)
    /\ counter' = 0
    /\ UNCHANGED <<engineState, subModules, status, scheduler, queue, worker,
                   pipeline, aborted>>

Finished(call) == main.call = call /\ main.round > Len(Rounds(call))

Return(call) ==
    /\ call \notin {"shutdown", "exit"}
    /\ Finished(call)
    /\ main' = Quiet
    /\ engineState' = To(call)
    /\ UNCHANGED <<counter, subModules, status, scheduler, queue, worker, pipeline, aborted>>

\* CompScheduler::destroy() joins the worker, which ends after the task it is
\* in, and drops the Schedule.
ReturnShutdown ==
    /\ Finished("shutdown")
    /\ worker = Idle
    /\ main' = Quiet
    /\ engineState' = To("shutdown")
    /\ scheduler' = FALSE
    /\ queue' = <<>>
    /\ frame' = 0 /\ stopping' = FALSE /\ starts' = 0
    /\ UNCHANGED <<counter, subModules, status, worker, aborted>>

\* removeCoreModule() asserts that there is no sub module left.
ReturnExit ==
    /\ Finished("exit")
    /\ main' = Quiet
    /\ aborted' = (subModules # <<>>)
    /\ IF aborted' THEN UNCHANGED <<engineState, status>>
       ELSE /\ engineState' = To("exit")
            /\ status' = [m \in Module |-> "none"]
    /\ UNCHANGED <<counter, subModules, scheduler, queue, worker, pipeline>>
------------------------------------------------------------------------------
\* The worker: its tasks one after the other, any of which may suspend.
Pop ==
    /\ scheduler
    /\ worker = Idle
    /\ queue # <<>>
    /\ worker' = Head(queue)
    /\ queue' = Tail(queue)
    /\ UNCHANGED <<engineState, main, counter, subModules, status, scheduler,
                   pipeline, aborted>>

Suspend ==
    /\ worker # Idle
    /\ worker.job \in ModuleJob \cup {"stage"}
    /\ queue' = Append(queue, worker)
    /\ worker' = Idle
    /\ UNCHANGED <<engineState, main, counter, subModules, status, scheduler,
                   pipeline, aborted>>

\* The task visits its next module.  destroy() of the editor removes the sub
\* module from the list.
Visit(job) ==
    /\ worker.job = job
    /\ worker.todo # <<>>
    /\ LET m == Head(worker.todo) IN
       /\ status' = [status EXCEPT ![m] = CASE job = "setup"   -> "setup"
                                             [] job = "start"   -> "started"
                                             [] job = "stop"    -> "stopped"
                                             [] job = "destroy" -> "destroyed"]
       /\ subModules' = IF Editor /\ job = "destroy" /\ m \in SubModule
                        THEN Front(subModules) ELSE subModules
    /\ worker' = [worker EXCEPT !.todo = Tail(@)]
    /\ UNCHANGED <<engineState, main, counter, scheduler, queue, pipeline, aborted>>

\* The last thing a task does is to set or increment the counter of its call.
\* (A counter of a call that has returned is not touched in the model.)
Signalled == counter' = IF worker.of = main.call THEN counter + 1 ELSE counter

Signal(job) ==
    /\ worker.job = job
    /\ worker.todo = <<>>
    /\ Signalled
    /\ worker' = Idle
    /\ UNCHANGED <<engineState, main, subModules, status, scheduler, queue,
                   pipeline, aborted>>

StageTask == [job |-> "stage", of |-> "pipeline", todo |-> <<>>]

\* CompositePipeline::start()
Run ==
    /\ worker.job = "run"
    /\ queue' = Append(queue, StageTask)
    /\ frame' = 1
    /\ Signalled
    /\ worker' = Idle
    /\ UNCHANGED <<engineState, main, subModules, status, scheduler, stopping,
                   starts, aborted>>

\* Faulty Halt: stop() does not wait for the end of the frame.
HaltAtOnce ==
    /\ worker.job = "halt"
    /\ stopping' = TRUE
    /\ Signalled
    /\ worker' = Idle
    /\ UNCHANGED <<engineState, main, subModules, status, scheduler, queue,
                   frame, starts, aborted>>

\* CompositePipeline::stop() sets the flag and yields; it returns when it finds
\* the flag clear, and otherwise yields again.
Halt ==
    /\ worker.job = "halt"
    /\ stopping' = TRUE
    /\ queue' = Append(queue, [worker EXCEPT !.job = "halting"])
    /\ worker' = Idle
    /\ UNCHANGED <<engineState, main, counter, subModules, status, scheduler,
                   frame, starts, aborted>>

HaltAgain ==
    /\ worker.job = "halting"
    /\ stopping
    /\ queue' = Append(queue, worker)
    /\ worker' = Idle
    /\ UNCHANGED <<engineState, main, counter, subModules, status, scheduler,
                   pipeline, aborted>>

Halted ==
    /\ worker.job = "halting"
    /\ ~stopping
    /\ Signalled
    /\ worker' = Idle
    /\ UNCHANGED <<engineState, main, subModules, status, scheduler, queue,
                   pipeline, aborted>>

\* Faulty Stage: a frame ends one stage too late.
StageTooMany ==
    /\ worker = StageTask
    /\ frame' = IF frame > MaxStage THEN 1 ELSE frame + 1
    /\ queue' = Append(queue, StageTask)
    /\ worker' = Idle
    /\ UNCHANGED <<engineState, main, counter, subModules, status, scheduler,
                   stopping, starts, aborted>>

\* Faulty Stage: the last stage begins another frame in any case.
StageNeverStops ==
    /\ worker = StageTask
    /\ frame' = (frame % MaxStage) + 1
    /\ queue' = Append(queue, StageTask)
    /\ worker' = Idle
    /\ UNCHANGED <<engineState, main, counter, subModules, status, scheduler,
                   stopping, starts, aborted>>

\* A stage has ended: the next one, or the next frame, or the answer to stop().
Stage ==
    /\ worker = StageTask
    /\ LET over == frame = MaxStage /\ stopping IN
       /\ frame' = IF over THEN 0 ELSE (frame % MaxStage) + 1
       /\ queue' = IF over THEN queue ELSE Append(queue, StageTask)
       /\ stopping' = (stopping /\ ~over)
    /\ worker' = Idle
    /\ UNCHANGED <<engineState, main, counter, subModules, status, scheduler,
                   starts, aborted>>

\* The worker spins while there is no task; an aborted program rests.
Spin ==
    /\ aborted \/ (scheduler /\ worker = Idle /\ queue = <<>>)
    /\ UNCHANGED vars

OnModules(job) == Visit(job) \/ Signal(job)
OnPipeline == Run \/ Halt \/ HaltAgain \/ Halted

Next ==
    \/ \E call \in Call : Enter(call) \/ Return(call)
    \/ Exec \/ Await \/ ReturnShutdown \/ ReturnExit
    \/ Pop \/ Suspend \/ Stage \/ OnPipeline \/ Spin
    \/ \E job \in ModuleJob : OnModules(job)

Spec == Init /\ [][Next]_vars

\* Both threads go on; a body that is resumed again and again gets on.
Fairness ==
    /\ WF_vars(Exec \/ Await \/ ReturnShutdown \/ ReturnExit)
    /\ \A call \in Call : WF_vars(Return(call))
    /\ WF_vars(Pop) /\ WF_vars(OnPipeline)
    /\ \A job \in ModuleJob : SF_vars(OnModules(job))
    /\ SF_vars(Stage)

FairSpec == Spec /\ Fairness
------------------------------------------------------------------------------
Present == CoreModule \cup ToSet(subModules)
All(what) == \A m \in Present : status[m] \in what

\* Safety.  Between two calls the state of the engine says how far the modules
\* and the pipeline are: a call that has returned true has been heard by every
\* module, on the other thread.
StateTellsModules ==
    main = Quiet /\ ~aborted =>
        CASE engineState = 0 -> All({"none"}) /\ ~scheduler
          [] engineState = 1 -> All({"created", "destroyed"}) /\ ~scheduler
          [] engineState = 2 -> All({"setup"}) /\ scheduler /\ frame = 0
          [] engineState = 3 -> (All({"setup"}) \/ All({"stopped"})) /\ scheduler /\ frame = 0
          [] engineState = 4 -> All({"started"}) /\ scheduler /\ frame > 0

\* Safety.  A sub module is up only while all core modules are up, and started
\* only while all core modules are started, although each is driven by tasks
\* that suspend.
SubModulesWithinCore ==
    \A s \in SubModule, c \in CoreModule :
        /\ status[s] \in {"setup", "started", "stopped"}
                => status[c] \in {"setup", "started", "stopped"}
        /\ status[s] = "started" => status[c] = "started"

\* Safety.  The modules follow the engine, and the sub modules the core modules.
ModulesFollowEngine == StateTellsModules /\ SubModulesWithinCore

\* Safety.  No task outlives the call on whose stack its counter is.
TasksWithinCall ==
    \A t \in ToSet(queue) \cup {worker} : t.of \in Call => t.of = main.call

\* Action property.  When the scheduler is destroyed it has no task left that
\* would never run.
NothingDropped == [][scheduler /\ ~scheduler' => queue = <<>>]_vars

\* Safety.  The sub modules are stopped, and lose their universe, between two
\* frames: before the first stage of a frame has ended.
StoppedBetweenFrames == worker.job = "stop" => frame <= 1

\* Safety.  No assertion fails.
NoAssertionFails == ~aborted

\* Liveness.  Every call returns, unless the program is aborted.
CallsReturn == main.call # "none" ~> (main.call = "none" \/ aborted)
==============================================================================
