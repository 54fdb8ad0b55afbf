# Heliogrim Engine: specification and proofs

TLA+ models of the parts of the Heliogrim Engine that decide *when* code runs and
*who owns* what it runs on: the stage pipeline and the scheduler under it, the
order of stages and modules, the life cycle of the engine on top, and the
components below that hand resources from one party to the next: render targets,
device memory, shared references, resource guards, promises and editor actions.
TLC checks the models on small instances, TLAPS proves the properties of the
core for every size. Paths are relative to the repository's `src/` directory;
the file `PROJECT.json` maps each definition to the lines it was translated from.

## 1. The system

An engine (`GameEngine` for a game, `EditorEngine` for the editor) is driven by
the main thread through seven calls: `preInit`, `init`, `postInit`, `start`,
`stop`, `shutdown`, `exit`. Most of the work of a call is done on another
thread, the worker of the scheduler, by tasks that the call passes to `exec()`
and waits for. Between `start` and `stop` the worker also runs frames: every
subsystem mounts a pipeline of stages (`InputTick`, `ActorTick`, ...), which
`resolve()` puts into one vector, and the stages of that vector run, in the
order of their dependencies, once in every frame. Stage bodies run on fibers
and may suspend. Two of them carry logic of their own across frames: the reflow
tick lets each viewport take the next image of its swapchain, the render tick
invokes the render targets, and drawing the user interface may resize a viewport
in between. A third thread belongs to the platform; it owns the windows and
answers requests through promises.

### Inventory

| Component | State | Operations | Interacts through |
|---|---|---|---|
| Stage pipeline (`Engine.Scheduler/Pipeline`) | generation of each composite stage, required generation of each dependency, signal count and tasks of each slot, `_stopping` | `start`, `stop`, `dispatch`, `submit`, `onComplete`, `complete`, `prepareSlots` | pushes into the Schedule; called back by a task that ends |
| Resolution (`CompositePipeline::resolve`) | registered stages, declared dependencies, the vector | `registerStage`, `resolve`, `resolveCanInsertStage`, `defineCompositeStage` | calls the mounted pipelines |
| Mounted pipelines (`*.Schedule`) | their stages in order | `mount`, `declareDependencies`, static and dynamic dispatch | looked up by stage name |
| Schedule (`Process`) | four fifos | `push`, `pop`, `tick` | shared by the worker, the pipeline and all threads that call `exec` |
| Worker, fibers, tasks | fiber of a task, task and awaiter of a fiber, pool of fibers | `handle`, `launch`, `yield`, `await`, `acquire`, `release`, `delegate` | one worker at present (`CompScheduler.cpp:41`) |
| Waiting (`Helper/Wait.cpp`) | atomics on the caller's stack | `waitUntilAtomic`, `waitOnAtomic` | blocks the thread, not the fiber |
| Engine life cycle | engine state, counters of the calls | the seven calls | `exec`, wait, modules |
| Module registry (`Engine.Core/Module`) | list of sub modules, core and root modules | `addSubModule`, `removeSubModule`, `validate`, `addCoreModule`, ... | the engine walks through the list |
| Platform thread (`Support.Platform.Win32`) | signaled queue of functions, mode flag | `setupThread`, `tidy`, `makeNativeWindow`, `destroyNativeWindow`, `try_push`, `waitPop`, `finalize` | mutex and condition variable, promises |
| Async primitives (`Engine.Async`) | ring buffer, spin lock, future state | `try_push`, `try_pop`, `lock`, `get`, `then`, `await` | shared memory |
| Shared memory references | pointer and count in one word | `acq`, `rel`, `store`, `try_push` | atomics |
| Resource guards (`Engine.Resource/Manage`) | lock flag, ownership of each guard | `acquire`, `try_acquire`, `release`, move | waits on the thread |
| Render targets (`Engine.GFX`, `Engine.GFX.Scene`, `Engine.Reflow`) | swapchain and two passes of a target, mask and promise of a transition, two image queues of a swapchain, map of targets | `transitionToTarget`, `next`, `update`, `finish`, `acquireNext`, `presentNext`, `consumeNext`, `rebuildView`, `remountRenderTarget` | reflow tick and render tick of a frame, window events |
| Graphics memory (`Engine.GFX/Memory`) | blocks free, split and handed out | `allocate`, `treeSplice`, `free`, `treeMerge`, `augmentPool`, `tidy` | called by every resource factory |
| Editor actions (`Editor.Action`) | log, redo log, signal of each action | `apply`, `undo`, `reapply`, `revoke` | `exec`, `await` on the signal |
| Events | listeners, emitters | `on`, `remove`, `emit` | callbacks under a recursive mutex |
| Resource loading, storage, packages, assets, serialization | caches, registries, indices | load, store, query | files |
| Actors, scenes, render graph, user interface | their own data | stage bodies, event handlers | run inside the stages |

### What is hard here

- **Order without locks.** The pipeline has no lock around generations: stages
  are found ready by comparing numbers that other completions advance. One
  stage completes in the loop of another's task.
- **A frame barrier by declaration.** The next frame begins when the last stage
  of the vector completes. That this means "all stages" depends on dependencies
  that two pipelines declare by hand.
- **A single worker shared by everyone.** The tasks of the engine's calls, the
  stages, and a `stop()` that polls a flag share one worker; what waits must be
  pushed again, and must not starve what it waits for.
- **Fibers that change hands.** A task brings its fiber along, a pool keeps used
  ones, and a repetitive task is pushed again while it still occupies its fiber.
- **Two threads and a stack variable.** A call of the life cycle waits for a
  counter on its own stack that tasks on the other thread increment; an editor
  action writes its result into the frame of the fiber that awaits it.
- **Greedy algorithms.** `resolve()` and `addSubModule()` never take back a
  placement.
- **Three parties and two queues.** A viewport, its render target and the
  manager agree on a swapchain only through the order of what happens in a frame;
  two passes and two images must stay in step over skipped frames and resizes.
- **Counting without a lock.** The last release takes the pointer out of a word
  that another thread may be counting in; a guard that is moved carries the duty
  to release.

`PROJECT.json` lists these as hazards, each at the line where it bites, with the
properties that look for it.

### What makes each component correct

- Stage pipeline: every stage once in every frame, after all it depends on;
  frames do not overlap; `stop()` returns, between two frames.
- Resolution: the vector respects what the pipelines declare, at every moment;
  it fails only if nothing would do; the run time can rely on it.
- Schedule, worker, fibers: no task lost or run twice at a time, no fiber of two
  tasks, order within a mask, every job finishes.
- Module registry: the list is in the declared order.
- Life cycle: the state of the engine is true of the modules; sub modules live
  within the core modules; no task outlives its call; every call returns.
- Platform: a promise that is pushed is called once, also at the end; who awaits
  goes on, and reads a value.
- Shared references: the object is destroyed once, after the last holder.
- Resource guards: a lock has one owner, and who sleeps is woken.
- Render targets: nobody uses a swapchain that has been destroyed; the image that
  is presented is the one that was rendered; a transition is completed.
- Graphics memory: blocks do not overlap, none is lost, what is given back merges.
- Editor actions: undo meets the actions in reverse order; the result reaches the
  call that waits for it.

## 2. The modules

```
FrameSchedule          what the pipeline promises (abstract)
   ^  implements
CompositePipeline      the run time of the pipeline --- CompositePipelineProofs
   |  assumes its vector from            |  abstracts its Schedule from
PipelineResolve        resolve()         TaskSchedule     Schedule, worker, fibers
   --- OrderProofs                           ^    --- TaskScheduleProofs
                                             |  one fifo of it
ModuleOrder --list of sub modules-->     EngineLifecycle  the calls of the engine,
   --- OrderProofs                           |            over FrameSchedule's frames
                                             --- EngineLifecycleProofs

RenderTarget     the frames of FrameSchedule, seen by a window and a viewport
   --- EditorProofs
ActionManager    fibers in one fifo of TaskSchedule --- EditorProofs
PlatformQueue    fibers of TaskSchedule against the platform thread
   --- AsyncProofs
MemoryPool --- MemoryPoolProofs
OwnedObject <-- implements -- SharedReference --- AsyncProofs
ResourceGuard --- AsyncProofs
SequenceLemmas   what inserting and removing does to positions, and induction over
                 numbers, for the proofs
```

`MC` modules hold the instances that TLC checks. `MCPipelineResolve` puts the two
greedy orderings side by side, `MCSupport` the six components that do not
interact; in each behaviour of them one subject moves and the others rest, so
that the states of the subjects add up. `OrderProofs` and `AsyncProofs` extend them:
what they prove of the whole, and of the editor's own pipelines, is about the
specifications that TLC runs. Definitions marked "Faulty" belong to no
model: each is a mistake the code could contain, and the property named in
`PROJECT.json` is violated when it takes the place of the definition after it.

### CompositePipeline and FrameSchedule

A stage is its position in `_compositeStages`. `gen`, `req`, `static`, `sig` and
`stopping` are the fields of the code (`req` once per stage, since `start()` and
`dispatch()` treat all dependencies of a stage alike); `queued` is the share of
a slot in the Schedule; `worker` says where in `complete()` a worker is, so that
the loop over the later stages and the dispatch of one of them are steps of
their own, between which a second worker could act. Tasks are interchangeable
within a slot. `Start` runs `start()`, `prepareSlots()` and the first
`dispatch()`; `OnComplete` runs `onComplete()` up to the increment of the
generation; `Scan`, `DispatchNext` and `Wrap` are the rest of `complete()`.
A body may suspend at any time. The last stage of frame `MaxFrames` waits for
`stop()`, which bounds the generations; `MaxStarts` bounds the calls of
`start()`.

`FrameSchedule` knows frames, stages that have begun and ended, and a halt
between two frames. `CompositePipeline!Frames` is the refinement mapping: a
stage runs while its slot has signals and has ended when its generation is ahead
of the last stage's.

### PipelineResolve

`resolve()` step by step: a turn of the loop over the registered stages
(`Insert`), the end of a pass (`EndPass`), a turn of the optimization
(`Optimize`). `CanInsert` is `resolveCanInsertStage()`, `Gaps` the positions the
walk over the vector tries, `Landing` the search for the position to which a
stage is moved, with its step back, `Gain` the `changeDistance`. The sets of the
code keep insertion order, so the algorithm has no choice; the pipelines are
chosen in `Init`. `Ordered` has the code's peculiarity that a stage mounted by
two pipelines keeps the first of its order dependencies only. The properties ask the
pipelines themselves what has to precede a stage (`Preceding`), not the sets that the
algorithm works on. `DependsOn` follows the dependencies of the composite stages, which
are what the run time will see.

### TaskSchedule

The four fifos, the tasks with their fibers, the pool, and the worker's loop.
`Pop` is the pop, the choice of the fiber and the switch to it (or not, while
its awaiter is not ready); `Yield`, `Await` are the body leaving the fiber;
`Requeue` is "Reschedule suspended task"; `FinishJob`, `FinishPoller`,
`FinishStage` are `delegate()` for the three kinds of tasks; `Raise` is one of
the three transfers of `tick()`, between which other threads push; `Leave` is the
end of `launch()` and `release()`. The pipeline is a ring of stages of one task
each. Threads that call `exec()`, and the platform that sets signals, act at any
time.

### ModuleOrder

`addSubModule()`, `removeSubModule()` and `validate()` over every declaration
that sub modules may make of each other. `known` is a history variable: who was
in the list when a module was added, and has been there since.

### EngineLifecycle

The main thread goes through a call in rounds (`Rounds`): tasks are passed to
`exec()`, the call waits for its counter. The constant `Editor` tells the two
engines apart: they differ in what `init()` waits for, in the direction of
`stop()`, and in whether `shutdown()` removes the sub modules. The worker takes
tasks from one fifo (all of them have the mask `eNormal`; `SameMaskInOrder` of
TaskSchedule justifies the single fifo), visits one module a step, and may
suspend in between. The pipeline is reduced to what FrameSchedule promises: a
frame is `MaxStage` stages, `stopping` is answered at its end.

### RenderTarget

A window with one viewport: two render targets, the `VkSwapchain` between the
viewport and its target, the manager's map. A frame is `ReflowTick` (the viewport
consumes an image and the render tick selects its targets) followed by the
invocations of the targets in either order; `DrawView`, `MountView` and
`ResizeView` are the three courses that the invocation of the window takes when
it draws the viewport. `Invoked` is `next()`, `update()` and `finish()` of a
target: the pass that is not in flight is rebound if the mask of the transition
says so, and the promise is kept after the second. Layout, window resizes,
closing the viewport and the swaps of the dense set of targets happen between
frames. Swapchains are numbers; their images, 0 and 1.

### ActionManager

Clients call `apply()`, `undo()` and `reapply()`; an action's body may suspend,
fail, or apply an inner action, as the repository's actions do (`UnknownImport`
applies an `AutoImportAction`). `work` is the fifo in which bodies and callers
take turns. The result of a body is written into `waits` of the caller, or is
`stray` if that caller no longer waits for it.

### MemoryPool

A block is a root or a half of a block, written as the root and the path of
halves to it; `memory`, `pooling` and `live` are the blocks that are free, split,
and handed out. `Serve` is `allocate()` with `treeSplice()`, `GiveBack` is
`free()` with the recursion of `treeMerge()` folded into `Top`, the highest block
that can be merged. `tidy()` goes one block at a time. The size of a block is that
of its root, halved and rounded down once for every step of its path (`Halved`),
its offset the sum of the first halves that lie before it (`OffsetOf`).

### SharedReference and OwnedObject

The control block's word as `refs` and `pointer`; `acq()` and `rel()` step by
step, each atomic operation a step of its own. `Copy` marks a handle as being
made before the count goes up. The client's obligation, that a handle is not
released while it is being copied from, is in the guards of `Release` and `Move`.
`OwnedObject` is shared ownership without a count: holders share, hand over and
let go, and the object is destroyed once nobody holds it.

### PlatformQueue

Fibers of the one worker test the mode, push and await; the platform thread
polls, drains, and drains what is left after the queue is finalized. A push moves
the promise away whether there is room or not. Marking the future and constructing
its value are two steps, as in `future_state::set()`.

### ResourceGuard

`UniqueResource` with its flag, guards as local variables of threads, and the
loop of `acquire()` over `waitOnAtomic()`: test-and-set, look, sleep. Clearing the
flag and notifying one sleeper are two steps of `release()`. Guards are moved,
released early, and destroyed. A user may hold several resources, which it acquires
in the order `Nesting`: the render passes nest the guards of a model, its material and
the textures of the material (`MatTestPass.cpp:368`).

## 3. The runs

| Run | Instance | Shows |
|---|---|---|
| `pipeline_engine` | the ten stages of the editor, up to 3 frames, 0 or 1 dynamic task per dispatch | safety, the refinement of FrameSchedule; frames go on, `stop()` returns |
| `pipeline_restart` | a diamond of five stages, started twice | **violation** (finding 1) |
| `resolve` | the editor's six pipelines in all 720 orders; three layouts of five stages, every choice of up to three requirements; three sub modules with every combination of declarations | `resolve()`: order at every moment, no failure where an order exists, dependencies that suffice, a result the run time can work on; order of modules that are added in order |
| `tasks` | two stages, of which one suspends, a job of a higher priority that awaits, one of the lowest that yields, a poller, a pool of one fiber | nothing lost or doubled, fibers owned, order kept; jobs finish, stages go round |
| `modules_editor` | the editor's six sub modules in any order | **violation** (finding 2) |
| `lifecycle_editor` | the editor, three core and two sub modules | state, nesting, tasks within their call, nothing dropped; every call returns |
| `lifecycle_hangs` | a game with two sub modules | **violation** (finding 3) |
| `lifecycle_exit` | a game with one sub module | **violation** (finding 4) |
| `lifecycle_midframe` | a game with one sub module | **violation** (finding 5) |
| `support` | six subjects, one at a time: five swapchains; four actions, two clients and a log of two; three roots of memory; four handles of three threads; three requesters; four guards of three users | the properties of RenderTarget, ActionManager, MemoryPool, SharedReference, PlatformQueue and ResourceGuard |
| `target_transition` | the targets of `support` | **violation** (finding 6) |
| `future_early` | two requesters | **violation** (finding 7) |

### Why the bounds are enough

- *Pipeline.* The graph of the editor has chains, joins and parallel branches;
  three frames let a stage be ahead, be caught up with, and be ahead again, and
  `stop()` falls into each of them. The proofs lift the bounds.
- *Resolution.* Five stages and three requirements produce chains against the
  order of registration, cycles, requirements on stages that are not there, and
  moves of the optimization over several stages. More requirements only shrink
  the set of orders. The editor's own pipelines are checked as they are. The proofs lift the bounds.
- *Tasks.* The three masks of five tasks meet all transfers of `tick()`; a pool of one fiber
  makes acquire and release hit it empty, filled and full.
- *Modules.* An order dependency concerns two modules, the placement between
  others three. The proof lifts the bound.
- *Life cycle.* Three core modules make the counter of `init()` pass through
  values that match no round; two sub modules are the smallest number that
  distinguishes "all of them" from "one task"; three stages give a frame a
  beginning, a middle and an end.
- *Targets.* Of five swapchains two are built at the start; three resizes cover a
  resize before, during and after a transition, of the window and of the
  viewport, and one that is undone by the next. Two sizes and "hidden" are all
  that `viewHasChanged()` tells apart.
- *Actions.* One action of each kind that differs in control; a log of two is
  overrun by the third, three calls of `undo()` empty it, meet an action in
  flight and find nothing.
- *Memory.* Sizes 1 and 4 split a root twice, `nextPoolSize()` makes further roots
  of 1, 2, 4, 5 and more, so that even and odd halves and merges over two levels
  occur.
- *Shared references.* Three threads: the last release, an acquire and a second
  release meet; the proof lifts the bound.
- *Platform.* Three requesters, one of which pushes once as
  `UnknownImport.cpp:266` does, fill the queue to its end; the ring has room for
  as many as there are (see section 5 for more).
- *Guards.* Three users: one that holds, one that sleeps, one that overtakes; two
  guards of one user to be moved between. There is one resource, so that the run does
  not nest; the proof lifts the bound, and is about any resources and any `Nesting`.

### Fairness

The worker's loop never blocks (it spins), hence weak fairness of its steps.
A task in the Schedule is not popped while the worker is busy, and a body may
suspend, so popping and finishing are strongly fair: a body that is resumed
again and again gets to its end. Stage and module bodies are assumed to return.
In the life cycle the main thread is fair within a call; entering the next call
is never assumed. Signals of the platform are set eventually. Nothing is assumed
of `stop()`, `exec()` or of bodies suspending.

In `support`, the two ticks of a frame and the invocations of targets are weakly
fair, which `FrameProgress` justifies; the loop of `tidy()` and the steps of a
release or an acquire that have begun go on; the platform thread goes on, and the
worker comes round to a fiber whose future is set, again and again
(`JobsFinish`), hence strong fairness of `Resume`. No client is made to release a
handle, to undo, to resize, or to ask.

### Findings

1. **A second `start()` breaks the order of stages** (`CompositePipeline.cpp:38`):
   the required generations go back to 1 while generations keep counting, and the
   static tasks are enqueued a second time. The life cycle allows `start` after
   `stop` (`EngineState.hpp`).
2. **`validate()` accepts lists that are out of order** (`Modules.cpp:225`):
   modules are placed by their predecessors only. The list is right if every
   module is added after those it follows, which is what OrderedIfAddedInOrder
   states and `SubModuleInit.cpp` does.
3. **`GameEngine::init()` never returns with two or more sub modules**
   (`GameEngine.cpp:144`), and does not wait at all for none.
4. **`GameEngine` fails an assertion in `exit()`** when it has a sub module:
   `shutdown()` does not remove them (`Modules.cpp:109`).
5. **Sub modules are stopped within a frame** (`GameEngine.cpp:230`), against the
   comment at the top of `stop()`.
6. **The second of two quick resizes is refused** (`RenderTarget.cpp:242`): a
   target accepts a new transition before the first pass has followed the last
   one, or after both have, but the manager asserts that every transition is
   accepted.
7. **A fiber may read a future before its value is there** (`Future.hpp:68`): the
   mark that `await()` looks at is set before the value is constructed.

## 4. The proofs

| Module | Theorem | Property |
|---|---|---|
| `CompositePipelineProofs` | `TypeCorrect` | `TypeOK` |
| | `SignalsAreTasks` | `SignalsMatchTasks` |
| | `StagesInOrder` | `DependencyOrder` |
| | `NoneForgotten` | `NoStageForgotten` |
| | `StopsCleanly` | `StopsBetweenFrames` |
| | `SubmittedWhenIdle` | `SubmitOnlyIdleSlots` |
| | `FramesDoNotOverlap` | `FrameBarrier` |
| | `PipelineRefinesFrames` | `ImplementsFrames` |
| `OrderProofs` | `ResolveTypes` | `ResolveTypeOK` |
| | `RequiredTheorem` | `RequiredBefore` |
| | `FailsTheorem` | `FailsOnlyIfUnsolvable` |
| | `SufficeTheorem` | `DependenciesSuffice`, part of `ResolvedForRunTime` |
| | `EngineTheorem` | `ResolvedForRunTime` |
| | `OrderTheorem` | `OrderedIfAddedInOrder` |
| `TaskScheduleProofs` | `ScheduleTypeCorrect`, `FibersTheorem` | `TypeOK`, `FibersOwned` |
| | `OnePlaceTheorem` | `OnePlaceEach` |
| | `SameMaskTheorem` | `SameMaskInOrder` |
| `EngineLifecycleProofs` | `LifeTypeCorrect` | `TypeOK` |
| | `TasksTheorem` | `TasksWithinCall` |
| | `DroppedTheorem` | `NothingDropped` |
| | `ModulesTheorem` | `ModulesFollowEngine` |
| `EditorProofs` | `InStepTheorem` | `QueuesInStep` |
| | `CurrentTheorem` | `TargetsCurrent` |
| | `LogOrderTheorem` | `LogInOrder` |
| | `ResultTheorem` | `ResultReachesCaller` |
| `MemoryPoolProofs` | `PoolTypeCorrect` | `PoolTypeOK` |
| | `TiledTheorem` | `Tiled` |
| | `CoalescedTheorem` | `Coalesced` |
| `AsyncProofs` | `PromisesTheorem` | `PromisesKept` |
| | `SharedTypeCorrect`, `AliveTheorem`, `RefsTheorem`, `FallbackTheorem` | `SharedTypeOK`, `AliveWhileHeld`, `RefsExact`, `FallbackUnused` |
| | `NoLateUseTheorem` | `NoLateUse` |
| | `OwnedTheorem` | `ImplementsOwned` |
| | `LockTheorem` | `LockOwned` |
| | `WakeupTheorem` | `NoLostWakeup` |
| | `SupportTypes` | `SupportTypeOK` |

### The pipeline

For every number of stages, every graph that satisfies the assumptions of
CompositePipeline, all numbers of static and dynamic tasks and any bound on the
frames.

*Assumptions.* `ConstantsAssumption` types the constants. `ResolvedAssumption`
(a stage stands behind all it depends on) is what `RequiredTheorem` proves of
`resolve()`. `FrontAssumption` and `LastAssumption` (one stage begins, one stage
ends every chain) are what `EngineTheorem` proves of the editor's pipelines.
`StartedOnce` is needed because of finding 1. There is one worker, as in the code.

*The invariant* `IInv` says more than the properties, because none of them is
inductive: `Generations` (within a frame every generation is that of the frame
or one ahead, and never ahead of what the stage depends on), `LiveStages`,
`Required` (what a stage requires is one more than its generation, two more
between its dispatch and its completion), `Completing` and `Unforgotten` (what
is known in the middle of `complete()`), and `Lifecycle`. The heart is the step
that completes a stage: when the last stage completes, every other stage has.
That follows from `LastAssumption` by the lemma `LastIsReached`: a non-empty set
of stages that is closed under "depends on it" contains the last stage, for
otherwise it would hold an endless ascending chain. `StepKinds` then classifies
every step as one that keeps, begins or ends stages, from which the action
properties and the refinement follow.

### The two orderings

The theorems about `resolve()` hold for all sequences of pipelines of `Mounts`, under
`MountsAssumption`: no pipeline mounts a stage twice, and it declares something only of
stages it mounts. The invariant `ResolveInv` adds to `RequiredBefore` that the
collected sets hold all that the pipelines ask for (`Collected`) and nothing else
(`Traced`), and that the vector holds registered stages, each once. Insertion is the
easy half: `CanInsertRight` reads off `CanInsert` that everything required lies in front
of the gap and everything that requires the stage behind it. For the optimization,
`Rearranged` says that a vector whose stages are moved by an injection of positions
stays in order if no two related stages change sides; `LandingRight` shows that the walk
to the landing place passes no stage that requires the one that is moved,
`OptimizeRight` puts the two together.

`FailsTheorem` needs a second invariant, `Progress`. Suppose that there is an order.
As long as a stage is missing, the first one of that order that is not placed has all
its predecessors in the vector (`SomeReady`), and it can go to the end of the vector,
if nowhere else (`ReadyFits`): nothing in the vector has to follow it, as
`RequiredBefore` would be violated already. So in every pass either a stage has been
placed or one that is ready is still ahead of the loop, and after n passes n stages are
there, whatever the greedy choice has been. The limit of the passes is one more than the
stages, which is enough.

`SufficeTheorem` is about pipelines that share no stage. Then every stage but the first
of a pipeline has its neighbour among its dependencies (`Chained`), and going back k
times reaches the stage k places in front (`Suffices`); `DependsOnIs` says what the
recursive function of `DependsOn` yields after each of its rounds, and that there are
enough of them. `EngineTheorem` applies all this to the constants of MCPipelineResolve:
`EngineOrder` is an order of the editor's ten stages that respects their pipelines, so
`resolve()` does not fail (`EngineSolvable`), and only `TickBegin` asks for nothing and
only `TickEnd` is asked for by nobody (`EngineFits`), so that they are first and last in
every vector in which all stages stand behind what they ask for.

`OrderTheorem` holds for every declaration of any number of modules. Positions
shift when a module is inserted in front of others, which is where
`InsertAtProperties` and `RemoveAtProperties` of SequenceLemmas come in;
`OrderInv` adds to the property only the types, of which it needs that no module is in
the list twice: a module that is added finds all that has to precede it in front of it
(`PlaceProperties`) and knows whatever stands behind it (`AddOrdered`).

### The schedule

`FibersTheorem` holds for any tasks, masks and stages and any size of the pool.
`FiberInv` follows a fiber through its life: a task's fiber is bound to it, exists
and is not in the pool (`Owned`); a fiber of the pool has no task and is there
once (`Spare`); none is left over, and one that awaits belongs to a task
(`Accounted`); the worker is on the fiber of the task it runs, or, once the task
has let go of it, on a fiber that is nobody's (`OnFiber`). That a new fiber can be
had when the pool is empty is the pigeonhole principle: there is one fiber more
than there are tasks, and each fiber in use is bound to a task of its own. The
theorem relies on the one worker.

`OnePlaceTheorem` is about kin: the tasks of the stages take turns and count as
one, every other task is alone. `PlaceInv` says that no two of a kin are queued and
none while the worker holds another (`Exclusive`), that what is live is queued or
held and nothing else is (`Present`), and that a fifo is only ever raised
(`Raised`). A push, a pop and a raise are each described once, by what they do to
positions (`PushPlaces`, `RaisedInto`); `SameMaskTheorem` reads the order of two
tasks off the same description.

### The life cycle

For any core and sub modules, any number of stages and starts, and both engines.
The theorems have one hypothesis, `WaitsForSubModules`: a `GameEngine` has a sub
module, as otherwise its `init()` does not wait for the task that it has started
(finding 3). `LifeInv` counts: in every round of a call, the counter on the stack,
the tasks still to be passed to `exec()` and those in the Schedule or with the
worker add up to the tasks the round has (`Counted`), each of them belongs to the
round (`OwnedBy`), and a module that the round is for has been visited or is on the
way of one of them (`Visited`). So when the counter has reached what the call waits
for nothing of the round is left, its modules are all in the state the round leads
to, and the next round, or the return of the call, finds what `ModulesAre` says of
it. `FrameRuns` and `Staged` tie the frames to the calls that begin and end them:
that is why the Schedule is empty when `shutdown()` destroys it (`NothingDropped`).
A `GameEngine` with two or more sub modules waits for more than its one task tells
(finding 3): its `init()` never returns, and the theorems hold of it because nothing
comes after.

### Render targets and actions

`CurrentTheorem` and `InStepTheorem` hold for any extents and any number of
swapchains. The heart of `TargetInv` is what a transition leaves open: the passes
that it has not reached are those in the mask, all others are bound to the current
swapchain (`Bound`), and the one that is drawn or presented in between is kept
alive by the promise (`DrawnFromTarget`). `InStep` says what `PassMatchesImage` means
for every order of the two queues: taken one behind the other they list the images
in the order in which the passes will render them. `SurfaceApart` and `ViewChains` keep the two
targets, and what is built but not used yet, apart.

`LogOrderTheorem` and `ResultTheorem` hold for any fibers and actions and any size
of the log. `ActionAssumption` asks that no two bodies apply the same inner action:
`UnknownImport.cpp:115` creates the one it applies. `ActionInv` has two halves.
`LogInv` is about positions in the order in which actions were applied, and what
storing, forgetting and popping do to them (`OrderedTail`, `OrderedAppend`,
`OrderedFront`). The other is about the fifo: each body is there once and is applied
once (`AppliesOnce`), each caller is there as long as it awaits something
(`CallersFit`), and, until an `undo()` meets an action in flight, a body is awaited
by the call that it is for (`Awaited`): it has cleared the signal, or it is ahead
of its caller in the fifo and will have. Hence a caller whose await returns has no
body left that could write into its frame (`NoneLeft`).

### The memory of devices

For any sizes and alignment and any number of roots. `PoolInv` says that free, split
and handed-out blocks make up trees (`Tree`): all that is above a block has been
split, and both halves of what has been split are somewhere. `allocate()` splits a
block several times and `treeMerge()` goes up several halves at once; each is taken
apart, by induction over their number, into single splits and merges, of which
`SplitTree` and `MergeTree` show that they leave a tree (`SpliceTree`, `MergeAll`).
The induction goes over the members of a set of numbers (`AllNumbers`), because the
prover takes no theorem about an arbitrary predicate. No block lies within another
(`TreeApart`), and of two blocks there is then a first step where their paths part:
what lies in the first half there ends before the other begins (`Divergence`,
`HalvesApart`), which is `NoOverlap`. For `Coalesced`, `NoPair` says that two halves
which are both free do not make up what they are halves of: `treeMerge()` has
stopped below them only because a size was odd. The rest is a choice: of the split
blocks within one of which nothing is in use, one that lies deepest has both halves
free. Sizes and offsets are recursive functions on numbers; that they exist, and
that they are what their equations say, is `Recursion`. The theorems hold in every
phase, also after `tidy()` and after the assertion that ends the program.

### Ownership and promises

`PromisesTheorem` holds for as many fibers as the ring has room for (`RoomForAll`, the
bound of section 5). `AwaitInv` says that the queue holds promises of fibers that
await them, each once (`Pending`); that a fiber that awaits is in the queue or is
being answered (`Served`); and in which order the worker, the queue and the thread
stop (`Stopping`), so that nothing is pushed behind the last drain.

`SharedInv` counts: the word's count is that of the handles that are held or
being made and not yet counted, the pointer is there while anyone holds, and a
thread that has taken the count to zero is the only one left. The fallback of
`rel()` is then never taken (`FallbackTheorem`), the object is destroyed once,
and every step is one of OwnedObject or changes nothing in it (`OwnedTheorem`).
`SharedAssumption` asks for finitely many handles, fewer than the 16 bits of the
count can hold.

`GuardInv` is `LockOwned` with the types and, for wake-ups, that a user who sleeps
before a free lock is owed a notification by someone between clearing and
notifying, or another user is awake before the same lock. `notify_one` that wakes
somebody passes the debt on, and nobody else pays it.

`SupportTypes` is about all six components of MCSupport at once, without `RoomForAll`:
each has its invariant (of PlatformQueue the types alone, which are kept also when the
ring is full), and a step of one leaves the variables of the others alone.

*Not proved, only model-checked:* liveness, which is beyond the prover: that frames go
on and `stop()` returns (`FrameProgress`, `StopTerminates`), that jobs finish and the
stages go round (`JobsFinish`, `StagesGoRound`), that the calls of the engine and of the
editor's actions return (`CallsReturn`, `CallsReturnOrPanic`), that a transition is
completed (`TransitionCompletes`), `tidy()` returns (`TidyReturns`), the last holder
destroys the object (`LastOneDestroys`) and what is awaited is answered (`AwaitsEnd`).
The disagreements of the findings are counterexamples of TLC. Every invariant and every
action property or refinement that a passing run checks is a theorem.

## 5. Not modelled

- `removeStage` and `destroy` of the pipeline: no caller while it is set up.
- Several workers: the code overrides their number to one. The model is written
  for more, and `SubmitOnlyIdleSlots` shows what two would break.
- Memory order of the atomics: steps are taken as sequentially consistent.
- A worker that has not started yet, and allocation failures.
- Bodies of stages and modules beyond those named; batch tasks beyond being tasks.
- Root modules, sessions and universes in the life cycle.
- More than 31 fibers that wait for the platform at once: the ring buffer is then
  full, `try_push()` has moved the promise away before it reports so, and the
  retry pushes an empty one. With `RingSize` below the number of requesters TLC
  finds `NoEmptyCall` violated; the run stays within, so that no property of it catches
  this.
- A viewport that is closed while its target is in a transition: RenderTarget has the
  step, but the transition is then never completed, and `TransitionCompletes` excludes
  it. The same is true of a pool in which an odd size has been halved, whose `tidy()`
  goes on for ever, and `TidyReturns`. In either case nothing in the repository says
  what should happen.
- Stages that are mounted by two pipelines: `resolve()` is modelled with them, but the
  properties of its dependencies are about pipelines that share none, as those of the
  engine do not.
- A wake-up that `SignaledQueue::finalize()` could lose because it does not take
  the mutex: `waitPop()` is only called where it does not wait.
- The count of a shared reference running over its 16 bits; `store()` and
  `try_push()`, which only the construction uses.
- Users of resource guards that nest two resources in different orders: the code
  has none.
- Before its first transition a viewport's target renders with pass 1 while image
  0 is presented (`setup()` binds pass and image by number, the passes start with
  the other one); `PassMatchesImage` begins with the first transition.
- What Vulkan does with images, memory and semaphores; the scene view of a target,
  which goes through the same chain of masks as its swapchain.
- Spin lock, `then()` of futures, and events: no caller in the engine meets the
  hazards they have.
- Layout, formats, configuration, packages, assets, render graph and the storage
  of actors and scenes: either no state that outlives a call, or sequential
  tables that unit tests reach.

## 6. The plan

Done, in this order: FrameSchedule, CompositePipeline and its proofs,
PipelineResolve, TaskSchedule, ModuleOrder, EngineLifecycle; then RenderTarget,
ActionManager, MemoryPool, SharedReference, PlatformQueue, ResourceGuard, and the
proofs of the two orderings, of fibers, of shared references and of guards.

Then the proofs of places and order in TaskSchedule, of the life cycle, of the
promises of the platform, of render targets, of editor actions and of the pool of
device memory.

Last, of `resolve()`, that it fails only where no order exists, that its dependencies
suffice, and that the editor's pipelines resolve to what the run time assumes; and the
types of all components that a run puts together.

Next, models: the cache of the resource loaders, and the concurrent use of the
ring buffer by the fiber pool once there is more than one worker.
