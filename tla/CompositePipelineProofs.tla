----------------------- MODULE CompositePipelineProofs -----------------------
(***************************************************************************)
(* Proofs about CompositePipeline for every stage graph that satisfies the *)
(* assumptions, every number of tasks and every bound on the frames.       *)
(***************************************************************************)
EXTENDS CompositePipeline, FiniteSetTheorems, WellFoundedInduction, TLAPS

\* The pipeline is started once (EngineState lets start() follow stop(); the
\* run pipeline_restart shows what happens then).
StartedOnce == MaxStarts = 1

------------------------------------------------------------------------------
(* The inductive invariant.  Round is the current frame, Me the only worker. *)

Round == gen[Last]
Me == worker[1]
Scanning == Me.at \in {"scan", "dispatch"}
Quiet == BetweenFrames /\ Me.at = "pop"

\* A slot's signals are its queued tasks and the one in the worker's hands.
Signals ==
    \A s \in Stage :
        sig[s] = queued[s] + (IF Me.at = "run" /\ Me.stage = s THEN 1 ELSE 0)

\* Every stage has completed the current frame or not; what a stage depends
\* on is never behind it, and nothing is ahead of the first stage.
Generations ==
    \A s \in Stage :
        /\ Round <= gen[s] /\ gen[s] <= Round + 1
        /\ gen[s] <= gen[Front]
        /\ \A d \in Deps[s] : gen[s] <= gen[d]

\* A stage with signals has not completed the frame, its dependencies have.
LiveStages ==
    \A s \in Stage : Live(s) =>
        /\ gen[s] = Round
        /\ \A d \in Deps[s] : gen[d] = Round + 1
        /\ s = Front => \A t \in Stage : gen[t] = Round

\* A stage requires one more generation than it has completed, and two more
\* from its dispatch to its completion.
Required ==
    phase # "setup" =>
        \A s \in Stage \ {Front} :
            req[s] = gen[s] + (IF Live(s) THEN 2 ELSE 1)

\* complete() runs for a stage without signals; after the last stage it finds
\* nothing live.
Completing ==
    Scanning =>
        /\ ~Live(Me.stage)
        /\ Me.stage < Me.next
        /\ Me.stage # Last => gen[Me.stage] = Round + 1
        /\ Me.stage = Last => BetweenFrames
        /\ Me.at = "dispatch" => Me.next <= N /\ Ready(Me.next)

\* A stage that could run does, or lies before the loop of complete().
Unforgotten ==
    \A s \in Stage \ {Front} :
        (\A d \in Deps[s] : gen[d] > gen[s]) =>
            Live(s) \/ (Scanning /\ Me.next <= s)

\* start() and stop() meet a pipeline between two frames.
Lifecycle ==
    /\ starts = (IF phase = "setup" THEN 0 ELSE 1)
    /\ stopping => phase = "stopping"
    /\ phase \in {"setup", "stopped"} => Quiet
    /\ phase = "stopping" /\ ~stopping => Quiet
    /\ phase = "setup" => \A s \in Stage : gen[s] = 0

IInv ==
    /\ TypeOK
    /\ Signals
    /\ Generations
    /\ LiveStages
    /\ Required
    /\ Completing
    /\ Unforgotten
    /\ Lifecycle

------------------------------------------------------------------------------
(* Facts about the constants. *)

USE DEF Stage, Front, Last, Worker, WorkerCount, ConstantsAssumption,
        ResolvedAssumption, FrontAssumption, LastAssumption

\* A set of stages in which every stage has a later one is empty.
LEMMA NoEndlessChain ==
    ASSUME NEW S \in SUBSET Stage,
           \A s \in S : \E t \in S : s < t
    PROVE  S = {}
<1> SUFFICES ASSUME S # {} PROVE FALSE
    OBVIOUS
<1> DEFINE T == {N - s : s \in S}
<1>1. T \subseteq Nat /\ T # {}
  <2>1. ASSUME NEW s \in S PROVE N - s \in Nat
      BY ConstantsAssumption
  <2> QED
      BY <2>1
<1>2. PICK x \in T : \A y \in T : ~(<<y, x>> \in OpToRel(<, Nat))
    BY <1>1, NatLessThanWellFounded, WFMin
<1>3. PICK s \in S : x = N - s
    BY <1>2
<1>4. PICK t \in S : s < t
    BY <1>3
<1>5. N - t \in T /\ N - t < x
    BY <1>3, <1>4, ConstantsAssumption
<1>6. <<N - t, x>> \in OpToRel(<, Nat)
    BY <1>1, <1>5 DEF OpToRel
<1> QED
    BY <1>2, <1>5, <1>6

\* Every stage is below the last one: a set of stages that contains, with a
\* stage, all the stages that depend on it contains the last stage.
LEMMA LastIsReached ==
    ASSUME NEW S \in SUBSET Stage, S # {},
           \A s \in S : \A t \in Stage : s \in Deps[t] => t \in S
    PROVE  Last \in S
<1> SUFFICES ASSUME Last \notin S PROVE FALSE
    OBVIOUS
<1>1. ASSUME NEW s \in S PROVE \E t \in S : s < t
  <2>1. PICK t \in Stage : s \in Deps[t]
      BY LastAssumption
  <2> QED
      BY <2>1, ResolvedAssumption, ConstantsAssumption
<1> QED
    BY <1>1, NoEndlessChain

------------------------------------------------------------------------------
(* Facts about the operators. *)

\* submit() adds the same number of tasks to the signals and to the Schedule,
\* and never leaves a slot without a signal.
LEMMA SubmitEffect ==
    ASSUME TypeOK, NEW s \in Stage, NEW n \in Nat, Submit(s, n)
    PROVE  \E p \in Nat :
              /\ sig[s] + p > 0
              /\ sig' = [sig EXCEPT ![s] = @ + p]
              /\ queued' = [queued EXCEPT ![s] = @ + p]
<1>1. CASE sig[s] + n = 0
  <2>1. sig' = [sig EXCEPT ![s] = @ + 1] /\ queued' = [queued EXCEPT ![s] = @ + 1]
      BY <1>1 DEF Submit
  <2>2. sig[s] + 1 > 0
      BY DEF TypeOK
  <2> QED
      BY <2>1, <2>2
<1>2. CASE sig[s] + n # 0
  <2>1. sig[s] + n > 0
      BY <1>2 DEF TypeOK
  <2> QED
      BY <1>2, <2>1 DEF Submit
<1> QED
    BY <1>1, <1>2

LEMMA DispatchEffect ==
    ASSUME TypeOK, NEW s \in Stage, Dispatch(s)
    PROVE  /\ req' = [req EXCEPT ![s] = @ + 1]
           /\ \E p \in Nat :
                 /\ sig[s] + p > 0
                 /\ sig' = [sig EXCEPT ![s] = @ + p]
                 /\ queued' = [queued EXCEPT ![s] = @ + p]
<1>1. PICK d \in DynamicTasks : Submit(s, static[s] + d)
    BY DEF Dispatch
<1>2. static[s] + d \in Nat
  <2>1. static[s] \in Nat
      BY DEF TypeOK
  <2>2. d \in Nat
      BY ConstantsAssumption
  <2> QED
      BY <2>1, <2>2
<1>3. req' = [req EXCEPT ![s] = @ + 1]
    BY DEF Dispatch
<1> QED
    BY <1>1, <1>2, <1>3, SubmitEffect

\* The state of the only worker, and what a step that changes it leaves there.
LEMMA WorkerType ==
    ASSUME TypeOK
    PROVE  /\ Me \in WorkerState
           /\ Me.at \in {"pop", "run", "scan", "dispatch"}
           /\ Me.stage \in Stage
           /\ Me.next \in 1 .. N + 1
    BY DEF TypeOK, Me, WorkerState

\* A number of a stage that is set to another.
LEMMA NumberUpdate ==
    ASSUME NEW f \in [Stage -> Nat], NEW c, NEW v \in Nat
    PROVE  /\ [f EXCEPT ![c] = v] \in [Stage -> Nat]
           /\ \A t \in Stage : [f EXCEPT ![c] = v][t] = IF t = c THEN v ELSE f[t]
    OBVIOUS

LEMMA WorkerUpdate ==
    ASSUME TypeOK, NEW v \in WorkerState, worker' = [worker EXCEPT ![1] = v]
    PROVE  Me' = v /\ worker' \in [Worker -> WorkerState]
<1>1. 1 \in Worker /\ worker \in [Worker -> WorkerState]
    BY DEF TypeOK
<1> QED
    BY <1>1 DEF Me

LEMMA IdleType == Idle \in WorkerState
    BY ConstantsAssumption DEF Idle, WorkerState

\* A ready stage behind the first one has its dependencies complete in this
\* frame and has no signal.
LEMMA ReadyStage ==
    ASSUME TypeOK, Generations, LiveStages, Required, phase # "setup",
           NEW s \in Stage \ {Front}, Ready(s)
    PROVE  ~Live(s) /\ gen[s] = Round /\ \A d \in Deps[s] : gen[d] = Round + 1
<1>1. Deps[s] # {} /\ Deps[s] \subseteq Stage
    BY FrontAssumption, ConstantsAssumption
<1>2. /\ Round \in Nat /\ gen[s] \in Nat /\ req[s] \in Nat
      /\ Round <= gen[s]
      /\ \A d \in Deps[s] : gen[d] \in Nat /\ req[s] <= gen[d] /\ gen[d] <= Round + 1
    BY <1>1, ConstantsAssumption DEF Ready, Generations, TypeOK, Round
<1>3. req[s] = gen[s] + (IF Live(s) THEN 2 ELSE 1)
    BY DEF Required
<1>4. ~Live(s) /\ gen[s] = Round /\ req[s] = Round + 1
    BY <1>1, <1>2, <1>3
<1> QED
    BY <1>2, <1>4

------------------------------------------------------------------------------
(* The invariant holds initially and every action preserves it. *)

LEMMA InitIInv == Init => IInv
<1> SUFFICES ASSUME Init PROVE IInv
    OBVIOUS
<1>1. Me = Idle
    BY DEF Init, Me
<1>2. TypeOK
  <2>1. worker \in [Worker -> WorkerState]
      BY IdleType DEF Init
  <2>2. starts \in 0 .. MaxStarts
      BY ConstantsAssumption DEF Init
  <2> QED
      BY <2>1, <2>2 DEF Init, TypeOK
<1>3. Unforgotten
    BY FrontAssumption, ConstantsAssumption DEF Init, Unforgotten
<1> QED
    BY <1>1, <1>2, <1>3, ConstantsAssumption
    DEF Init, Idle, IInv, Signals, Generations, LiveStages, Required,
        Completing, Lifecycle, Quiet, BetweenFrames, Live, Scanning, Round

LEMMA StartStep ==
    ASSUME IInv, StartedOnce, Start(1)
    PROVE  IInv'
<1> USE DEF IInv
<1>1. phase = "setup" /\ Quiet /\ \A s \in Stage : gen[s] = 0
    BY DEF Start, StartedOnce, Lifecycle
<1>2. /\ \A s \in Stage : req'[s] = 1
      /\ UNCHANGED <<gen, worker, stopping>>
      /\ phase' = "running" /\ starts' = 1
    BY <1>1 DEF Start, Lifecycle
<1>3. static' \in [Stage -> Nat]
  <2>1. \A s \in Stage : static[s] \in Nat /\ StaticTasks[s] \in Nat
      BY ConstantsAssumption DEF TypeOK
  <2>2. static' = [s \in Stage |-> static[s] + StaticTasks[s]]
      BY DEF Start
  <2> QED
      BY <2>1, <2>2
<1>4. PICK p \in Nat :
         /\ sig[Front] + p > 0
         /\ sig' = [sig EXCEPT ![Front] = @ + p]
         /\ queued' = [queued EXCEPT ![Front] = @ + p]
  <2>1. PICK d \in DynamicTasks : Submit(Front, static'[Front] + d)
      BY DEF Start
  <2>2. Front \in Stage
      BY ConstantsAssumption
  <2>3. static'[Front] \in Nat
      BY <1>3, <2>2
  <2>4. d \in Nat
      BY ConstantsAssumption
  <2> QED
      BY <2>1, <2>2, <2>3, <2>4, SubmitEffect
<1>5. TypeOK'
  <2>1. sig' \in [Stage -> Nat] /\ queued' \in [Stage -> Nat]
    <3>1. sig \in [Stage -> Nat] /\ queued \in [Stage -> Nat] /\ Front \in Stage
        BY ConstantsAssumption DEF TypeOK
    <3>2. sig[Front] + p \in Nat /\ queued[Front] + p \in Nat
        BY <3>1
    <3> HIDE DEF IInv
    <3> QED
        BY <1>4, <3>1, <3>2, NumberUpdate
  <2>2. req' \in [Stage -> Nat]
      BY DEF Start
  <2>3. starts' \in 0 .. MaxStarts
      BY <1>2 DEF StartedOnce
  <2> QED
      BY <1>2, <1>3, <2>1, <2>2, <2>3 DEF TypeOK
<1>6. Signals'
    BY <1>2, <1>4 DEF Signals, TypeOK, Me
<1>7. Generations' /\ Completing'
    BY <1>1, <1>2 DEF Generations, Completing, Quiet, Round, Scanning, Me
<1>8. LiveStages'
    BY <1>1, <1>2, <1>4, ResolvedAssumption, ConstantsAssumption
    DEF LiveStages, Quiet, BetweenFrames, Live, Round, TypeOK
<1>9. Required'
    BY <1>1, <1>2, <1>4 DEF Required, Quiet, BetweenFrames, Live, TypeOK
<1>10. Unforgotten'
    BY <1>1, <1>2, FrontAssumption, ConstantsAssumption DEF Unforgotten
<1>11. Lifecycle'
    BY <1>1, <1>2 DEF Lifecycle
<1> QED
    BY <1>5, <1>6, <1>7, <1>8, <1>9, <1>10, <1>11

\* What the proofs of the remaining steps use of the invariant: a worker that
\* is not looking for a task works for a pipeline that was started.
LEMMA BusyPhase ==
    ASSUME IInv, Me.at # "pop"
    PROVE  /\ phase \in {"running", "stopping"}
           /\ phase = "stopping" <=> stopping
    BY DEF IInv, TypeOK, Lifecycle, Quiet

LEMMA PopStep ==
    ASSUME IInv, NEW s \in Stage, Pop(1, s)
    PROVE  IInv'
<1> USE DEF IInv
<1> DEFINE v == [at |-> "run", stage |-> s, next |-> 1]
<1>1. Me.at = "pop" /\ UNCHANGED <<gen, req, static, sig, phase, stopping, starts>>
    BY DEF Pop, Me
<1>2. Me' = v /\ worker' \in [Worker -> WorkerState]
  <2>1. v \in WorkerState
      BY ConstantsAssumption DEF WorkerState
  <2> QED
      BY <2>1, WorkerUpdate DEF Pop
<1>3. /\ queued' \in [Stage -> Nat]
      /\ queued' = [queued EXCEPT ![s] = @ - 1]
  <2>1. queued[s] \in Nat /\ queued[s] > 0 /\ queued' = [queued EXCEPT ![s] = @ - 1]
      BY DEF Pop, TypeOK
  <2>2. queued[s] - 1 \in Nat
      BY <2>1
  <2> QED
      BY <2>1, <2>2 DEF TypeOK
<1>4. TypeOK'
    BY <1>1, <1>2, <1>3 DEF TypeOK
<1>5. Signals'
    BY <1>1, <1>2, <1>3 DEF Signals, TypeOK
<1>6. Live(s)
    BY <1>1 DEF Pop, Signals, Live, TypeOK
<1>7. Generations' /\ LiveStages' /\ Required'
    BY <1>1 DEF Generations, LiveStages, Required, Live, Round
<1>8. Completing' /\ Unforgotten'
    BY <1>1, <1>2 DEF Completing, Unforgotten, Live, Scanning
<1>9. Lifecycle'
    BY <1>1, <1>2, <1>6 DEF Lifecycle, Quiet, BetweenFrames
<1> QED
    BY <1>4, <1>5, <1>7, <1>8, <1>9

LEMMA SuspendStep ==
    ASSUME IInv, Suspend(1)
    PROVE  IInv'
<1> USE DEF IInv
<1>1. Me.at = "run" /\ UNCHANGED <<gen, req, static, sig, phase, stopping, starts>>
    BY DEF Suspend, Me
<1>2. Me' = Idle /\ worker' \in [Worker -> WorkerState]
    BY IdleType, WorkerUpdate DEF Suspend
<1>3. Me.stage \in Stage
    BY WorkerType
<1>4. queued' = [queued EXCEPT ![Me.stage] = @ + 1]
    BY DEF Suspend, Me
<1>5. TypeOK'
    BY <1>1, <1>2, <1>3, <1>4 DEF TypeOK
<1>6. Signals'
    BY <1>1, <1>2, <1>3, <1>4 DEF Signals, TypeOK, Idle
<1>7. Generations' /\ LiveStages' /\ Required'
    BY <1>1 DEF Generations, LiveStages, Required, Live, Round
<1>8. Completing' /\ Unforgotten'
    BY <1>1, <1>2 DEF Completing, Unforgotten, Live, Scanning, Idle
<1>9. Lifecycle'
    BY <1>1, BusyPhase DEF Lifecycle
<1> QED
    BY <1>5, <1>6, <1>7, <1>8, <1>9

LEMMA RequestStopStep ==
    ASSUME IInv, RequestStop(1)
    PROVE  IInv'
    BY DEF RequestStop, IInv, TypeOK, Signals, Generations, LiveStages, Required,
           Completing, Unforgotten, Lifecycle, Round, Me, Scanning, Quiet,
           BetweenFrames, Live, Ready

LEMMA StopReturnStep ==
    ASSUME IInv, StopReturn(1)
    PROVE  IInv'
    BY DEF StopReturn, IInv, TypeOK, Signals, Generations, LiveStages, Required,
           Completing, Unforgotten, Lifecycle, Round, Me, Scanning, Quiet,
           BetweenFrames, Live, Ready

LEMMA StutterStep ==
    ASSUME IInv, UNCHANGED vars
    PROVE  IInv'
    BY DEF vars, IInv, TypeOK, Signals, Generations, LiveStages, Required,
           Completing, Unforgotten, Lifecycle, Round, Me, Scanning, Quiet,
           BetweenFrames, Live, Ready

LEMMA ScanStep ==
    ASSUME IInv, Scan(1)
    PROVE  IInv'
<1> USE DEF IInv
<1> DEFINE s == Me.next
<1>1. /\ Me.at = "scan" /\ s \in Stage
      /\ UNCHANGED <<gen, req, static, sig, queued, phase, stopping, starts>>
    BY WorkerType DEF Scan, Me
<1>2. s \in Stage \ {Front} /\ ~Live(Me.stage) /\ Me.stage \in Stage /\ Me.stage < s
    BY <1>1, WorkerType DEF Completing, Scanning
<1>3. phase # "setup" /\ (phase = "stopping" <=> stopping) /\ phase # "stopped"
    BY <1>1, BusyPhase
<1>4. Generations' /\ LiveStages' /\ Required'
    BY <1>1 DEF Generations, LiveStages, Required, Live, Round
<1>5. Lifecycle'
    BY <1>1, <1>3 DEF Lifecycle
<1>6. CASE Ready(s)
  <2> DEFINE v == [Me EXCEPT !.at = "dispatch"]
  <2>1. v = [at |-> "dispatch", stage |-> Me.stage, next |-> s] /\ v \in WorkerState
      BY <1>1, WorkerType DEF WorkerState
  <2>2. Me' = v /\ worker' \in [Worker -> WorkerState]
      BY <1>6, <2>1, WorkerUpdate DEF Scan, Me
  <2>3. TypeOK' /\ Signals'
      BY <1>1, <2>1, <2>2 DEF TypeOK, Signals
  <2>4. Completing'
      BY <1>1, <1>6, <2>1, <2>2
      DEF Completing, Scanning, Live, Ready, BetweenFrames, Round
  <2>5. Unforgotten'
      BY <1>1, <2>1, <2>2 DEF Unforgotten, Scanning, Live
  <2> QED
      BY <1>4, <1>5, <2>3, <2>4, <2>5
<1>7. CASE ~Ready(s)
  <2> DEFINE v == [Me EXCEPT !.next = s + 1]
  <2>1. v = [at |-> "scan", stage |-> Me.stage, next |-> s + 1] /\ v \in WorkerState
      BY <1>1, WorkerType, ConstantsAssumption DEF WorkerState
  <2>2. Me' = v /\ worker' \in [Worker -> WorkerState]
      BY <1>7, <2>1, WorkerUpdate DEF Scan, Me
  <2>3. TypeOK' /\ Signals'
      BY <1>1, <2>1, <2>2 DEF TypeOK, Signals
  <2>4. Completing'
      BY <1>1, <1>2, <2>1, <2>2
      DEF Completing, Scanning, Live, BetweenFrames, Round
  <2>5. (\A d \in Deps[s] : gen[d] > gen[s]) => Live(s)
    <3> SUFFICES ASSUME \A d \in Deps[s] : gen[d] > gen[s], ~Live(s) PROVE FALSE
        OBVIOUS
    <3>1. req[s] = gen[s] + 1 /\ gen[s] \in Nat
        BY <1>2, <1>3 DEF Required, TypeOK
    <3>2. \A d \in Deps[s] : gen[d] \in Nat
        BY <1>1, ConstantsAssumption DEF TypeOK
    <3> QED
        BY <1>7, <3>1, <3>2 DEF Ready
  <2>6. Unforgotten'
    <3> SUFFICES ASSUME NEW t \in Stage \ {Front},
                        \A d \in Deps[t] : gen[d] > gen[t], ~Live(t)
                 PROVE  s + 1 <= t
        BY <1>1, <2>1, <2>2 DEF Unforgotten, Scanning, Live
    <3>1. s <= t
        BY <1>1 DEF Unforgotten
    <3>2. s # t
        BY <2>5
    <3> QED
        BY <1>1, <3>1, <3>2, ConstantsAssumption
  <2> QED
      BY <1>4, <1>5, <2>3, <2>4, <2>6
<1> QED
    BY <1>6, <1>7

LEMMA DispatchNextStep ==
    ASSUME IInv, DispatchNext(1)
    PROVE  IInv'
<1> USE DEF IInv
<1> DEFINE s == Me.next
<1>1. /\ Me.at = "dispatch"
      /\ UNCHANGED <<gen, static, phase, stopping, starts>>
    BY DEF DispatchNext, Me
<1>2. /\ s \in Stage \ {Front} /\ Me.stage \in Stage
      /\ ~Live(Me.stage) /\ Me.stage < s /\ Me.stage # Last /\ Ready(s)
      /\ gen[Me.stage] = Round + 1
    BY <1>1, WorkerType, ConstantsAssumption DEF Completing, Scanning
<1>3. /\ phase # "setup" /\ phase # "stopped"
      /\ phase = "stopping" <=> stopping
    BY <1>1, BusyPhase
<1>4. ~Live(s) /\ gen[s] = Round /\ \A d \in Deps[s] : gen[d] = Round + 1
    BY <1>2, <1>3, ReadyStage
<1>5. PICK p \in Nat :
         /\ sig[s] + p > 0
         /\ sig' = [sig EXCEPT ![s] = @ + p]
         /\ queued' = [queued EXCEPT ![s] = @ + p]
    BY <1>2, DispatchEffect DEF DispatchNext, Me
<1>6. req' = [req EXCEPT ![s] = @ + 1]
    BY <1>2, DispatchEffect DEF DispatchNext, Me
<1> DEFINE v == [at |-> "scan", stage |-> Me.stage, next |-> s + 1]
<1>7. v \in WorkerState
    BY <1>2, ConstantsAssumption DEF WorkerState
<1>8. Me' = v /\ worker' \in [Worker -> WorkerState]
  <2>1. worker' = [worker EXCEPT ![1] = v]
      BY DEF DispatchNext, Me
  <2> QED
      BY <1>7, <2>1, WorkerUpdate
<1>9. \A t \in Stage : Live(t)' <=> Live(t) \/ t = s
  <2>1. /\ \A t \in Stage : sig'[t] = IF t = s THEN sig[s] + p ELSE sig[t]
        /\ \A t \in Stage : sig[t] \in Nat
      BY <1>2, <1>5 DEF TypeOK
  <2> QED
      BY <1>2, <1>5, <2>1 DEF Live
<1>10. TypeOK'
  <2>1. sig[s] + p \in Nat /\ queued[s] + p \in Nat /\ req[s] + 1 \in Nat
    <3>1. sig[s] \in Nat /\ queued[s] \in Nat /\ req[s] \in Nat
        BY <1>2 DEF TypeOK
    <3> QED
        BY <3>1
  <2>2. sig' \in [Stage -> Nat]
      BY <1>5, <2>1 DEF TypeOK
  <2>3. queued' \in [Stage -> Nat]
      BY <1>5, <2>1 DEF TypeOK
  <2>4. req' \in [Stage -> Nat]
      BY <1>6, <2>1 DEF TypeOK
  <2> QED
      BY <1>1, <1>8, <2>2, <2>3, <2>4 DEF TypeOK
<1>11. Signals'
    BY <1>1, <1>2, <1>5, <1>7, <1>8 DEF Signals, TypeOK
<1>12. Generations'
    BY <1>1 DEF Generations, Round
<1>13. LiveStages'
    BY <1>1, <1>2, <1>4, <1>9 DEF LiveStages, Round
<1>14. Required'
  <2> SUFFICES ASSUME NEW t \in Stage \ {Front}
               PROVE  req'[t] = gen[t] + (IF Live(t)' THEN 2 ELSE 1)
      BY <1>1 DEF Required
  <2>1. req[t] = gen[t] + (IF Live(t) THEN 2 ELSE 1)
      BY <1>3 DEF Required
  <2>2. gen[t] \in Nat /\ req'[t] = IF t = s THEN req[t] + 1 ELSE req[t]
      BY <1>6 DEF TypeOK
  <2> QED
      BY <1>4, <1>9, <2>1, <2>2
<1>15. Completing'
    BY <1>1, <1>2, <1>7, <1>8, <1>9 DEF Completing, Round
<1>16. Unforgotten'
  <2> SUFFICES ASSUME NEW t \in Stage \ {Front},
                      \A d \in Deps[t] : gen[d] > gen[t], ~Live(t)'
               PROVE  s + 1 <= t
      BY <1>1, <1>7, <1>8 DEF Unforgotten, Scanning
  <2>1. s <= t /\ s # t
      BY <1>1, <1>9 DEF Unforgotten
  <2> QED
      BY <1>2, <2>1, ConstantsAssumption
<1>17. Lifecycle'
    BY <1>1, <1>3 DEF Lifecycle
<1> QED
    BY <1>10, <1>11, <1>12, <1>13, <1>14, <1>15, <1>16, <1>17

\* When the last stage completes, every other stage has completed the frame: a
\* stage that has not would have a successor that has not, and so on up to the
\* last stage, whose dependencies have.
LEMMA LastIsLast ==
    ASSUME TypeOK, Generations, LiveStages, Live(Last)
    PROVE  \A s \in Stage \ {Last} : gen[s] = Round + 1
<1> DEFINE S == {s \in Stage \ {Last} : gen[s] # Round + 1}
<1>1. Last \in Stage /\ Round \in Nat /\ \A s \in Stage : gen[s] \in Nat
    BY ConstantsAssumption DEF TypeOK, Round
<1>2. \A d \in Deps[Last] : gen[d] = Round + 1
    BY <1>1 DEF LiveStages
<1>3. ASSUME NEW s \in S, NEW t \in Stage, s \in Deps[t] PROVE t \in S
  <2>1. gen[s] = Round /\ gen[t] <= gen[s]
      BY <1>1, <1>3 DEF Generations
  <2>2. gen[t] # Round + 1
      BY <1>1, <2>1
  <2>3. t # Last
      BY <1>1, <1>2, <1>3
  <2> QED
      BY <2>2, <2>3
<1>4. S = {}
    BY <1>3, LastIsReached
<1> QED
    BY <1>4

LEMMA OnCompleteStep ==
    ASSUME IInv, OnComplete(1)
    PROVE  IInv'
<1> USE DEF IInv
<1> DEFINE c == Me.stage
<1>1. /\ Me.at = "run" /\ c \in Stage
      /\ sig' = [sig EXCEPT ![c] = @ - 1]
      /\ UNCHANGED <<req, static, queued, phase, stopping, starts>>
    BY WorkerType DEF OnComplete, Me
<1>2. /\ phase # "setup" /\ phase # "stopped"
      /\ phase = "stopping" <=> stopping
    BY <1>1, BusyPhase
<1>3. /\ sig[c] \in Nat /\ sig[c] > 0 /\ Live(c)
      /\ \A t \in Stage : sig[t] \in Nat /\ gen[t] \in Nat /\ req[t] \in Nat
    BY <1>1 DEF Signals, TypeOK, Live
<1>4. sig' \in [Stage -> Nat] /\ \A t \in Stage : sig'[t] = IF t = c THEN sig[c] - 1 ELSE sig[t]
  <2>1. sig[c] - 1 \in Nat
      BY <1>3
  <2> QED
      BY <1>1, <2>1 DEF TypeOK
<1>5. Lifecycle'
  <2>1. CASE sig[c] # 1
      BY <1>1, <1>2, <2>1 DEF Lifecycle, OnComplete, Me
  <2>2. CASE sig[c] = 1
      BY <1>1, <1>2, <2>2 DEF Lifecycle, OnComplete, Me
  <2> QED
      BY <2>1, <2>2
<1>6. CASE sig[c] # 1
  <2>1. gen' = gen /\ Me' = Idle /\ worker' \in [Worker -> WorkerState]
      BY <1>6, IdleType, WorkerUpdate DEF OnComplete, Me
  <2>2. \A t \in Stage : Live(t)' <=> Live(t)
      BY <1>3, <1>4, <1>6 DEF Live
  <2>3. TypeOK'
      BY <1>1, <1>4, <2>1 DEF TypeOK
  <2>4. Signals'
      BY <1>1, <1>3, <1>4, <2>1 DEF Signals, Idle, TypeOK
  <2>5. Generations' /\ LiveStages' /\ Required'
      BY <1>1, <2>1, <2>2 DEF Generations, LiveStages, Required, Round
  <2>6. Completing' /\ Unforgotten'
      BY <1>1, <2>1, <2>2 DEF Completing, Unforgotten, Scanning, Idle
  <2> QED
      BY <1>5, <2>3, <2>4, <2>5, <2>6
<1>7. CASE sig[c] = 1
  <2> DEFINE v == [at |-> "scan", stage |-> c, next |-> c + 1]
  <2>1. gen' = [gen EXCEPT ![c] = @ + 1] /\ worker' = [worker EXCEPT ![1] = v]
      BY <1>7 DEF OnComplete, Me
  <2>2. Me' = v /\ worker' \in [Worker -> WorkerState]
    <3>1. v \in WorkerState
        BY <1>1, ConstantsAssumption DEF WorkerState
    <3> QED
        BY <2>1, <3>1, WorkerUpdate
  <2>3. \A t \in Stage : Live(t)' <=> Live(t) /\ t # c
      BY <1>4, <1>7 DEF Live
  <2>4. gen' \in [Stage -> Nat] /\ \A t \in Stage : gen'[t] = IF t = c THEN gen[c] + 1 ELSE gen[t]
    <3>1. gen[c] + 1 \in Nat
        BY <1>1, <1>3
    <3>2. gen \in [Stage -> Nat]
        BY DEF TypeOK
    <3> HIDE DEF IInv
    <3> QED
        BY <2>1, <3>1, <3>2, NumberUpdate
  <2>5. TypeOK'
      BY <1>1, <1>4, <2>2, <2>4 DEF TypeOK
  <2>6. Signals'
    <3>1. Me'.at = "scan" /\ queued' = queued
        BY <1>1, <2>2
    <3>2. \A t \in Stage : queued[t] \in Nat
        BY DEF TypeOK
    <3>3. \A t \in Stage : sig[t] = queued[t] + (IF c = t THEN 1 ELSE 0)
        BY <1>1 DEF Signals
    <3>4. \A t \in Stage : sig'[t] = queued[t]
        BY <1>3, <1>4, <3>2, <3>3
    <3>5. \A t \in Stage : sig'[t] = queued'[t] + (IF Me'.at = "run" /\ Me'.stage = t THEN 1 ELSE 0)
        BY <3>1, <3>2, <3>4
    <3> QED
        BY <3>5 DEF Signals
  <2>7. /\ gen[c] = Round /\ Round \in Nat /\ Last \in Stage /\ Front \in Stage
        /\ \A d \in Deps[c] : gen[d] = Round + 1
      BY <1>1, <1>3, ConstantsAssumption DEF LiveStages, Round
  <2>8. Required'
    <3> SUFFICES ASSUME NEW t \in Stage \ {Front}
                 PROVE  req[t] = gen'[t] + (IF Live(t)' THEN 2 ELSE 1)
        BY <1>1 DEF Required
    <3>1. req[t] = gen[t] + (IF Live(t) THEN 2 ELSE 1)
        BY <1>2 DEF Required
    <3> QED
        BY <1>1, <1>3, <2>3, <2>4, <3>1
  <2>9. CASE c # Last
    <3>1. Round' = Round
        BY <2>4, <2>7, <2>9 DEF Round
    <3>2. \A t \in Stage \ {Front} : Deps[t] # {} /\ Deps[t] \subseteq Stage
        BY FrontAssumption, ConstantsAssumption
    <3>3. c # Front => gen[Front] = Round + 1
        BY <1>1, <1>3, <2>7, <3>2 DEF Generations
    <3>4. Generations'
      <4>1. ASSUME NEW t \in Stage
            PROVE  Round <= gen'[t] /\ gen'[t] <= Round + 1 /\ gen'[t] <= gen'[Front]
        <5>1. /\ gen[t] \in Nat /\ gen[Front] \in Nat
              /\ Round <= gen[t] /\ gen[t] <= Round + 1 /\ gen[t] <= gen[Front]
            BY <1>3, <2>7 DEF Generations
        <5>2. CASE t = c
            BY <1>1, <2>4, <2>7, <3>3, <5>2
        <5>3. CASE t # c
          <6>1. gen'[t] = gen[t] /\ gen'[Front] >= gen[Front]
              BY <1>1, <2>4, <2>7, <5>1, <5>3
          <6>2. gen'[Front] \in Nat
              BY <2>4, <2>7
          <6> QED
              BY <5>1, <6>1, <6>2, <2>7
        <5> QED
            BY <5>2, <5>3
      <4>2. ASSUME NEW t \in Stage, NEW d \in Deps[t]
            PROVE  gen'[t] <= gen'[d]
        <5>1. d \in Stage /\ gen[t] <= gen[d] /\ (t = c => gen[d] = Round + 1)
            BY <2>7, ConstantsAssumption DEF Generations
        <5>2. gen'[t] = IF t = c THEN Round + 1 ELSE gen[t]
            BY <2>4, <2>7
        <5>3. gen'[d] = IF d = c THEN Round + 1 ELSE gen[d]
            BY <2>4, <2>7, <5>1
        <5>4. gen[t] \in Nat /\ gen[d] \in Nat /\ gen[t] <= Round + 1
            BY <1>3, <5>1 DEF Generations
        <5> QED
            BY <2>7, <5>1, <5>2, <5>3, <5>4
      <4> QED
          BY <3>1, <4>1, <4>2 DEF Generations
    <3>5. LiveStages'
      <4> SUFFICES ASSUME NEW t \in Stage, Live(t)'
                   PROVE  /\ gen'[t] = Round
                          /\ \A d \in Deps[t] : gen'[d] = Round + 1
                          /\ t = Front => \A u \in Stage : gen'[u] = Round
          BY <3>1 DEF LiveStages
      <4>1. /\ t # c /\ gen[t] = Round
            /\ \A d \in Deps[t] : d \in Stage /\ gen[d] = Round + 1
            /\ t = Front => \A u \in Stage : gen[u] = Round
          BY <2>3, ConstantsAssumption DEF LiveStages
      <4>2. t # Front
          BY <2>7, <3>3, <4>1
      <4>3. c \notin Deps[t]
          BY <2>7, <4>1
      <4> QED
          BY <2>4, <4>1, <4>2, <4>3
    <3>6. Completing'
        BY <1>1, <2>2, <2>3, <2>4, <2>7, <2>9, <3>1 DEF Completing, Scanning
    <3>7. Unforgotten'
      <4> SUFFICES ASSUME NEW t \in Stage \ {Front},
                          \A d \in Deps[t] : gen'[d] > gen'[t]
                   PROVE  Live(t)' \/ c + 1 <= t
          BY <2>2 DEF Unforgotten, Scanning
      <4>1. CASE c \in Deps[t]
          BY <1>1, <4>1, ResolvedAssumption
      <4>2. CASE t = c
          BY <1>1, <2>4, <2>7, <3>2, <3>4, <3>1, <4>2 DEF Generations
      <4>3. CASE c \notin Deps[t] /\ t # c
        <5>1. \A d \in Deps[t] : gen[d] > gen[t]
            BY <2>4, <3>2, <4>3
        <5> QED
            BY <1>1, <2>3, <4>3, <5>1 DEF Unforgotten, Scanning
      <4> QED
          BY <4>1, <4>2, <4>3
    <3> QED
        BY <1>5, <2>5, <2>6, <2>8, <3>4, <3>5, <3>6, <3>7
  <2>10. CASE c = Last
    <3>1. \A t \in Stage : gen'[t] = Round + 1
        BY <1>3, <2>4, <2>7, <2>10, LastIsLast
    <3>2. Round' = Round + 1
        BY <2>7, <3>1 DEF Round
    <3>3. \A t \in Stage : ~Live(t)'
      <4> SUFFICES ASSUME NEW t \in Stage, Live(t), t # c PROVE FALSE
          BY <2>3
      <4>1. gen[t] = Round
          BY DEF LiveStages
      <4> QED
          BY <1>3, <2>7, <2>10, <4>1, LastIsLast
    <3>4. Generations' /\ LiveStages'
        BY <2>7, <3>1, <3>2, <3>3, ConstantsAssumption DEF Generations, LiveStages
    <3>5. BetweenFrames'
        BY <2>7, <3>1, <3>3 DEF BetweenFrames
    <3>6. Completing'
        BY <1>1, <2>2, <2>10, <3>3, <3>5 DEF Completing, Scanning
    <3>7. Unforgotten'
        BY <2>7, <3>1, FrontAssumption, ConstantsAssumption DEF Unforgotten
    <3> QED
        BY <1>5, <2>5, <2>6, <2>8, <3>4, <3>6, <3>7
  <2> QED
      BY <2>9, <2>10
<1> QED
    BY <1>6, <1>7

LEMMA WrapStep ==
    ASSUME IInv, Wrap(1)
    PROVE  IInv'
<1> USE DEF IInv
<1>1. /\ Me.at = "scan" /\ Me.next = N + 1
      /\ UNCHANGED <<gen, static, phase, starts>>
    BY DEF Wrap, Me
<1>2. /\ phase # "setup" /\ phase # "stopped"
      /\ phase = "stopping" <=> stopping
    BY <1>1, BusyPhase
<1>3. Me' = Idle /\ worker' \in [Worker -> WorkerState]
    BY IdleType, WorkerUpdate DEF Wrap
<1>4. Front \in Stage /\ Last \in Stage /\ Round \in Nat
    BY ConstantsAssumption DEF TypeOK, Round
<1>5. \A t \in Stage \ {Front} :
          (\A d \in Deps[t] : gen[d] > gen[t]) => Live(t)
    BY <1>1, ConstantsAssumption DEF Unforgotten
<1>6. Generations'
    BY <1>1 DEF Generations, Round
<1>7. Completing'
    BY <1>3 DEF Completing, Scanning, Idle
<1>8. CASE /\ UNCHANGED <<req, sig, queued>>
           /\ stopping' \in BOOLEAN
           /\ stopping' # stopping => Me.stage = Last /\ stopping /\ ~stopping'
  <2>1. TypeOK' /\ Signals'
      BY <1>1, <1>3, <1>8 DEF TypeOK, Signals, Idle
  <2>2. LiveStages' /\ Required'
      BY <1>1, <1>8 DEF LiveStages, Required, Live, Round
  <2>3. Unforgotten'
      BY <1>1, <1>5, <1>8 DEF Unforgotten, Live
  <2>4. Me.stage = Last => BetweenFrames'
      BY <1>1, <1>8 DEF Completing, Scanning, BetweenFrames, Live
  <2>5. Lifecycle'
      BY <1>1, <1>2, <1>3, <1>8, <2>4 DEF Lifecycle, Quiet, Idle, TypeOK
  <2> QED
      BY <1>6, <1>7, <2>1, <2>2, <2>3, <2>5
<1>9. CASE Me.stage = Last /\ ~stopping /\ Dispatch(Front) /\ UNCHANGED stopping
  <2>1. BetweenFrames /\ \A t \in Stage : gen[t] = Round
      BY <1>1, <1>9 DEF Completing, Scanning, BetweenFrames, Round
  <2>2. PICK p \in Nat :
           /\ sig[Front] + p > 0
           /\ sig' = [sig EXCEPT ![Front] = @ + p]
           /\ queued' = [queued EXCEPT ![Front] = @ + p]
      BY <1>4, <1>9, DispatchEffect
  <2>3. req' = [req EXCEPT ![Front] = @ + 1]
      BY <1>4, <1>9, DispatchEffect
  <2>4. /\ sig[Front] \in Nat /\ queued[Front] \in Nat /\ req[Front] \in Nat
        /\ sig[Front] + p \in Nat /\ queued[Front] + p \in Nat /\ req[Front] + 1 \in Nat
    <3>1. sig[Front] \in Nat /\ queued[Front] \in Nat /\ req[Front] \in Nat
        BY <1>4 DEF TypeOK
    <3> QED
        BY <3>1
  <2>5. sig' \in [Stage -> Nat] /\ \A t \in Stage : Live(t)' <=> t = Front
    <3>1. sig' \in [Stage -> Nat]
        BY <2>2, <2>4 DEF TypeOK
    <3>2. \A t \in Stage : sig'[t] = IF t = Front THEN sig[Front] + p ELSE sig[t]
        BY <2>2 DEF TypeOK
    <3> QED
        BY <2>1, <2>2, <3>1, <3>2 DEF BetweenFrames, Live
  <2>6. TypeOK'
    <3>1. queued' \in [Stage -> Nat]
        BY <2>2, <2>4 DEF TypeOK
    <3>2. req' \in [Stage -> Nat]
        BY <2>3, <2>4 DEF TypeOK
    <3> QED
        BY <1>1, <1>3, <1>9, <2>5, <3>1, <3>2 DEF TypeOK
  <2>7. Signals'
      BY <1>1, <1>3, <2>2, <2>4 DEF Signals, Idle, TypeOK
  <2>8. LiveStages'
      BY <1>1, <1>4, <2>1, <2>5, ResolvedAssumption, ConstantsAssumption
      DEF LiveStages, Round
  <2>9. Required'
      BY <1>1, <1>2, <2>1, <2>3, <2>5 DEF Required, BetweenFrames
  <2>10. Unforgotten'
    <3>1. ASSUME NEW t \in Stage \ {Front} PROVE \E d \in Deps[t] : ~(gen[d] > gen[t])
      <4>1. PICK d \in Deps[t] : d \in Stage
          BY FrontAssumption, ConstantsAssumption
      <4>2. gen[d] = Round /\ gen[t] = Round
          BY <2>1, <4>1
      <4> QED
          BY <1>4, <4>1, <4>2
    <3> QED
        BY <1>1, <3>1 DEF Unforgotten
  <2>11. Lifecycle'
      BY <1>1, <1>2, <1>9 DEF Lifecycle
  <2> QED
      BY <1>6, <1>7, <2>6, <2>7, <2>8, <2>9, <2>10, <2>11
<1> QED
    BY <1>8, <1>9 DEF Wrap, Me, TypeOK

LEMMA NextStep ==
    ASSUME IInv, StartedOnce, [Next]_vars
    PROVE  IInv'
<1>1. Worker = {1}
    OBVIOUS
<1>2. ASSUME NEW s \in Stage, Pop(1, s) PROVE IInv'
    BY <1>2, PopStep
<1>3. CASE Start(1)
    BY <1>3, StartStep
<1>4. CASE Suspend(1)
    BY <1>4, SuspendStep
<1>5. CASE OnComplete(1)
    BY <1>5, OnCompleteStep
<1>6. CASE Scan(1)
    BY <1>6, ScanStep
<1>7. CASE DispatchNext(1)
    BY <1>7, DispatchNextStep
<1>8. CASE Wrap(1)
    BY <1>8, WrapStep
<1>9. CASE RequestStop(1)
    BY <1>9, RequestStopStep
<1>10. CASE StopReturn(1)
    BY <1>10, StopReturnStep
<1>11. CASE UNCHANGED vars
    BY <1>11, StutterStep
<1> QED
    BY <1>1, <1>2, <1>3, <1>4, <1>5, <1>6, <1>7, <1>8, <1>9, <1>10, <1>11
    DEF Next, Rest

\* The invariant holds in every state of a pipeline that is started once.
THEOREM InductiveInvariant ==
    ASSUME StartedOnce PROVE Spec => []IInv
<1>1. StartedOnce
    OBVIOUS
<1>2. IInv /\ [Next]_vars => IInv'
    BY <1>1, NextStep
<1> QED
    BY <1>2, InitIInv, PTL DEF Spec

------------------------------------------------------------------------------
(* The safety properties. *)

\* Every variable keeps its type; in particular no counter of CompositeSlot or
\* of a generation becomes negative.
THEOREM TypeCorrect ==
    ASSUME StartedOnce PROVE Spec => []TypeOK
    BY InductiveInvariant, PTL DEF IInv

\* CompositeSlot::_signals counts exactly the tasks of the slot that wait or run.
THEOREM SignalsAreTasks ==
    ASSUME StartedOnce PROVE Spec => []SignalsMatchTasks
<1>1. ASSUME IInv PROVE SignalsMatchTasks
  <2> SUFFICES ASSUME NEW s \in Stage
               PROVE  sig[s] = queued[s] + Cardinality(InBody(s))
      BY DEF SignalsMatchTasks
  <2>1. sig[s] = queued[s] + (IF Me.at = "run" /\ Me.stage = s THEN 1 ELSE 0)
      BY <1>1 DEF IInv, Signals
  <2>2. CASE Me.at = "run" /\ Me.stage = s
    <3>1. InBody(s) = {1}
        BY <2>2 DEF InBody, Me
    <3>2. Cardinality({1}) = 1
        BY FS_Singleton
    <3> QED
        BY <2>1, <2>2, <3>1, <3>2
  <2>3. CASE ~(Me.at = "run" /\ Me.stage = s)
    <3>1. InBody(s) = {}
        BY <2>3 DEF InBody, Me
    <3>2. Cardinality({}) = 0
        BY FS_EmptySet
    <3> QED
        BY <2>1, <2>3, <3>1, <3>2
  <2> QED
      BY <2>2, <2>3
<1> QED
    BY <1>1, InductiveInvariant, PTL

\* complete() dispatches a stage only after everything it depends on has
\* completed in the same frame, for every stage graph resolve() may produce.
THEOREM StagesInOrder ==
    ASSUME StartedOnce PROVE Spec => []DependencyOrder
<1>1. ASSUME IInv PROVE DependencyOrder
  <2> SUFFICES ASSUME NEW s \in Stage, Live(s), NEW d \in Deps[s]
               PROVE  ~Live(d) /\ gen[d] = gen[s] + 1
      BY DEF DependencyOrder
  <2>1. d \in Stage /\ gen[s] = Round /\ gen[d] = Round + 1 /\ Round \in Nat
      BY <1>1, ConstantsAssumption DEF IInv, LiveStages, TypeOK, Round
  <2>2. Live(d) => gen[d] = Round
      BY <1>1, <2>1 DEF IInv, LiveStages
  <2> QED
      BY <2>1, <2>2
<1> QED
    BY <1>1, InductiveInvariant, PTL

\* The loop of complete() leaves out no stage that has become ready.
THEOREM NoneForgotten ==
    ASSUME StartedOnce PROVE Spec => []NoStageForgotten
<1>1. ASSUME IInv PROVE NoStageForgotten
    BY <1>1 DEF IInv, Unforgotten, NoStageForgotten, Scanning, Me
<1> QED
    BY <1>1, InductiveInvariant, PTL

\* stop() returns only between two frames.
THEOREM StopsCleanly ==
    ASSUME StartedOnce PROVE Spec => []StopsBetweenFrames
<1>1. ASSUME IInv PROVE StopsBetweenFrames
    BY <1>1 DEF IInv, Lifecycle, Quiet, StopsBetweenFrames
<1> QED
    BY <1>1, InductiveInvariant, PTL


------------------------------------------------------------------------------
(* What a step does to the stages: it leaves them alone, begins one or ends *)
(* one.                                                                     *)

Halted == phase \in {"setup", "stopped"}

Keeps ==
    /\ gen' = gen
    /\ \A t \in Stage : (Live(t)' <=> Live(t)) /\ sig'[t] <= sig[t]
    /\ Halted' <=> Halted \/ (BetweenFrames /\ phase' = "stopped")

Begins(s) ==
    /\ gen' = gen
    /\ ~Live(s)
    /\ \A t \in Stage : (Live(t)' <=> Live(t) \/ t = s) /\ (t # s => sig'[t] = sig[t])
    /\ \/ s = Front /\ BetweenFrames
       \/ s # Front /\ gen[s] = Round /\ ~Halted /\ \A d \in Deps[s] : gen[d] = Round + 1
    /\ ~Halted'

Ends(s) ==
    /\ gen' = [gen EXCEPT ![s] = @ + 1]
    /\ Live(s)
    /\ \A t \in Stage : (Live(t)' <=> Live(t) /\ t # s) /\ sig'[t] <= sig[t]
    /\ ~Halted /\ ~Halted'

LEMMA StartKind ==
    ASSUME IInv, StartedOnce, Start(1) PROVE Begins(Front)
<1> USE DEF IInv
<1>1. phase = "setup" /\ BetweenFrames /\ gen' = gen /\ phase' = "running"
    BY DEF Start, StartedOnce, Lifecycle, Quiet
<1>2. Front \in Stage
    BY ConstantsAssumption
<1>3. PICK p \in Nat :
         sig[Front] + p > 0 /\ sig' = [sig EXCEPT ![Front] = @ + p]
  <2>1. PICK d \in DynamicTasks : Submit(Front, static'[Front] + d)
      BY DEF Start
  <2>2. static'[Front] \in Nat /\ d \in Nat
    <3>1. static[Front] \in Nat /\ StaticTasks[Front] \in Nat
        BY <1>2, ConstantsAssumption DEF TypeOK
    <3>2. static'[Front] = static[Front] + StaticTasks[Front]
        BY <1>2 DEF Start
    <3>3. d \in Nat
        BY ConstantsAssumption
    <3> QED
        BY <3>1, <3>2, <3>3
  <2>3. static'[Front] + d \in Nat
      BY <2>2
  <2> QED
      BY <1>2, <2>1, <2>3, SubmitEffect
<1>4. \A t \in Stage : sig'[t] = IF t = Front THEN sig[Front] + p ELSE sig[t]
    BY <1>3 DEF TypeOK
<1> QED
    BY <1>1, <1>2, <1>3, <1>4 DEF Begins, Halted, Live, BetweenFrames

LEMMA DispatchKind ==
    ASSUME IInv, DispatchNext(1) PROVE Me.next \in Stage /\ Begins(Me.next)
<1> USE DEF IInv
<1> DEFINE s == Me.next
<1>1. Me.at = "dispatch" /\ gen' = gen /\ phase' = phase /\ Dispatch(s)
    BY DEF DispatchNext, Me
<1>2. s \in Stage \ {Front} /\ Ready(s)
    BY <1>1, WorkerType, ConstantsAssumption DEF Completing, Scanning
<1>3. phase # "setup" /\ phase # "stopped"
    BY <1>1, BusyPhase
<1>4. ~Live(s) /\ gen[s] = Round /\ \A d \in Deps[s] : gen[d] = Round + 1
    BY <1>2, <1>3, ReadyStage
<1>5. PICK p \in Nat : sig[s] + p > 0 /\ sig' = [sig EXCEPT ![s] = @ + p]
    BY <1>1, <1>2, DispatchEffect
<1>6. \A t \in Stage : sig'[t] = IF t = s THEN sig[s] + p ELSE sig[t]
    BY <1>5 DEF TypeOK
<1> QED
    BY <1>1, <1>2, <1>3, <1>4, <1>5, <1>6 DEF Begins, Halted, Live

LEMMA WrapKind ==
    ASSUME IInv, Wrap(1) PROVE Keeps \/ Begins(Front)
<1> USE DEF IInv
<1>1. Me.at = "scan" /\ gen' = gen /\ phase' = phase
    BY DEF Wrap, Me
<1>2. phase # "setup" /\ phase # "stopped"
    BY <1>1, BusyPhase
<1>3. CASE UNCHANGED sig
    BY <1>1, <1>2, <1>3 DEF Keeps, Halted, Live, TypeOK
<1>4. CASE Me.stage = Last /\ Dispatch(Front)
  <2>1. BetweenFrames /\ Front \in Stage
      BY <1>1, <1>4, ConstantsAssumption DEF Completing, Scanning
  <2>2. PICK p \in Nat : sig[Front] + p > 0 /\ sig' = [sig EXCEPT ![Front] = @ + p]
      BY <1>4, <2>1, DispatchEffect
  <2>3. \A t \in Stage : sig'[t] = IF t = Front THEN sig[Front] + p ELSE sig[t]
      BY <2>2 DEF TypeOK
  <2> QED
      BY <1>1, <1>2, <2>1, <2>2, <2>3 DEF Begins, Halted, Live, BetweenFrames
<1> QED
    BY <1>3, <1>4 DEF Wrap, Me

LEMMA OnCompleteKind ==
    ASSUME IInv, OnComplete(1) PROVE Me.stage \in Stage /\ (Keeps \/ Ends(Me.stage))
<1> USE DEF IInv
<1> DEFINE c == Me.stage
<1>1. /\ Me.at = "run" /\ c \in Stage /\ phase' = phase
      /\ sig' = [sig EXCEPT ![c] = @ - 1]
    BY WorkerType DEF OnComplete, Me
<1>2. phase # "setup" /\ phase # "stopped"
    BY <1>1, BusyPhase
<1>3. sig[c] > 0 /\ \A t \in Stage : sig[t] \in Nat
    BY <1>1 DEF Signals, TypeOK
<1>4. \A t \in Stage : sig'[t] = IF t = c THEN sig[c] - 1 ELSE sig[t]
    BY <1>1 DEF TypeOK
<1>5. CASE sig[c] # 1 /\ gen' = gen
    BY <1>1, <1>2, <1>3, <1>4, <1>5 DEF Keeps, Halted, Live
<1>6. CASE sig[c] = 1 /\ gen' = [gen EXCEPT ![c] = @ + 1]
    BY <1>1, <1>2, <1>3, <1>4, <1>6 DEF Ends, Halted, Live
<1> QED
    BY <1>1, <1>5, <1>6 DEF OnComplete, Me

LEMMA StepKinds ==
    ASSUME IInv, StartedOnce, [Next]_vars
    PROVE  Keeps \/ \E s \in Stage : Begins(s) \/ Ends(s)
<1>1. Worker = {1} /\ Front \in Stage
    BY ConstantsAssumption
<1>2. CASE UNCHANGED <<gen, sig>> /\ (Halted' <=> Halted)
    BY <1>2 DEF Keeps, Live, IInv, TypeOK, Lifecycle, Halted, Quiet
<1>3. CASE StopReturn(1)
    BY <1>3 DEF StopReturn, Keeps, Live, IInv, TypeOK, Lifecycle, Halted, Quiet
<1>4. CASE (\E s \in Stage : Pop(1, s)) \/ Suspend(1) \/ Scan(1) \/ UNCHANGED vars
    BY <1>2, <1>4 DEF Pop, Suspend, Scan, vars, Halted
<1>5. CASE RequestStop(1)
    BY <1>2, <1>5 DEF RequestStop, Halted
<1> QED
    BY <1>1, <1>3, <1>4, <1>5, StartKind, DispatchKind, WrapKind, OnCompleteKind
    DEF Next, Rest

\* A slot is submitted only when all its tasks have completed.
THEOREM SubmittedWhenIdle ==
    ASSUME StartedOnce PROVE Spec => SubmitOnlyIdleSlots
<1>1. ASSUME IInv, [Next]_vars, NEW t \in Stage, sig'[t] > sig[t]
      PROVE  sig[t] = 0
  <2>1. sig[t] \in Nat /\ sig'[t] \in Nat
      BY <1>1, NextStep DEF IInv, TypeOK
  <2>2. ~(sig'[t] <= sig[t])
      BY <1>1, <2>1
  <2>3. PICK s \in Stage : Begins(s)
      BY <1>1, <2>2, StepKinds DEF Keeps, Ends
  <2>4. t = s /\ ~Live(s)
      BY <1>1, <2>1, <2>3 DEF Begins
  <2> QED
      BY <2>1, <2>4 DEF Live
<1>2. IInv /\ [Next]_vars => [\A s \in Stage : sig'[s] > sig[s] => sig[s] = 0]_vars
    BY <1>1
<1> QED
    BY <1>2, InductiveInvariant, PTL DEF SubmitOnlyIdleSlots, Spec

\* A frame begins only when the previous one is over for every stage.
THEOREM FramesDoNotOverlap ==
    ASSUME StartedOnce PROVE Spec => FrameBarrier
<1>1. ASSUME IInv, [Next]_vars, sig'[Front] > sig[Front]
      PROVE  BetweenFrames
  <2>1. Front \in Stage
      BY ConstantsAssumption
  <2>2. sig[Front] \in Nat /\ sig'[Front] \in Nat
      BY <1>1, <2>1, NextStep DEF IInv, TypeOK
  <2>3. ~(sig'[Front] <= sig[Front])
      BY <1>1, <2>2
  <2>4. PICK s \in Stage : Begins(s)
      BY <1>1, <2>1, <2>3, StepKinds DEF Keeps, Ends
  <2>5. s = Front
      BY <1>1, <2>1, <2>2, <2>4 DEF Begins
  <2> QED
      BY <2>4, <2>5 DEF Begins
<1>2. IInv /\ [Next]_vars => [sig'[Front] > sig[Front] => BetweenFrames]_vars
    BY <1>1
<1> QED
    BY <1>2, InductiveInvariant, PTL DEF FrameBarrier, Spec

------------------------------------------------------------------------------
(* The pipeline implements the frame schedule. *)

Done == {s \in Stage : gen[s] > gen[Last]}
Running == {s \in Stage : Live(s)}

LEMMA InitRefines == Init => Frames!FrameInit
<1> SUFFICES ASSUME Init PROVE Frames!FrameInit
    OBVIOUS
<1>1. Last \in Stage
    BY ConstantsAssumption
<1>2. gen[Last] = 0 /\ Done = {} /\ Running = {}
    BY <1>1 DEF Init, Done, Running, Live
<1> QED
    BY <1>2 DEF Init, Frames!FrameInit, Done, Running

LEMMA KeepsRefines ==
    ASSUME IInv, Keeps
    PROVE  [Frames!FrameNext]_(Frames!frameVars)
<1>1. gen' = gen /\ Done' = Done /\ Running' = Running
    BY DEF Keeps, Done, Running
<1>2. CASE Halted' <=> Halted
    BY <1>1, <1>2 DEF Frames!frameVars, Done, Running, Halted
<1>3. CASE ~Halted /\ Halted' /\ BetweenFrames
  <2>1. Done = {} /\ Running = {}
      BY <1>3, ConstantsAssumption DEF BetweenFrames, Done, Running, IInv, TypeOK
  <2>2. Frames!Halt
      BY <1>1, <1>3, <2>1
      DEF Frames!Halt, Frames!BetweenFrames, Done, Running, Halted
  <2> QED
      BY <2>2 DEF Frames!FrameNext
<1> QED
    BY <1>2, <1>3 DEF Keeps, Halted

LEMMA BeginsRefines ==
    ASSUME IInv, NEW s \in Stage, Begins(s)
    PROVE  Frames!FrameNext
<1>1. /\ gen' = gen /\ Done' = Done /\ Running' = Running \union {s}
      /\ s \notin Running
    BY DEF Begins, Done, Running
<1>2. Last \in Stage /\ Round \in Nat /\ \A t \in Stage : gen[t] \in Nat
  <2>1. Last \in Stage
      BY ConstantsAssumption
  <2>2. \A t \in Stage : gen[t] \in Nat
      BY DEF IInv, TypeOK
  <2> QED
      BY <2>1, <2>2 DEF Round
<1>3. CASE s = Front /\ BetweenFrames
  <2>1. Done = {} /\ Running = {}
      BY <1>2, <1>3 DEF BetweenFrames, Done, Running
  <2>2. Deps[s] = {}
      BY <1>3, ResolvedAssumption, ConstantsAssumption
  <2>3. CASE Halted
    <3>1. Frames!Resume(s)
        BY <1>1, <2>1, <2>2, <2>3
        DEF Begins, Frames!Resume, Frames!BetweenFrames, Done, Running, Halted
    <3> QED
        BY <3>1 DEF Frames!FrameNext
  <2>4. CASE ~Halted
    <3>1. Frames!Begin(s)
        BY <1>1, <2>1, <2>2, <2>4
        DEF Begins, Frames!Begin, Done, Running, Halted
    <3> QED
        BY <3>1 DEF Frames!FrameNext
  <2> QED
      BY <2>3, <2>4
<1>4. CASE s # Front /\ gen[s] = Round /\ ~Halted /\ \A d \in Deps[s] : gen[d] = Round + 1
  <2>1. Deps[s] \subseteq Done /\ s \notin Done
      BY <1>2, <1>4, ConstantsAssumption DEF Done, Round
  <2>2. Frames!Begin(s)
      BY <1>1, <1>4, <2>1 DEF Begins, Frames!Begin, Done, Running, Halted
  <2> QED
      BY <2>2 DEF Frames!FrameNext
<1> QED
    BY <1>3, <1>4 DEF Begins

LEMMA EndsRefines ==
    ASSUME IInv, NEW s \in Stage, Ends(s)
    PROVE  Frames!FrameNext
<1>1. /\ s \in Running /\ Running' = Running \ {s}
      /\ Halted' <=> Halted
    BY DEF Ends, Running
<1>2. Last \in Stage /\ Round \in Nat /\ \A t \in Stage : gen[t] \in Nat
  <2>1. Last \in Stage
      BY ConstantsAssumption
  <2>2. \A t \in Stage : gen[t] \in Nat
      BY DEF IInv, TypeOK
  <2> QED
      BY <2>1, <2>2 DEF Round
<1>3. /\ gen[s] = Round
      /\ \A t \in Stage : gen'[t] = IF t = s THEN gen[s] + 1 ELSE gen[t]
    BY DEF Ends, IInv, LiveStages, TypeOK
<1>4. CASE s # Last
  <2>1. gen'[Last] = gen[Last]
      BY <1>2, <1>3, <1>4
  <2>2. Done' = Done \union {s}
      BY <1>2, <1>3, <2>1 DEF Done, Round
  <2>3. Frames!End(s)
      BY <1>1, <1>4, <2>1, <2>2 DEF Frames!End, Done, Running, Halted
  <2> QED
      BY <2>3 DEF Frames!FrameNext
<1>5. CASE s = Last
  <2>1. \A t \in Stage \ {Last} : gen[t] = Round + 1
      BY <1>5, LastIsLast DEF IInv, Ends
  <2>2. Done = Stage \ {Last}
      BY <1>2, <2>1 DEF Done, Round
  <2>3. Running = {Last}
    <3>1. \A t \in Stage : Live(t) => gen[t] = Round
        BY DEF IInv, LiveStages
    <3> QED
        BY <1>1, <1>2, <1>5, <2>1, <3>1 DEF Running
  <2>4. gen'[Last] = gen[Last] + 1
      BY <1>2, <1>3, <1>5
  <2>5. \A t \in Stage : gen'[t] = Round + 1
      BY <1>2, <1>3, <1>5, <2>1
  <2>6. Done' = {}
      BY <1>2, <2>5 DEF Done
  <2>7. Running' = {}
      BY <1>1, <1>5, <2>3
  <2>8. Frames!EndFrame
      BY <1>1, <2>2, <2>3, <2>4, <2>6, <2>7
      DEF Frames!EndFrame, Done, Running, Halted
  <2> QED
      BY <2>8 DEF Frames!FrameNext
<1> QED
    BY <1>4, <1>5

\* Refinement: whatever the graph, the bookkeeping with generations, signals
\* and the loop of complete() runs every stage once a frame and in order.
THEOREM PipelineRefinesFrames ==
    ASSUME StartedOnce PROVE Spec => ImplementsFrames
<1>1. IInv /\ [Next]_vars => [Frames!FrameNext]_(Frames!frameVars)
    BY StepKinds, KeepsRefines, BeginsRefines, EndsRefines
<1> QED
    BY <1>1, InitRefines, InductiveInvariant, PTL
    DEF Spec, ImplementsFrames, Frames!FrameSpec
==============================================================================
