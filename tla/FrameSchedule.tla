---------------------------- MODULE FrameSchedule ----------------------------
(***************************************************************************)
(* What the stage pipeline of Engine.Scheduler promises to the stages that *)
(* are mounted on it, without generations, slots, tasks or workers:        *)
(*                                                                         *)
(*  - the engine runs frames; in every frame every stage runs exactly once;*)
(*  - a stage begins only when every stage it depends on has ended in the  *)
(*    same frame, and stages that do not depend on each other may overlap; *)
(*  - a frame is over when its last stage has ended, and by then every     *)
(*    stage of the frame has ended;                                        *)
(*  - the pipeline halts only between two frames.                          *)
(*                                                                         *)
(* CompositePipeline implements this specification (CompositePipeline's    *)
(* Frames instance), and EngineLifecycle relies on it.                     *)
(***************************************************************************)
EXTENDS Naturals

CONSTANTS
    Stage,      \* the stages of the pipeline
    Requires,   \* Requires[s]: the stages s depends on
    Last        \* the stage whose end ends the frame

VARIABLES
    frame,      \* number of completed frames
    done,       \* the stages that have ended in the current frame
    running,    \* the stages that have begun and not ended
    halted      \* no frame may begin

frameVars == <<frame, done, running, halted>>

FrameTypeOK ==
    /\ frame \in Nat
    /\ done \subseteq Stage
    /\ running \subseteq Stage
    /\ halted \in BOOLEAN

FrameInit ==
    /\ frame = 0
    /\ done = {}
    /\ running = {}
    /\ halted = TRUE

BetweenFrames == done = {} /\ running = {}

Begin(s) ==
    /\ ~halted
    /\ s \notin done \union running
    /\ Requires[s] \subseteq done
    /\ running' = running \union {s}
    /\ UNCHANGED <<frame, done, halted>>

End(s) ==
    /\ s \in running
    /\ s # Last
    /\ running' = running \ {s}
    /\ done' = done \union {s}
    /\ UNCHANGED <<frame, halted>>

\* The end of the last stage closes the frame: nothing else is left of it.
EndFrame ==
    /\ running = {Last}
    /\ done = Stage \ {Last}
    /\ running' = {}
    /\ done' = {}
    /\ frame' = frame + 1
    /\ UNCHANGED halted

Halt ==
    /\ ~halted
    /\ BetweenFrames
    /\ halted' = TRUE
    /\ UNCHANGED <<frame, done, running>>

\* The pipeline is started by a first stage, which requires nothing.
Resume(s) ==
    /\ halted
    /\ BetweenFrames
    /\ Requires[s] = {}
    /\ halted' = FALSE
    /\ running' = {s}
    /\ UNCHANGED <<frame, done>>

FrameNext ==
    \/ \E s \in Stage : Begin(s) \/ End(s) \/ Resume(s)
    \/ EndFrame
    \/ Halt

FrameSpec == FrameInit /\ [][FrameNext]_frameVars
==============================================================================
