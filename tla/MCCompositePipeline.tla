------------------------- MODULE MCCompositePipeline -------------------------
(***************************************************************************)
(* Instances of CompositePipeline for TLC.                                 *)
(***************************************************************************)
EXTENDS CompositePipeline

\* The stages of the editor, in an order resolve() produces, with the
\* dependencies their pipelines declare and those the stage orders add:
\*  1 TickBegin       2 InputTick          3 ActorTick        4 ReflowTick
\*  5 SceneBroadcast  6 SceneUpdate        7 ScenePostProcess 8 RenderTick
\*  9 ActorHousekeeping                   10 TickEnd
EngineN == 10
EngineDeps ==
    << {}, {1}, {1, 2}, {1, 2, 3}, {1, 2, 3}, {5}, {6}, {1, 3, 4, 7},
       {3, 8}, {1, 8, 9} >>

\* TickEnd is an EmptyPipelineStage; the scene stages enqueue one task for
\* each of the two universe contexts of the editor.
EngineTasks == [s \in 1 .. EngineN |-> CASE s \in 5 .. 7 -> 2 [] s = 10 -> 0 [] OTHER -> 1]

\* A diamond with a side branch: stages 2 and 3 run in parallel, 2 with two
\* tasks and 3 without one.
DiamondN == 5
DiamondDeps == << {}, {1}, {1}, {3}, {1, 2, 4} >>
DiamondTasks == << 1, 2, 0, 1, 0 >>
==============================================================================
