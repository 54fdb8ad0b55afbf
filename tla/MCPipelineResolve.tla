-------------------------- MODULE MCPipelineResolve --------------------------
(***************************************************************************)
(* One instance for TLC of what is put in order when an engine starts: the *)
(* stages of its pipelines, and its sub modules.  The two do not interact; *)
(* the subject, chosen at the beginning, is the one that moves.            *)
(***************************************************************************)
EXTENDS PipelineResolve, ModuleOrder

\* The pipelines of the editor.  The scene stages between the first and the
\* last of their pipeline need no declaration of their own.
Core == [stages |-> <<"TickBegin", "TickEnd">>,
         requires |-> [s \in {"TickEnd"} |-> {"RenderTick", "ActorHousekeeping"}]]
Actor == [stages |-> <<"ActorTick", "ActorHousekeeping">>,
          requires |-> [s \in {"ActorTick", "ActorHousekeeping"} |->
                          IF s = "ActorTick" THEN {"TickBegin", "InputTick"}
                                             ELSE {"RenderTick"}]]
Scene == [stages |-> <<"SceneBroadcast", "SceneUpdate", "ScenePostProcess">>,
          requires |-> [s \in {"SceneBroadcast"} |->
                          {"TickBegin", "InputTick", "ActorTick"}]]
RenderScene == [stages |-> <<"RenderTick">>,
                requires |-> [s \in {"RenderTick"} |->
                    {"TickBegin", "ActorTick", "ReflowTick", "ScenePostProcess"}]]
InputPipe == [stages |-> <<"InputTick">>,
              requires |-> [s \in {"InputTick"} |-> {"TickBegin"}]]
Reflow == [stages |-> <<"ReflowTick">>,
           requires |-> [s \in {"ReflowTick"} |->
                            {"TickBegin", "InputTick", "ActorTick"}]]

\* In whatever order the engine and its modules add them.
EngineMounts == SetToSeqs({Core, Actor, Scene, RenderScene, InputPipe, Reflow})

\* Small pipelines with up to three arbitrary requirements, some of them on a
\* stage that is not there: two of two stages and one of one stage; one of two
\* and one of three; two that share a stage.
Stages == {"a", "b", "c", "d", "e"}
Layouts == { << <<"a", "b">>, <<"c", "d">>, <<"e">> >>,
             << <<"a", "b">>, <<"c", "d", "e">> >>,
             << <<"e", "b">>, <<"c", "d">>, <<"a", "d">> >> }
Requirements ==
    LET pairs == {q \in (Stages \cup {"none"}) \X Stages : q[1] # q[2]}
    IN  {{}} \cup {{p, q, r} : p, q, r \in pairs}
Mount(layout, pairs) ==
    [i \in DOMAIN layout |->
        [stages |-> layout[i],
         requires |-> [t \in ToSet(layout[i]) |->
                         IF \E j \in 1 .. i - 1 : t \in ToSet(layout[j]) THEN {}
                         ELSE {s \in Stages \cup {"none"} : <<s, t>> \in pairs}]]]
SmallMounts == {Mount(l, r) : l \in Layouts, r \in Requirements}

OnePipeline == Mount(<< <<"a", "b">> >>, {})
AllMounts == SmallMounts \cup EngineMounts \cup {OnePipeline}

\* Three sub modules with everything they could declare of each other; one of
\* them may also declare that it comes before the core module.
Nothing == [order |-> "none", required |-> FALSE]
Follows == [order |-> "successor", required |-> TRUE]
Leads   == [order |-> "predecessor", required |-> FALSE]
SmallCore == {"core"}
SmallSub == {"x", "y", "z"}
Pair == {p \in SmallSub \X SmallSub : p[1] # p[2]}
Small(d, first) ==
    [m \in SmallSub |-> [k \in SmallCore \cup SmallSub |->
        CASE <<m, k>> \in Pair -> d[<<m, k>>]
          [] <<m, k>> = <<"x", "core">> /\ first -> Leads
          [] OTHER -> Nothing]]
FirstOfAll == Small([p \in Pair |-> Nothing], TRUE)
SmallDeclarations ==
    {FirstOfAll} \cup {Small(d, FALSE) : d \in [Pair -> {Nothing, Follows, Leads}]}
------------------------------------------------------------------------------
VARIABLE subject

allVars == <<subject, vars, orderVars>>

ResolveInit ==
    \/ subject = "stages" /\ OrderInit /\ deps = FirstOfAll /\ Init
    \/ subject = "modules" /\ pipelines = OnePipeline /\ Init /\ OrderInit

ResolveNext ==
    \/ subject = "stages" /\ UNCHANGED <<subject, orderVars>> /\ Next
    \/ subject = "modules" /\ UNCHANGED <<subject, vars>> /\ OrderNext

ResolveSpec == ResolveInit /\ [][ResolveNext]_allVars

ResolveTypeOK == TypeOK /\ OrderTypeOK

\* Safety.  What resolve() leaves behind is what the run time relies on: the direct
\* dependencies order all that was declared, and of the engine's own pipelines, in
\* whatever order they are added, one stage begins every chain and one ends it.
ResolvedForRunTime ==
    /\ DependenciesSuffice
    /\ at \in {"done", "failed"} /\ pipelines \in EngineMounts => EngineResolves
==============================================================================
