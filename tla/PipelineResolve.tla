--------------------------- MODULE PipelineResolve ---------------------------
(***************************************************************************)
(* CompositePipeline::resolve(): the algorithm that puts the stages of all *)
(* mounted pipelines into the one vector that module CompositePipeline     *)
(* runs, and that derives the dependencies of each composite stage.        *)
(*                                                                         *)
(* A pipeline is the sequence of the stages it mounts and, for some of     *)
(* them, the stages it declares as required.  None stands for the nullptr  *)
(* that getStage() returns for a stage nobody has mounted.                 *)
(*                                                                         *)
(* The algorithm inserts the stages in passes over the registered stages,  *)
(* each at the first gap of the vector that admits it, then walks the      *)
(* vector once and moves the first stage of a pipeline forward, next to    *)
(* what has to come after it.  The stage sets and maps of the code         *)
(* (CompactSet, CompactMap) keep insertion order, so that nothing here is  *)
(* nondeterministic but the pipelines.                                     *)
(***************************************************************************)
EXTENDS Integers, FiniteSets, Sequences, SequencesExt, FiniteSetsExt

CONSTANTS
    Mounts,     \* the sequences of pipelines to be resolved
    None        \* a stage that is not registered

VARIABLES
    pipelines,  \* CompositePipeline::_pipelines
    stages,     \* the registered stages
    required,   \* dependencies: what is required[s] before stage s
    inverse,    \* invDependencies: what requires the stage
    placed,     \* the stages of CompositePipeline::_compositeStages
    turn,       \* position in the loop over the registered stages
    pass,       \* iteration
    cursor,     \* compIdx of the optimization
    at          \* what resolve() is doing

collected == <<pipelines, stages, required, inverse>>
vars == <<collected, placed, turn, pass, cursor, at>>

\* Definitions marked "Faulty" are not part of the model, see CompositePipeline.

StagesOf(p) == ToSet(p.stages)

IndexOf(order, s) == CHOOSE i \in DOMAIN order : order[i] = s

\* mount() and registerStage(): a stage is registered by the first pipeline
\* that mounts it.
Registered(ps) ==
    LET mounted == FlattenSeq([i \in DOMAIN ps |-> ps[i].stages])
        known[n \in 0 .. Len(mounted)] ==
            IF n = 0 THEN <<>>
            ELSE LET before == known[n - 1] IN
                 IF Contains(before, mounted[n]) THEN before ELSE Append(before, mounted[n])
    IN  known[Len(mounted)]

\* No pipeline mounts a stage twice, and each declares something only of stages it
\* mounts.  What it requires are stages, or what getStage() returned for them.
ASSUME MountsAssumption ==
    \A ps \in Mounts :
        /\ ps \in Seq(ToSet(ps))
        /\ \A i \in DOMAIN ps :
              /\ ps[i].stages \in Seq(StagesOf(ps[i]))
              /\ IsInjective(ps[i].stages)
              /\ DOMAIN ps[i].requires \subseteq StagesOf(ps[i])
              /\ \A t \in DOMAIN ps[i].requires :
                    ps[i].requires[t] \subseteq
                        {None} \cup UNION {StagesOf(ps[k]) : k \in DOMAIN ps}

\* collectDependencies(): what the pipelines declare.  The set is keyed by
\* pipeline and stage, and no pipeline declares a stage twice.
Declared(ps) ==
    UNION {{[stage |-> s, required |-> ps[i].requires[s]] :
                s \in DOMAIN ps[i].requires} : i \in DOMAIN ps}

\* What transformOrdersToDependencies() makes of the order of one pipeline: an entry
\* for every stage but the first, which requires the one in front of it.
Neighbours(p) ==
    {[stage |-> p.stages[j + 1], required |-> {p.stages[j]}] : j \in 1 .. Len(p.stages) - 1}

\* Faulty Ordered: only the last stage depends on the first.
OrderedFromHead(ps) ==
    {[stage |-> ps[i].stages[Len(ps[i].stages)], required |-> {ps[i].stages[1]}] :
        i \in {j \in DOMAIN ps : Len(ps[j].stages) > 1}}

\* transformOrdersToDependencies(): the entries have a stage and no pipeline, and of
\* those for one stage the set keeps the first.
Ordered(ps) ==
    UNION {{entry \in Neighbours(ps[i]) :
                \A k \in 1 .. i - 1 : \A e \in Neighbours(ps[k]) : e.stage # entry.stage} :
            i \in DOMAIN ps}

\* All entries for a stage taken together.  defineCompositeStage() makes them
\* the dependencies of its composite stage.
Required(entries, s) ==
    UNION {entry.required : entry \in {e \in entries : e.stage = s}}

TypeOK ==
    /\ required \in [ToSet(stages) -> SUBSET (ToSet(stages) \cup {None})]
    /\ inverse \in [ToSet(stages) -> SUBSET ToSet(stages)]
    /\ placed \in Seq(ToSet(stages))
    /\ turn \in 1 .. Len(stages) + 1
    /\ pass \in 0 .. Len(stages) + 1
    /\ cursor \in 1 .. Len(stages) + 1
    /\ at \in {"insert", "optimize", "done", "failed"}

\* inverseDependencies() turns the relation round.
Init ==
    /\ pipelines \in Mounts
    /\ stages = Registered(pipelines)
    /\ LET entries == Declared(pipelines) \cup Ordered(pipelines)
       IN  /\ required = [s \in ToSet(stages) |-> Required(entries, s)]
           /\ inverse = [s \in ToSet(stages) |->
                            {e.stage : e \in {d \in entries : s \in d.required}}]
    /\ placed = <<>>
    /\ turn = 1
    /\ pass = 0
    /\ cursor = 1
    /\ at = "insert"
------------------------------------------------------------------------------
Pipelines == ToSet(pipelines)

\* The stages a pipeline mounts before s, and those from s on.
Ahead(p, s) == {p.stages[i] : i \in 1 .. IndexOf(p.stages, s) - 1}
FromOn(p, s) == StagesOf(p) \ Ahead(p, s)

\* Faulty CanInsert: what requires s may be in front of it.
CanInsertNoInverse(s, stated) ==
    /\ s \notin stated
    /\ required[s] \subseteq stated
    /\ \A p \in Pipelines : s \in StagesOf(p) => Ahead(p, s) \subseteq stated

\* resolveCanInsertStage(): may s stand directly behind the stages stated?
CanInsert(s, stated) ==
    /\ s \notin stated
    /\ required[s] \subseteq stated
    /\ inverse[s] \cap stated = {}
    /\ \A p \in Pipelines : s \in StagesOf(p) =>
          /\ Ahead(p, s) \subseteq stated
          /\ FromOn(p, s) \cap stated = {}

\* The stages at positions 1 .. k of the vector.
Prefix(k) == {placed[i] : i \in 1 .. k}

\* The positions behind which s may be inserted.  Position 0 is tried while
\* the vector is empty, and never again.
Gaps(s) ==
    {k \in 0 .. Len(placed) : (k = 0 <=> placed = <<>>) /\ CanInsert(s, Prefix(k))}

\* One turn of the loop over the registered stages.
Insert ==
    /\ at = "insert"
    /\ turn <= Len(stages)
    /\ LET s == stages[turn]
       IN  placed' = IF Contains(placed, s) \/ Gaps(s) = {} THEN placed
                     ELSE InsertAt(placed, Min(Gaps(s)) + 1, s)
    /\ turn' = turn + 1
    /\ UNCHANGED <<collected, pass, cursor, at>>

\* Faulty MaxIteration: two passes are thought to be enough.
TwoPasses == 1

\* Faulty MaxIteration: one pass more than the comparison admits.
OnePassMore == Len(stages) + 2

MaxIteration == Len(stages) + 1

\* The end of a pass: all stages are placed, or there is another pass, or
\* resolve() throws.
EndPass ==
    /\ at = "insert"
    /\ turn > Len(stages)
    /\ turn' = 1
    /\ \/ /\ Len(placed) = Len(stages)
          /\ at' = "optimize"
          /\ pass' = pass
       \/ /\ Len(placed) # Len(stages)
          /\ pass < MaxIteration
          /\ at' = "insert"
          /\ pass' = pass + 1
       \/ /\ Len(placed) # Len(stages)
          /\ pass = MaxIteration
          /\ at' = "failed"
          /\ pass' = pass
    /\ UNCHANGED <<collected, placed, cursor>>
------------------------------------------------------------------------------
\* Faulty Landing: no step back, the stage lands behind the one that blocks it.
LandingTooFar(i) ==
    LET others(k) == Prefix(k) \ {placed[i]}
    IN  Min({k \in i .. Len(placed) :
                k < Len(placed) => ~CanInsert(placed[i], others(k))})

\* The position to which the stage at position i can be moved forward.  The
\* search stops at the stage that blocks it, or at the end of the vector, and
\* steps back once in either case: a stage is never moved to the very end.
Landing(i) ==
    LET others(k) == Prefix(k) \ {placed[i]}
        stop == Min({k \in i .. Len(placed) :
                        k < Len(placed) => ~CanInsert(placed[i], others(k))})
    IN  IF stop = i THEN i ELSE stop - 1

\* The stages between the positions b and e.
Gap(b, e) == IF b >= e THEN 0 ELSE e - b - 1

FirstOf(p) == p.stages[1]
EndOf(p)   == p.stages[Len(p.stages)]
At(s)      == IndexOf(placed, s)

\* changeDistance: how much the pipelines that begin or end with s would
\* shrink.  The code compares positions of the vector before the move, hence
\* to + 1.
Gain(s, to) ==
    LET change(p) ==
            IF Len(p.stages) = 1 \/ s \notin {FirstOf(p), EndOf(p)} THEN 0
            ELSE Gap(At(FirstOf(p)), At(EndOf(p)))
                    - (IF s = FirstOf(p) THEN Gap(to + 1, At(EndOf(p)))
                                         ELSE Gap(At(FirstOf(p)), to + 1))
    IN  FoldLeft(LAMBDA sum, p : sum + change(p), 0, pipelines)

Move(i, k) == InsertAt(RemoveAt(placed, i), k, placed[i])

\* One turn of the loop of the optimization.  The stage that takes the place
\* of a moved one is skipped.
Optimize ==
    /\ at = "optimize"
    /\ cursor <= Len(placed)
    /\ LET k == Landing(cursor)
       IN  placed' = IF k > cursor /\ Gain(placed[cursor], k) > 0
                     THEN Move(cursor, k) ELSE placed
    /\ cursor' = cursor + 1
    /\ UNCHANGED <<collected, turn, pass, at>>

Finish ==
    /\ at = "optimize"
    /\ cursor > Len(placed)
    /\ at' = "done"
    /\ UNCHANGED <<collected, placed, turn, pass, cursor>>

\* resolve() has returned or thrown.
Return ==
    /\ at \in {"done", "failed"}
    /\ UNCHANGED vars

Next == Insert \/ EndPass \/ Optimize \/ Finish \/ Return

Spec == Init /\ [][Next]_vars
------------------------------------------------------------------------------
\* What has to complete before t begins, as the pipelines ask for it.  None of this
\* looks at the sets the algorithm works on.
Preceding(t) ==
    (UNION {p.requires[t] : p \in {q \in Pipelines : t \in DOMAIN q.requires}})
        \cup (UNION {Ahead(p, t) : p \in {q \in Pipelines : t \in StagesOf(q)}})

\* The stages that have to precede a stage are all there before it is.
Respects(order) ==
    \A k \in DOMAIN order : Preceding(order[k]) \subseteq {order[i] : i \in 1 .. k - 1}

\* Safety.  At every moment, while stages are inserted and while they are moved,
\* every stage stands behind all that its pipelines say must come first, and no
\* stage is there twice.
RequiredBefore ==
    /\ IsInjective(placed)
    /\ Respects(placed)

\* Safety.  resolve() throws only if there is no order that would do: the
\* greedy insertion, which never takes a stage back and gives up after a fixed
\* number of passes, overlooks none.
FailsOnlyIfUnsolvable ==
    at = "failed" => ~\E order \in SetToSeqs(ToSet(stages)) : Respects(order)

\* No stage is mounted by two pipelines.
Unshared ==
    \A i, j \in DOMAIN pipelines :
        i # j => StagesOf(pipelines[i]) \cap StagesOf(pipelines[j]) = {}

\* The stages on which t depends, directly or by way of others.
DependsOn(t) ==
    LET found[n \in 0 .. Len(placed)] ==
            IF n = 0 THEN required[t]
            ELSE LET before == found[n - 1]
                 IN  before \cup UNION {required[s] : s \in before}
    IN  found[Len(placed)]

\* Safety.  The dependencies of the composite stages, of which the run time
\* sees only the direct ones, order all that the pipelines want ordered.  (It is
\* not so where two pipelines mount one stage: see Ordered.)
DependenciesSuffice ==
    at = "done" /\ Unshared =>
        \A t \in ToSet(placed) : Preceding(t) \subseteq DependsOn(t)

\* Safety.  The pipelines of the engine can be resolved, and the result is what
\* module CompositePipeline assumes: one stage that starts every chain is in
\* front, and one that ends every chain is last.
EngineResolves ==
    /\ at # "failed"
    /\ at = "done" =>
          \A i \in DOMAIN placed :
              /\ i # 1 <=> required[placed[i]] # {}
              /\ i # Len(placed) <=> inverse[placed[i]] # {}
==============================================================================
