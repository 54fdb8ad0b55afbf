------------------------ MODULE EngineLifecycleProofs ------------------------
(***************************************************************************)
(* Theorems about EngineLifecycle, for any modules, both engines and any   *)
(* number of stages and starts: the tasks of a call end before it returns, *)
(* and the modules follow the state of the engine.                         *)
(***************************************************************************)
EXTENDS EngineLifecycle, FiniteSetTheorems, SequenceTheorems, TLAPS

\* A GameEngine without sub modules expects nothing of the task that it starts for
\* them and does not wait for it.  The program that embeds it adds sub modules.
WaitsForSubModules == Editor \/ SubModules # <<>>

------------------------------------------------------------------------------
\* The tasks that are under way, and how many of them are of a call (or of the
\* pipeline) and have left the main thread.
Live == ToSet(main.pending) \cup ToSet(queue) \cup ({worker} \ {Idle})

Places(s, o) == {i \in 1 .. Len(s) : s[i].of = o}
CountIn(s, o) == Cardinality(Places(s, o))
Holds(t, o) == IF t # Idle /\ t.of = o THEN 1 ELSE 0
InHand(q, w, o) == CountIn(q, o) + Holds(w, o)

\* What a round of a call is for: how many tasks it has, what they do, which modules
\* they visit and in which state the modules are afterwards.
LastRound(call) ==
    CASE call = "init" -> 2
      [] call = "start" -> 3
      [] call = "stop" -> 3
      [] call = "shutdown" -> 2
      [] OTHER -> 0
VisitsCore(call, r) ==
    \/ call = "init" /\ r = 1
    \/ call = "start" /\ r = 2
    \/ call = "stop" /\ r = 2
    \/ call = "shutdown" /\ r = 2
VisitsSub(call, r) ==
    \/ call = "init" /\ r = 2
    \/ call = "start" /\ r = 3
    \/ call = "stop" /\ r = 1
    \/ call = "shutdown" /\ r = 1
Target(list, call, r) ==
    IF VisitsCore(call, r) THEN CoreModule
    ELSE IF VisitsSub(call, r) THEN ToSet(list) ELSE {}
Size(call, r) ==
    IF (call = "init" /\ r = 1) \/ (call = "shutdown" /\ r = 2) THEN Len(CoreModules)
    ELSE IF r \in 1 .. LastRound(call) THEN 1 ELSE 0
JobIn(call, r) ==
    CASE call = "init" -> "setup"
      [] call = "start" -> IF r = 1 THEN "run" ELSE "start"
      [] call = "stop" -> IF r = 3 THEN "halt" ELSE "stop"
      [] OTHER -> "destroy"
Done(call) ==
    CASE call = "init" -> "setup"
      [] call = "start" -> "started"
      [] call = "stop" -> "stopped"
      [] OTHER -> "destroyed"

\* Every task of a round has yet to be passed to exec(), is with the worker, or has
\* been counted.
Counted ==
    /\ counter \in Nat
    /\ counter + Len(main.pending) + InHand(queue, worker, main.call) = Size(main.call, main.round)

\* A task is one of the stages, or belongs to the round the main thread is in.
OfRound(t) ==
    /\ t.of = main.call
    /\ \/ t.job = JobIn(main.call, main.round)
       \/ t.job = "halting" /\ main.call = "stop" /\ main.round = 3
    /\ ToSet(t.todo) \subseteq Target(subModules, main.call, main.round)
OwnedBy ==
    /\ \A t \in Live : t \in Task /\ (t = StageTask \/ OfRound(t))
    /\ \A t \in ToSet(main.pending) : t.of = main.call

\* A module that a round is for has been visited or is on the way of a task.
Visited ==
    \A m \in Target(subModules, main.call, main.round) :
        status[m] = Done(main.call) \/ \E t \in Live : m \in ToSet(t.todo)

\* The editor takes the sub modules from the end of the list as it destroys them.
Backwards ==
    Editor /\ main.call = "shutdown" =>
        /\ main.round = 1 => \A t \in Live : t = StageTask \/ t.todo = Reverse(subModules)
        /\ main.round > 1 \/ counter = 1 => subModules = <<>>

\* The pipeline has one stage under way, or none when it halts.
Staged == InHand(queue, worker, "pipeline") = IF frame > 0 THEN 1 ELSE 0

\* The states of the modules, between two calls and as a call goes through its rounds.
Low == {"created", "destroyed"}
Ready == {"setup", "stopped"}
Between(e) ==
    CASE e = 0 -> {"none"}
      [] e = 1 -> Low
      [] e = 2 -> {"setup"}
      [] e = 3 -> Ready
      [] e = 4 -> {"started"}
Upto(r, n, states) == IF r <= n THEN states ELSE {}
Since(r, n, states) == IF r >= n THEN states ELSE {}
CoreHas(e, call, r) ==
    CASE call = "none" -> Between(e)
      [] call = "preInit" -> {"created"}
      [] call = "init" -> Upto(r, 1, Low) \cup {"setup"}
      [] call = "postInit" -> {"setup"}
      [] call = "start" -> Upto(r, 2, Ready) \cup Since(r, 2, {"started"})
      [] call = "stop" -> Upto(r, 2, {"started"}) \cup Since(r, 2, {"stopped"})
      [] call = "shutdown" -> Upto(r, 2, Ready) \cup Since(r, 2, {"destroyed"})
      [] call = "exit" -> Low
SubHas(e, call, r) ==
    CASE call = "none" -> Between(e)
      [] call = "preInit" -> {"created"}
      [] call = "init" -> Upto(r, 2, Low) \cup Since(r, 2, {"setup"})
      [] call = "postInit" -> {"setup"}
      [] call = "start" -> Upto(r, 3, Ready) \cup Since(r, 3, {"started"})
      [] call = "stop" -> Upto(r, 1, {"started"}) \cup {"stopped"}
      [] call = "shutdown" -> Upto(r, 1, Ready) \cup {"destroyed"}
      [] call = "exit" -> Low
ModulesAre ==
    /\ \A m \in CoreModule : status[m] \in CoreHas(engineState, main.call, main.round)
    /\ \A m \in ToSet(subModules) : status[m] \in SubHas(engineState, main.call, main.round)
    /\ \A m \in SubModule \ ToSet(subModules) : status[m] \in {"none", "destroyed"}
    /\ main.call = "none" /\ engineState = 3 => All({"setup"}) \/ All({"stopped"})

\* Which calls are possible, and when there is a scheduler.
CallsFit ==
    /\ main.call = "none" => main = Quiet
    /\ main.call # "none" =>
        main.round \in 1 .. LastRound(main.call) + 1 /\ engineState \in From(main.call)
    /\ scheduler <=> \/ main.call = "none" /\ engineState >= 2
                     \/ main.call \in {"init", "postInit", "start", "stop", "shutdown"}

\* When the pipeline runs, and what start() and stop() do to it.
FrameRuns ==
    /\ stopping => main.call = "stop" /\ main.round = 3 /\ frame > 0
    /\ main.call = "none" => (frame > 0 <=> engineState = 4)
    /\ main.call = "start" => (frame > 0 <=> main.round > 1 \/ counter = 1)
    /\ main.call = "stop" =>
        /\ main.round < 3 => frame > 0
        /\ (main.round = 3 /\ counter = 1) \/ main.round = 4 => frame = 0
    /\ main.call \notin {"none", "start", "stop"} => frame = 0
    /\ \A t \in Live : /\ t.job = "halt" => frame > 0 /\ ~stopping
                       /\ t.job = "halting" => (frame > 0 <=> stopping)

LifeInv ==
    /\ TypeOK /\ Counted /\ OwnedBy /\ Visited /\ Backwards /\ Staged
    /\ ModulesAre /\ CallsFit /\ FrameRuns
------------------------------------------------------------------------------
\* What a sequence holds, and how many places of it are of an owner, after an element
\* has been appended and after its head is gone.
LEMMA AppendHolds ==
  ASSUME NEW S, NEW s \in Seq(S), NEW x \in S
  PROVE  /\ Append(s, x) \in Seq(S) /\ Len(Append(s, x)) = Len(s) + 1
         /\ ToSet(Append(s, x)) = ToSet(s) \cup {x}
<1>1. /\ Len(s) \in Nat /\ DOMAIN s = 1 .. Len(s)
      /\ Append(s, x) \in Seq(S) /\ Len(Append(s, x)) = Len(s) + 1
      /\ DOMAIN Append(s, x) = 1 .. Len(s) + 1
  OBVIOUS
<1>2. /\ \A i \in 1 .. Len(s) : Append(s, x)[i] = s[i]
      /\ Append(s, x)[Len(s) + 1] = x
  OBVIOUS
<1>3. ASSUME NEW y \in ToSet(Append(s, x)) PROVE y \in ToSet(s) \cup {x}
  <2>1. PICK i \in 1 .. Len(s) + 1 : y = Append(s, x)[i]
    BY <1>1 DEF ToSet
  <2>2. i \in 1 .. Len(s) \/ i = Len(s) + 1
    BY <1>1
  <2> QED
    BY <1>1, <1>2, <2>1, <2>2 DEF ToSet
<1>4. x \in ToSet(Append(s, x))
  <2>1. Len(s) + 1 \in DOMAIN Append(s, x)
    BY <1>1
  <2> QED
    BY <1>2, <2>1 DEF ToSet
<1>5. ASSUME NEW y \in ToSet(s) PROVE y \in ToSet(Append(s, x))
  <2>1. PICK i \in 1 .. Len(s) : y = s[i]
    BY <1>1 DEF ToSet
  <2>2. i \in DOMAIN Append(s, x) /\ y = Append(s, x)[i]
    BY <1>1, <1>2, <2>1
  <2> QED
    BY <2>2 DEF ToSet
<1> QED
  BY <1>1, <1>3, <1>4, <1>5

LEMMA TailHolds ==
  ASSUME NEW S, NEW s \in Seq(S), s # <<>>
  PROVE  /\ Tail(s) \in Seq(S) /\ Len(Tail(s)) = Len(s) - 1
         /\ Head(s) \in S
         /\ ToSet(s) = ToSet(Tail(s)) \cup {Head(s)}
<1>1. /\ Len(s) \in Nat /\ Len(s) >= 1 /\ DOMAIN s = 1 .. Len(s)
      /\ Tail(s) \in Seq(S) /\ Len(Tail(s)) = Len(s) - 1 /\ DOMAIN Tail(s) = 1 .. Len(s) - 1
      /\ Head(s) = s[1] /\ Head(s) \in S
  OBVIOUS
<1>2. \A i \in 1 .. Len(s) - 1 : Tail(s)[i] = s[i + 1]
  OBVIOUS
<1>3. ASSUME NEW x \in ToSet(Tail(s)) PROVE x \in ToSet(s)
  <2>1. PICK i \in 1 .. Len(s) - 1 : x = Tail(s)[i]
    BY <1>1 DEF ToSet
  <2>2. x = s[i + 1] /\ i + 1 \in 1 .. Len(s)
    BY <1>1, <1>2, <2>1
  <2> QED
    BY <1>1, <2>2 DEF ToSet
<1>4. ASSUME NEW x \in ToSet(s), x # Head(s) PROVE x \in ToSet(Tail(s))
  <2>1. PICK i \in 1 .. Len(s) : x = s[i]
    BY <1>1 DEF ToSet
  <2>2. i - 1 \in 1 .. Len(s) - 1 /\ (i - 1) + 1 = i
    BY <1>1, <1>4, <2>1
  <2>3. x = Tail(s)[i - 1]
    BY <1>2, <2>1, <2>2
  <2> QED
    BY <1>1, <2>2, <2>3 DEF ToSet
<1>5. Head(s) \in ToSet(s)
  BY <1>1 DEF ToSet
<1> QED
  BY <1>1, <1>3, <1>4, <1>5

LEMMA EmptyHolds == ToSet(<<>>) = {}
  BY DEF ToSet

LEMMA HoldsNothing ==
  ASSUME NEW S, NEW s \in Seq(S), ToSet(s) = {}
  PROVE  s = <<>>
<1> SUFFICES ASSUME s # <<>> PROVE FALSE
  OBVIOUS
<1>1. ToSet(s) = ToSet(Tail(s)) \cup {Head(s)}
  BY TailHolds
<1> QED
  BY <1>1

LEMMA PlacesFinite ==
  ASSUME NEW S, NEW s \in Seq(S), NEW o
  PROVE  IsFiniteSet(Places(s, o)) /\ CountIn(s, o) \in Nat
<1> DEFINE n == Len(s)
<1>1. PICK m \in Nat : m = n
  OBVIOUS
<1>2. IsFiniteSet(1 .. m)
  BY FS_Interval
<1>3. Places(s, o) \in SUBSET (1 .. m)
  BY <1>1 DEF Places
<1>4. IsFiniteSet(Places(s, o))
  BY <1>2, <1>3, FS_Subset
<1> QED
  BY <1>4, FS_CardinalityType DEF CountIn

\* The count is zero exactly when there is no place.
LEMMA CountNone ==
  ASSUME NEW S, NEW s \in Seq(S), NEW o
  PROVE  CountIn(s, o) = 0 <=> \A t \in ToSet(s) : t.of # o
<1>1. CountIn(s, o) = 0 <=> Places(s, o) = {}
  BY PlacesFinite, FS_EmptySet DEF CountIn
<1>2. DOMAIN s = 1 .. Len(s)
  OBVIOUS
<1> QED
  BY <1>1, <1>2 DEF Places, ToSet

LEMMA CountAppend ==
  ASSUME NEW S, NEW s \in Seq(S), NEW x \in S, NEW o
  PROVE  CountIn(Append(s, x), o) = CountIn(s, o) + (IF x.of = o THEN 1 ELSE 0)
<1> DEFINE n == Len(s) + 1
<1>1. /\ n \in Nat /\ Len(Append(s, x)) = n /\ 1 .. n = (1 .. Len(s)) \cup {n} /\ n \notin 1 .. Len(s)
      /\ \A i \in 1 .. Len(s) : Append(s, x)[i] = s[i]
      /\ Append(s, x)[n] = x
  OBVIOUS
<1>2. n \notin Places(s, o)
  BY <1>1 DEF Places
<1>3. IsFiniteSet(Places(s, o)) /\ CountIn(s, o) \in Nat
  BY PlacesFinite
<1> HIDE DEF n
<1>4. Places(Append(s, x), o) = IF x.of = o THEN Places(s, o) \cup {n} ELSE Places(s, o)
  BY <1>1 DEF Places
<1>5. Cardinality(Places(s, o) \cup {n}) = CountIn(s, o) + 1
  BY <1>2, <1>3, FS_AddElement DEF CountIn
<1>6. CASE x.of = o
  BY <1>4, <1>5, <1>6 DEF CountIn
<1>7. CASE x.of # o
  BY <1>3, <1>4, <1>7 DEF CountIn
<1> QED
  BY <1>6, <1>7

LEMMA CountTail ==
  ASSUME NEW S, NEW s \in Seq(S), s # <<>>, NEW o
  PROVE  CountIn(s, o) = CountIn(Tail(s), o) + (IF Head(s).of = o THEN 1 ELSE 0)
<1> DEFINE P == Places(s, o) \ {1}
           Q == Places(Tail(s), o)
           f == [i \in Q |-> i + 1]
<1>1. /\ Len(s) \in Nat /\ Len(s) >= 1 /\ Tail(s) \in Seq(S) /\ Len(Tail(s)) = Len(s) - 1
      /\ Head(s) = s[1] /\ 1 \in 1 .. Len(s)
      /\ \A i \in 1 .. Len(s) - 1 : Tail(s)[i] = s[i + 1]
  OBVIOUS
<1>2. /\ IsFiniteSet(Places(s, o)) /\ CountIn(s, o) \in Nat
      /\ IsFiniteSet(Q) /\ CountIn(Tail(s), o) \in Nat
  BY <1>1, PlacesFinite
<1>3. \A i \in Q : i \in 1 .. Len(s) - 1 /\ s[i + 1].of = o
  BY <1>1 DEF Places
<1>4. \A i \in Q : i + 1 \in P
  BY <1>1, <1>3 DEF Places
<1>5. ASSUME NEW j \in P PROVE \E i \in Q : f[i] = j
  <2>1. j \in 1 .. Len(s) /\ j # 1 /\ s[j].of = o
    BY DEF Places
  <2>2. j - 1 \in 1 .. Len(s) - 1 /\ (j - 1) + 1 = j
    BY <1>1, <2>1
  <2>3. j - 1 \in Q
    BY <1>1, <2>1, <2>2 DEF Places
  <2> QED
    BY <2>2, <2>3
<1>6. \A i, j \in Q : f[i] = f[j] => i = j
  BY <1>3
<1>7. f \in [Q -> P]
  BY <1>4
<1>8. ExistsBijection(Q, P)
  <2> HIDE DEF f, P, Q
  <2>1. f \in Bijection(Q, P)
    BY <1>5, <1>6, <1>7 DEF Bijection, Injection, Surjection, IsInjective
  <2> QED
    BY <2>1 DEF ExistsBijection
<1>9. Cardinality(P) = CountIn(Tail(s), o)
  BY <1>2, <1>8, FS_Bijection DEF CountIn
<1>10. 1 \in Places(s, o) <=> Head(s).of = o
  BY <1>1 DEF Places
<1>11. Cardinality(P) = IF 1 \in Places(s, o) THEN CountIn(s, o) - 1 ELSE CountIn(s, o)
  BY <1>2, FS_RemoveElement DEF CountIn
<1> HIDE DEF P
<1> QED
  BY <1>2, <1>9, <1>10, <1>11

\* A list from its end.
LEMMA ReverseHolds ==
  ASSUME NEW S, NEW s \in Seq(S)
  PROVE  /\ Reverse(s) \in Seq(S) /\ Len(Reverse(s)) = Len(s)
         /\ ToSet(Reverse(s)) = ToSet(s)
         /\ Reverse(s) = <<>> <=> s = <<>>
<1>1. Len(s) \in Nat /\ DOMAIN s = 1 .. Len(s) /\ \A i \in 1 .. Len(s) : s[i] \in S
  OBVIOUS
<1>2. \A i \in 1 .. Len(s) : Len(s) - i + 1 \in 1 .. Len(s)
  BY <1>1
<1>3. Reverse(s) \in [1 .. Len(s) -> S]
  BY <1>1, <1>2 DEF Reverse
<1>4. Reverse(s) \in Seq(S) /\ Len(Reverse(s)) = Len(s)
  BY <1>1, <1>3
<1>5. ToSet(Reverse(s)) \subseteq ToSet(s)
  BY <1>1, <1>2 DEF ToSet, Reverse
<1>6. ASSUME NEW x \in ToSet(s) PROVE x \in ToSet(Reverse(s))
  <2>1. PICK i \in 1 .. Len(s) : x = s[i]
    BY <1>1 DEF ToSet
  <2>2. /\ Len(s) - i + 1 \in 1 .. Len(s) /\ Len(s) - (Len(s) - i + 1) + 1 = i
    BY <1>1
  <2>3. Reverse(s)[Len(s) - i + 1] = x
    BY <2>1, <2>2 DEF Reverse
  <2> QED
    BY <1>3, <2>2, <2>3 DEF ToSet
<1>7. (s = <<>> <=> Len(s) = 0) /\ (Reverse(s) = <<>> <=> Len(Reverse(s)) = 0)
  BY <1>4, EmptySeq
<1>8. ToSet(Reverse(s)) = ToSet(s)
  BY <1>5, <1>6
<1> QED
  BY <1>4, <1>7, <1>8

LEMMA ReverseTail ==
  ASSUME NEW S, NEW s \in Seq(S), s # <<>>
  PROVE  /\ Front(s) \in Seq(S) /\ Len(Front(s)) = Len(s) - 1
         /\ ToSet(s) = ToSet(Front(s)) \cup {Head(Reverse(s))}
         /\ Tail(Reverse(s)) = Reverse(Front(s))
<1> DEFINE n == Len(s)
<1>1. /\ n \in Nat /\ n >= 1 /\ DOMAIN s = 1 .. n
      /\ Front(s) \in Seq(S) /\ Len(Front(s)) = n - 1 /\ DOMAIN Front(s) = 1 .. n - 1
      /\ \A i \in 1 .. n - 1 : Front(s)[i] = s[i]
  <2>1. n \in Nat /\ n >= 1 /\ DOMAIN s = 1 .. n /\ \A i \in 1 .. n : s[i] \in S
    OBVIOUS
  <2>2. /\ n - 1 \in Int /\ 1 \in Int /\ n - 1 - 1 + 1 = n - 1
        /\ \A i \in 1 .. n - 1 : s[i] \in S /\ 1 + i - 1 = i
    BY <2>1
  <2> HIDE DEF n
  <2>3. PICK k \in Int : k = n - 1
    BY <2>2
  <2>4. /\ SubSeq(s, 1, k) \in Seq(S)
        /\ Len(SubSeq(s, 1, k)) = IF 1 <= k THEN k - 1 + 1 ELSE 0
        /\ \A i \in 1 .. k - 1 + 1 : SubSeq(s, 1, k)[i] = s[1 + i - 1]
    BY <2>2, <2>3, SubSeqProperties
  <2>5. /\ Front(s) \in Seq(S) /\ Len(Front(s)) = n - 1
        /\ \A i \in 1 .. n - 1 : Front(s)[i] = s[i]
    BY <2>1, <2>2, <2>3, <2>4 DEF Front, n
  <2>6. DOMAIN Front(s) = 1 .. n - 1
    BY <2>5
  <2> QED
    BY <2>1, <2>5, <2>6
<1>2. /\ Reverse(s) \in Seq(S) /\ Len(Reverse(s)) = n /\ Reverse(s) # <<>>
      /\ \A i \in 1 .. n : Reverse(s)[i] = s[n - i + 1]
  BY ReverseHolds DEF Reverse
<1>3. Head(Reverse(s)) = s[n]
  BY <1>1, <1>2
<1>4. /\ Tail(Reverse(s)) \in Seq(S) /\ Len(Tail(Reverse(s))) = n - 1
      /\ \A i \in 1 .. n - 1 : Tail(Reverse(s))[i] = Reverse(s)[i + 1]
  BY <1>2, HeadTailProperties
<1>5. Reverse(Front(s)) \in Seq(S) /\ Len(Reverse(Front(s))) = n - 1
  BY <1>1, ReverseHolds
<1>6. \A i \in 1 .. n - 1 : Reverse(Front(s))[i] = Front(s)[n - 1 - i + 1]
  BY <1>1 DEF Reverse
<1>7. \A i \in 1 .. n - 1 :
        /\ n - 1 - i + 1 \in 1 .. n - 1 /\ i + 1 \in 1 .. n
        /\ n - 1 - i + 1 = n - (i + 1) + 1
  BY <1>1
<1>8. \A i \in 1 .. n - 1 : Tail(Reverse(s))[i] = Reverse(Front(s))[i]
  BY <1>1, <1>2, <1>4, <1>6, <1>7
<1>9. Tail(Reverse(s)) = Reverse(Front(s))
  BY <1>1, <1>4, <1>5, <1>8, SeqEqual
<1>10. ToSet(s) = ToSet(Front(s)) \cup {s[n]}
  <2>1. 1 .. n = (1 .. n - 1) \cup {n}
    BY <1>1
  <2> QED
    BY <1>1, <2>1 DEF ToSet
<1> QED
  BY <1>1, <1>3, <1>9, <1>10
------------------------------------------------------------------------------
\* The lists of modules.
LEMMA ModuleLists ==
  ASSUME TypeOK
  PROVE  /\ CoreModules \in Seq(Module) /\ subModules \in Seq(SubModule) /\ subModules \in Seq(Module)
         /\ Reverse(subModules) \in Seq(Module) /\ ToSet(Reverse(subModules)) = ToSet(subModules)
         /\ ToSet(subModules) \subseteq SubModule
<1>1. PICK k \in 0 .. Len(SubModules) : subModules = SubSeq(SubModules, 1, k)
  BY DEF TypeOK
<1>2. \A i \in 1 .. k : SubModules[i] \in SubModule
  BY ConstantsAssumption
<1>3. subModules \in Seq(SubModule)
  BY <1>1, <1>2, SubSeqProperties
<1>4. CoreModules \in Seq(Module) /\ subModules \in Seq(Module)
  BY <1>3, ConstantsAssumption DEF Module
<1>5. ToSet(subModules) \subseteq SubModule
  BY <1>3 DEF ToSet
<1> QED
  BY <1>3, <1>4, <1>5, ReverseHolds

\* What a round of one task, and what a round of a task for each module is made of.
TasksFor(tasks, call, job, modules) ==
    /\ tasks \in Seq(Task)
    /\ \A t \in ToSet(tasks) : t.of = call /\ t.job = job /\ ToSet(t.todo) \subseteq modules
    /\ \A m \in modules : \E t \in ToSet(tasks) : m \in ToSet(t.todo)

LEMMA OneRound ==
  ASSUME NEW call \in Call, NEW job \in Job, NEW modules \in Seq(Module)
  PROVE  LET R == One(call, job, modules) IN
         /\ TasksFor(R.tasks, call, job, ToSet(modules)) /\ Len(R.tasks) = 1 /\ R.expect = 1
<1> DEFINE t == [job |-> job, of |-> call, todo |-> modules]
           tasks == One(call, job, modules).tasks
<1>1. tasks = <<t>> /\ One(call, job, modules).expect = 1
  BY DEF One
<1>2. t \in Task /\ t.of = call /\ t.job = job /\ t.todo = modules
  BY DEF Task
<1> HIDE DEF t, tasks
<1>3. tasks \in Seq(Task) /\ Len(tasks) = 1
  BY <1>1, <1>2
<1>4. ToSet(tasks) = {t}
  BY <1>1 DEF ToSet
<1>5. TasksFor(tasks, call, job, ToSet(modules))
  BY <1>2, <1>3, <1>4 DEF TasksFor
<1> QED
  BY <1>1, <1>3, <1>5 DEF tasks

LEMMA EachRound ==
  ASSUME NEW call \in Call, NEW job \in Job, NEW modules \in Seq(Module)
  PROVE  LET R == Each(call, job, modules) IN
         /\ TasksFor(R.tasks, call, job, ToSet(modules))
         /\ Len(R.tasks) = Len(modules) /\ R.expect = Len(modules)
<1> DEFINE n == Len(modules)
           T(i) == [job |-> job, of |-> call, todo |-> <<modules[i]>>]
           tasks == Each(call, job, modules).tasks
<1>1. n \in Nat /\ DOMAIN modules = 1 .. n /\ \A i \in 1 .. n : modules[i] \in Module
  OBVIOUS
<1>2. tasks = [i \in 1 .. n |-> T(i)] /\ Each(call, job, modules).expect = n
  BY <1>1 DEF Each
<1>3. \A i \in 1 .. n : T(i) \in Task /\ T(i).of = call /\ T(i).job = job
  BY <1>1 DEF Task
<1>4. \A i \in 1 .. n : ToSet(T(i).todo) = {modules[i]}
  BY DEF ToSet
<1> HIDE DEF T
<1>5. tasks \in [1 .. n -> Task] /\ \A i \in 1 .. n : tasks[i] = T(i)
  BY <1>2, <1>3
<1>6. tasks \in Seq(Task) /\ Len(tasks) = n /\ DOMAIN tasks = 1 .. n
  BY <1>1, <1>5
<1>7. ToSet(tasks) = {T(i) : i \in 1 .. n}
  BY <1>5, <1>6 DEF ToSet
<1>8. ToSet(modules) = {modules[i] : i \in 1 .. n}
  BY <1>1 DEF ToSet
<1> HIDE DEF tasks, n
<1>9. \A t \in ToSet(tasks) : t.of = call /\ t.job = job /\ ToSet(t.todo) \subseteq ToSet(modules)
  BY <1>3, <1>4, <1>7, <1>8
<1>10. \A m \in ToSet(modules) : \E t \in ToSet(tasks) : m \in ToSet(t.todo)
  BY <1>4, <1>7, <1>8
<1> QED
  BY <1>2, <1>6, <1>9, <1>10 DEF TasksFor, tasks, n

LEMMA RoundsLength ==
  ASSUME NEW call \in Call \cup {"none"}
  PROVE  /\ LastRound(call) \in 0 .. 3
         /\ Len(Rounds(call)) = LastRound(call) /\ DOMAIN Rounds(call) = 1 .. LastRound(call)
<1>1. CASE call = "init"
  BY <1>1 DEF Rounds, LastRound
<1>2. CASE call = "start"
  BY <1>2 DEF Rounds, LastRound
<1>3. CASE call = "stop"
  BY <1>3 DEF Rounds, LastRound
<1>4. CASE call = "shutdown"
  BY <1>4 DEF Rounds, LastRound
<1>5. CASE call \notin {"init", "start", "stop", "shutdown"}
  BY <1>5 DEF Rounds, LastRound
<1> QED
  BY <1>1, <1>2, <1>3, <1>4, <1>5

\* The tasks of a round: as many as its size, for the modules it is for.
LEMMA RoundTasks ==
  ASSUME TypeOK, NEW call \in Call, NEW r \in 1 .. LastRound(call)
  PROVE  LET R == Rounds(call)[r] IN
         /\ TasksFor(R.tasks, call, JobIn(call, r), Target(subModules, call, r)) /\ Len(R.tasks) = Size(call, r)
         /\ R.expect = IF call = "init" /\ r = 2 THEN SubModulesExpected ELSE Size(call, r)
<1>1. CoreModules \in Seq(Module) /\ subModules \in Seq(Module) 
      /\ Reverse(subModules) \in Seq(Module) /\ ToSet(Reverse(subModules)) = ToSet(subModules)
      /\ ToSet(CoreModules) = CoreModule
  BY ModuleLists DEF CoreModule
<1>0. PICK none \in Seq(Module) : none = <<>> /\ ToSet(none) = {}
  BY EmptyHolds, EmptySeq
<1>2. \/ call \in {"init", "shutdown"} /\ r \in {1, 2}
      \/ call \in {"start", "stop"} /\ r \in {1, 2, 3}
  BY DEF LastRound, Call
<1>3. {"setup", "start", "stop", "destroy", "run", "halt"} \subseteq Job
  BY DEF Job, ModuleJob
<1>4. CASE call = "init" /\ r = 1
  <2>1. Rounds(call)[r] = Each(call, "setup", CoreModules)
    BY <1>4 DEF Rounds
  <2>2. /\ Size(call, r) = Len(CoreModules) /\ JobIn(call, r) = "setup"
        /\ Target(subModules, call, r) = ToSet(CoreModules)
    BY <1>1, <1>4 DEF Size, JobIn, Target, VisitsCore
  <2> QED
    BY <1>1, <1>3, <1>4, <2>1, <2>2, EachRound
<1>5. CASE call = "init" /\ r = 2
  <2>1. Rounds(call)[r] = [One(call, "setup", subModules) EXCEPT !.expect = SubModulesExpected]
    BY <1>5 DEF Rounds
  <2>2. /\ Rounds(call)[r].tasks = One(call, "setup", subModules).tasks
        /\ Rounds(call)[r].expect = SubModulesExpected
    BY <2>1 DEF One
  <2>3. /\ Size(call, r) = 1 /\ JobIn(call, r) = "setup"
        /\ Target(subModules, call, r) = ToSet(subModules)
    BY <1>5 DEF Size, JobIn, Target, VisitsCore, VisitsSub, LastRound
  <2>4. /\ TasksFor(Rounds(call)[r].tasks, call, "setup", ToSet(subModules))
        /\ Len(Rounds(call)[r].tasks) = 1
    BY <1>1, <1>3, <2>2, OneRound
  <2> QED
    BY <1>5, <2>2, <2>3, <2>4
<1>6. CASE call = "start"
  <2>1. /\ r = 1 => Rounds(call)[r] = One(call, "run", none)
        /\ r = 2 => Rounds(call)[r] = One(call, "start", CoreModules)
        /\ r = 3 => Rounds(call)[r] = One(call, "start", subModules)
    BY <1>0, <1>6 DEF Rounds
  <2>2. /\ Size(call, r) = 1
        /\ r = 1 => JobIn(call, r) = "run" /\ Target(subModules, call, r) = {}
        /\ r = 2 => JobIn(call, r) = "start" /\ Target(subModules, call, r) = ToSet(CoreModules)
        /\ r = 3 => JobIn(call, r) = "start" /\ Target(subModules, call, r) = ToSet(subModules)
    BY <1>1, <1>6 DEF Size, JobIn, Target, VisitsCore, VisitsSub, LastRound
  <2>3. CASE r = 1
    <3>1. /\ TasksFor(Rounds(call)[r].tasks, call, "run", ToSet(none))
          /\ Len(Rounds(call)[r].tasks) = 1 /\ Rounds(call)[r].expect = 1
      BY <1>3, <2>1, <2>3, OneRound
    <3> QED
      BY <1>0, <1>6, <2>2, <2>3, <3>1
  <2>4. CASE r = 2
    <3>1. /\ TasksFor(Rounds(call)[r].tasks, call, "start", ToSet(CoreModules))
          /\ Len(Rounds(call)[r].tasks) = 1 /\ Rounds(call)[r].expect = 1
      BY <1>1, <1>3, <2>1, <2>4, OneRound
    <3> QED
      BY <1>6, <2>2, <2>4, <3>1
  <2>5. CASE r = 3
    <3>1. /\ TasksFor(Rounds(call)[r].tasks, call, "start", ToSet(subModules))
          /\ Len(Rounds(call)[r].tasks) = 1 /\ Rounds(call)[r].expect = 1
      BY <1>1, <1>3, <2>1, <2>5, OneRound
    <3> QED
      BY <1>6, <2>2, <2>5, <3>1
  <2> QED
    BY <1>2, <1>6, <2>3, <2>4, <2>5
<1>7. CASE call = "stop"
  <2> DEFINE list == IF Editor THEN Reverse(subModules) ELSE subModules
  <2>1. /\ r = 1 => Rounds(call)[r] = One(call, "stop", list)
        /\ r = 2 => Rounds(call)[r] = One(call, "stop", CoreModules)
        /\ r = 3 => Rounds(call)[r] = One(call, "halt", none)
    BY <1>0, <1>7 DEF Rounds
  <2>2. list \in Seq(Module) /\ ToSet(list) = ToSet(subModules)
    BY <1>1
  <2> HIDE DEF list
  <2>3. /\ Size(call, r) = 1
        /\ r = 1 => JobIn(call, r) = "stop" /\ Target(subModules, call, r) = ToSet(subModules)
        /\ r = 2 => JobIn(call, r) = "stop" /\ Target(subModules, call, r) = ToSet(CoreModules)
        /\ r = 3 => JobIn(call, r) = "halt" /\ Target(subModules, call, r) = {}
    BY <1>1, <1>7 DEF Size, JobIn, Target, VisitsCore, VisitsSub, LastRound
  <2>4. CASE r = 1
    <3>1. /\ TasksFor(Rounds(call)[r].tasks, call, "stop", ToSet(list))
          /\ Len(Rounds(call)[r].tasks) = 1 /\ Rounds(call)[r].expect = 1
      BY <1>3, <2>1, <2>2, <2>4, OneRound
    <3> QED
      BY <1>7, <2>2, <2>3, <2>4, <3>1
  <2>5. CASE r = 2
    <3>1. /\ TasksFor(Rounds(call)[r].tasks, call, "stop", ToSet(CoreModules))
          /\ Len(Rounds(call)[r].tasks) = 1 /\ Rounds(call)[r].expect = 1
      BY <1>1, <1>3, <2>1, <2>5, OneRound
    <3> QED
      BY <1>7, <2>3, <2>5, <3>1
  <2>6. CASE r = 3
    <3>1. /\ TasksFor(Rounds(call)[r].tasks, call, "halt", ToSet(none))
          /\ Len(Rounds(call)[r].tasks) = 1 /\ Rounds(call)[r].expect = 1
      BY <1>3, <2>1, <2>6, OneRound
    <3> QED
      BY <1>0, <1>7, <2>3, <2>6, <3>1
  <2> QED
    BY <1>2, <1>7, <2>4, <2>5, <2>6
<1>8. CASE call = "shutdown" /\ r = 1
  <2>1. Rounds(call)[r] = One(call, "destroy", Reverse(subModules))
    BY <1>8 DEF Rounds
  <2>2. /\ Size(call, r) = 1 /\ JobIn(call, r) = "destroy"
        /\ Target(subModules, call, r) = ToSet(subModules)
    BY <1>8 DEF Size, JobIn, Target, VisitsCore, VisitsSub, LastRound
  <2>3. /\ TasksFor(Rounds(call)[r].tasks, call, "destroy", ToSet(Reverse(subModules)))
        /\ Len(Rounds(call)[r].tasks) = 1 /\ Rounds(call)[r].expect = 1
    BY <1>1, <1>3, <2>1, OneRound
  <2> QED
    BY <1>1, <1>8, <2>2, <2>3
<1>9. CASE call = "shutdown" /\ r = 2
  <2>1. Rounds(call)[r] = Each(call, "destroy", CoreModules)
    BY <1>9 DEF Rounds
  <2>2. /\ Size(call, r) = Len(CoreModules) /\ JobIn(call, r) = "destroy"
        /\ Target(subModules, call, r) = ToSet(CoreModules)
    BY <1>1, <1>9 DEF Size, JobIn, Target, VisitsCore
  <2> QED
    BY <1>1, <1>3, <1>9, <2>1, <2>2, EachRound
<1> QED
  BY <1>2, <1>4, <1>5, <1>6, <1>7, <1>8, <1>9

LEMMA FirstOfShutdown ==
  \A t \in ToSet(Rounds("shutdown")[1].tasks) : t.todo = Reverse(subModules)
<1>1. Rounds("shutdown")[1].tasks =
        <<[job |-> "destroy", of |-> "shutdown", todo |-> Reverse(subModules)]>>
  BY DEF Rounds, One
<1> QED
  BY <1>1 DEF ToSet
------------------------------------------------------------------------------
\* What moves a task on, or takes it away.
LEMMA IdleIsNone == Idle \notin Task /\ Idle.of = "none" /\ StageTask \in Task /\ StageTask # Idle
                    /\ StageTask.of = "pipeline" /\ StageTask.job = "stage" /\ StageTask.todo = <<>>
  BY DEF Idle, Task, Call, StageTask, Job

LEMMA PutBack ==
  ASSUME TypeOK, worker # Idle, NEW t \in Task,
         queue' = Append(queue, t), worker' = Idle, main' = main
  PROVE  /\ queue' \in Seq(Task)
         /\ Live' = ToSet(main.pending) \cup ToSet(queue) \cup {t}
         /\ \A o : InHand(queue', worker', o) = CountIn(queue, o) + (IF t.of = o THEN 1 ELSE 0)
<1>1. PICK q \in Seq(Task) : q = queue
  BY DEF TypeOK
<1>2. Append(q, t) \in Seq(Task) /\ ToSet(Append(q, t)) = ToSet(q) \cup {t}
  BY AppendHolds
<1>3. \A o : CountIn(Append(q, t), o) = CountIn(q, o) + (IF t.of = o THEN 1 ELSE 0)
  BY CountAppend
<1>4. \A o : CountIn(q, o) \in Nat
  BY PlacesFinite
<1>5. \A o : InHand(queue', worker', o) = CountIn(queue, o) + (IF t.of = o THEN 1 ELSE 0)
  BY <1>1, <1>3, <1>4 DEF InHand, Holds
<1> QED
  BY <1>1, <1>2, <1>5 DEF Live

LEMMA PutDown ==
  ASSUME TypeOK, worker # Idle, queue' = queue, worker' = Idle, main' = main
  PROVE  /\ Live' = ToSet(main.pending) \cup ToSet(queue)
         /\ \A o : InHand(queue', worker', o) = CountIn(queue, o)
<1>1. PICK q \in Seq(Task) : q = queue
  BY DEF TypeOK
<1>2. \A o : CountIn(q, o) \in Nat
  BY PlacesFinite
<1> QED
  BY <1>1, <1>2 DEF Live, InHand, Holds

\* The worker has a task of the round, or a stage; while it has one:
LEMMA InWorker ==
  ASSUME LifeInv, worker # Idle
  PROVE  /\ worker \in Task /\ worker \in Live
         /\ Live = ToSet(main.pending) \cup ToSet(queue) \cup {worker}
         /\ \A o : /\ CountIn(queue, o) \in Nat
                   /\ InHand(queue, worker, o) = CountIn(queue, o) + (IF worker.of = o THEN 1 ELSE 0)
         /\ \/ worker = StageTask /\ worker.of # main.call
            \/ OfRound(worker) /\ worker.of \in Call /\ worker.of # "pipeline"
<1>1. worker \in Task /\ main.call \in Call \cup {"none"} /\ Len(main.pending) \in Nat
  BY DEF LifeInv, TypeOK
<1>2. PICK q \in Seq(Task) : q = queue
  BY DEF LifeInv, TypeOK
<1>3. worker \in Live /\ Live = ToSet(main.pending) \cup ToSet(queue) \cup {worker}
  BY DEF Live
<1>4. \A o : CountIn(q, o) \in Nat
  BY PlacesFinite
<1>5. worker = StageTask \/ OfRound(worker)
  BY <1>3 DEF LifeInv, OwnedBy
<1>6. StageTask.of = "pipeline" /\ "pipeline" \notin Call \cup {"none"}
  BY IdleIsNone DEF Call
<1>7. worker.of \in Call \cup {"pipeline"}
  BY <1>1 DEF Task
<1>8. OfRound(worker) => worker.of = main.call
  BY DEF OfRound
<1>9. OfRound(worker) => worker.of \in Call /\ worker.of # "pipeline"
  BY <1>1, <1>6, <1>7, <1>8
<1>10. \A o : InHand(queue, worker, o) = CountIn(queue, o) + (IF worker.of = o THEN 1 ELSE 0)
  BY DEF InHand, Holds
<1> QED
  BY <1>1, <1>2, <1>3, <1>4, <1>5, <1>6, <1>9, <1>10

\* In a round of one task the worker has that task, or it is nowhere else.
LEMMA Alone ==
  ASSUME LifeInv, worker # Idle, OfRound(worker), Size(main.call, main.round) = 1
  PROVE  /\ counter = 0 /\ main.pending = <<>>
         /\ \A t \in ToSet(main.pending) \cup ToSet(queue) : t = StageTask
<1>1. PICK c : c = main.call /\ worker.of = c
  BY DEF OfRound
<1>2. CountIn(queue, c) \in Nat /\ InHand(queue, worker, c) = CountIn(queue, c) + 1
  BY <1>1, InWorker
<1>3. /\ counter \in Nat /\ main.pending \in Seq(Task) /\ queue \in Seq(Task)
      /\ counter + Len(main.pending) + InHand(queue, worker, c) = 1
  BY <1>1 DEF LifeInv, Counted, TypeOK
<1>4. Len(main.pending) \in Nat /\ (Len(main.pending) = 0 => main.pending = <<>>)
  BY <1>3, EmptySeq
<1>5. counter = 0 /\ Len(main.pending) = 0 /\ CountIn(queue, c) = 0
  BY <1>2, <1>3, <1>4
<1>6. PICK q \in Seq(Task) : q = queue
  BY <1>3
<1>7. \A t \in ToSet(queue) : t.of # c
  BY <1>5, <1>6, CountNone
<1>8. \A t \in ToSet(queue) : t \in Live
  BY DEF Live
<1>9. \A t \in ToSet(queue) : t = StageTask
  BY <1>1, <1>7, <1>8 DEF LifeInv, OwnedBy, OfRound
<1>10. ToSet(main.pending) = {}
  BY <1>4, <1>5, EmptyHolds
<1> QED
  BY <1>4, <1>5, <1>9, <1>10

\* When all tasks of a round have been counted only stages are under way.
LEMMA NoneLeft ==
  ASSUME LifeInv, main.pending = <<>>, counter = Size(main.call, main.round)
  PROVE  \A t \in Live : t = StageTask
<1>1. PICK c : c = main.call
  OBVIOUS
<1>2. PICK q \in Seq(Task) : q = queue
  BY DEF LifeInv, TypeOK
<1>3. CountIn(queue, c) \in Nat /\ Holds(worker, c) \in {0, 1}
  BY <1>2, PlacesFinite DEF Holds
<1>4. counter \in Nat /\ counter + 0 + InHand(queue, worker, c) = counter
  BY <1>1 DEF LifeInv, Counted
<1>5. CountIn(queue, c) = 0 /\ Holds(worker, c) = 0
  BY <1>3, <1>4 DEF InHand
<1>6. \A t \in ToSet(queue) : t.of # c
  BY <1>2, <1>5, CountNone
<1>7. worker # Idle => worker.of # c
  BY <1>5 DEF Holds
<1>8. \A t \in Live : t.of # c
  BY <1>6, <1>7, EmptyHolds DEF Live
<1> QED
  BY <1>1, <1>8 DEF LifeInv, OwnedBy, OfRound

\* Between two calls only stages are under way.
LEMMA NoneWhenQuiet ==
  ASSUME LifeInv, main.call \notin Call
  PROVE  main = Quiet /\ counter = 0 /\ \A t \in Live : t = StageTask
<1>1. main = Quiet
  BY DEF LifeInv, CallsFit, TypeOK
<1>2. \A t \in Live : t = StageTask
  <2> SUFFICES ASSUME NEW t \in Live, t # StageTask PROVE FALSE
    OBVIOUS
  <2>1. t \in Task /\ t.of = main.call
    BY DEF LifeInv, OwnedBy, OfRound
  <2>2. t.of = "none"
    BY <1>1, <2>1 DEF Quiet
  <2> QED
    BY <2>1, <2>2 DEF Task, Call
<1>3. PICK q \in Seq(Task) : q = queue
  BY DEF LifeInv, TypeOK
<1>4. \A o : CountIn(queue, o) \in Nat /\ Holds(worker, o) \in {0, 1}
  BY <1>3, PlacesFinite DEF Holds
<1>5. Size("none", 0) = 0
  BY DEF Size, LastRound
<1>6. counter \in Nat /\ counter + 0 + InHand(queue, worker, "none") = 0
  BY <1>1, <1>5 DEF LifeInv, Counted, Quiet
<1>7. counter = 0
  BY <1>4, <1>6 DEF InHand
<1> QED
  BY <1>1, <1>2, <1>7
------------------------------------------------------------------------------
\* A step that only moves a task on: from the main thread to the queue, from there
\* to the worker, or back.
LEMMA Unvisited ==
  ASSUME LifeInv, UNCHANGED <<engineState, main, subModules, status, scheduler>>
  PROVE  ModulesAre' /\ CallsFit'
  BY DEF LifeInv, ModulesAre, CallsFit, All, Present

LEMMA Moved ==
  ASSUME LifeInv, TypeOK', Live' = Live, Counted', Staged',
         main'.call = main.call, main'.round = main.round,
         ToSet(main'.pending) \subseteq ToSet(main.pending),
         main.call = "none" => main' = main,
         UNCHANGED <<engineState, counter, subModules, status, scheduler, pipeline>>
  PROVE  LifeInv'
<1>1. \A t : OfRound(t)' <=> OfRound(t)
  BY DEF OfRound
<1>2. OwnedBy'
  BY <1>1 DEF LifeInv, OwnedBy
<1>3. Visited'
  BY DEF LifeInv, Visited
<1>4. Backwards'
  BY DEF LifeInv, Backwards
<1>5. ModulesAre'
  BY DEF LifeInv, ModulesAre, All, Present
<1>6. CallsFit'
  BY DEF LifeInv, CallsFit
<1>7. FrameRuns'
  BY DEF LifeInv, FrameRuns, pipeline
<1> QED
  BY <1>2, <1>3, <1>4, <1>5, <1>6, <1>7 DEF LifeInv

LEMMA ExecInv ==
  ASSUME LifeInv, Exec
  PROVE  LifeInv'
<1>1. PICK p \in Seq(Task) : p = main.pending
  BY DEF LifeInv, TypeOK
<1>2. PICK q \in Seq(Task) : q = queue
  BY DEF LifeInv, TypeOK
<1>3. /\ p # <<>> /\ queue' = Append(q, Head(p)) /\ main' = [main EXCEPT !.pending = Tail(p)]
      /\ UNCHANGED <<engineState, counter, subModules, status, scheduler, worker, pipeline, aborted>>
  BY <1>1, <1>2 DEF Exec
<1>4. /\ Tail(p) \in Seq(Task) /\ Len(Tail(p)) = Len(p) - 1 /\ Head(p) \in Task
      /\ ToSet(p) = ToSet(Tail(p)) \cup {Head(p)}
  BY <1>3, TailHolds
<1>5. PICK h \in Task : h = Head(p)
  BY <1>4
<1>6. Append(q, h) \in Seq(Task) /\ ToSet(Append(q, h)) = ToSet(q) \cup {h}
  BY AppendHolds
<1>7. \A o : CountIn(Append(q, h), o) = CountIn(q, o) + (IF h.of = o THEN 1 ELSE 0)
  BY CountAppend
<1>8. main'.call = main.call /\ main'.round = main.round /\ main'.pending = Tail(p)
  BY <1>3 DEF LifeInv, TypeOK
<1>9. h.of = main.call
  BY <1>1, <1>4, <1>5 DEF LifeInv, OwnedBy
<1>10. TypeOK'
  <2>1. main' \in [call : Call \cup {"none"}, round : 0 .. 4, pending : Seq(Task)]
    BY <1>3, <1>4 DEF LifeInv, TypeOK
  <2>2. queue' \in Seq(Task)
    BY <1>3, <1>5, <1>6
  <2> QED
    BY <1>3, <2>1, <2>2 DEF LifeInv, TypeOK, pipeline
<1>11. Live' = Live
  BY <1>1, <1>2, <1>3, <1>4, <1>5, <1>6, <1>8 DEF Live
<1>12. \A o : CountIn(q, o) \in Nat /\ Holds(worker, o) \in {0, 1}
  BY PlacesFinite DEF Holds
<1>13. Counted'
  <2>1. PICK c : c = main.call
    OBVIOUS
  <2>2. InHand(queue', worker', c) = InHand(queue, worker, c) + 1
    <3>1. queue' = Append(q, h) /\ worker' = worker /\ h.of = c
      BY <1>3, <1>5, <1>9, <2>1
    <3>2. CountIn(Append(q, h), c) = CountIn(q, c) + 1
      BY <1>7, <3>1
    <3>3. InHand(queue', worker', c) = CountIn(Append(q, h), c) + Holds(worker, c)
      BY <3>1 DEF InHand
    <3>4. InHand(queue, worker, c) = CountIn(q, c) + Holds(worker, c)
      BY <1>2 DEF InHand
    <3>5. CountIn(q, c) \in Nat /\ Holds(worker, c) \in Nat
      BY <1>12
    <3> QED
      BY ONLY <3>2, <3>3, <3>4, <3>5
  <2>3. InHand(queue, worker, c) \in Nat
    BY <1>2, <1>12 DEF InHand
  <2>4. counter' \in Nat /\ counter + Len(p) + InHand(queue, worker, c) = Size(c, main.round)
    BY <1>1, <1>3, <2>1 DEF LifeInv, Counted
  <2>5. Len(p) \in Nat
    OBVIOUS
  <2>6. counter' + Len(Tail(p)) + InHand(queue', worker', c) = Size(c, main.round)
    BY <1>3, <1>4, <2>2, <2>3, <2>4, <2>5
  <2> QED
    BY <1>8, <2>1, <2>4, <2>6 DEF Counted
<1>14. h.of # "pipeline"
  BY <1>9 DEF LifeInv, TypeOK, Call
<1>15. Staged'
  <2>1. InHand(queue', worker', "pipeline") = InHand(queue, worker, "pipeline")
    BY <1>2, <1>3, <1>5, <1>7, <1>12, <1>14 DEF InHand
  <2> QED
    BY <1>3, <2>1 DEF LifeInv, Staged, pipeline
<1>16. main.call # "none"
  <2>1. h \in Task /\ "none" \notin Call \cup {"pipeline"}
    BY DEF Call
  <2> QED
    BY <1>9, <2>1 DEF Task
<1> QED
  BY <1>1, <1>3, <1>4, <1>8, <1>10, <1>11, <1>13, <1>15, <1>16, Moved

LEMMA PopInv ==
  ASSUME LifeInv, Pop
  PROVE  LifeInv'
<1>1. PICK q \in Seq(Task) : q = queue
  BY DEF LifeInv, TypeOK
<1>2. /\ q # <<>> /\ worker = Idle /\ worker' = Head(q) /\ queue' = Tail(q)
      /\ UNCHANGED <<engineState, main, counter, subModules, status, scheduler, pipeline, aborted>>
  BY <1>1 DEF Pop
<1>3. /\ Tail(q) \in Seq(Task) /\ Head(q) \in Task /\ ToSet(q) = ToSet(Tail(q)) \cup {Head(q)}
  BY <1>2, TailHolds
<1>4. \A o : CountIn(q, o) = CountIn(Tail(q), o) + (IF Head(q).of = o THEN 1 ELSE 0)
  BY <1>2, CountTail
<1>5. PICK h \in Task : h = Head(q)
  BY <1>3
<1>6. h # Idle
  BY IdleIsNone
<1>7. \A o : InHand(queue', worker', o) = InHand(queue, worker, o)
  <2> SUFFICES ASSUME NEW o PROVE InHand(queue', worker', o) = InHand(queue, worker, o)
    OBVIOUS
  <2>1. CountIn(Tail(q), o) \in Nat
    BY <1>3, PlacesFinite
  <2>2. InHand(queue, worker, o) = CountIn(q, o)
    BY <1>1, <1>2, <1>4, <2>1 DEF InHand, Holds
  <2>3. InHand(queue', worker', o) = CountIn(Tail(q), o) + (IF h.of = o THEN 1 ELSE 0)
    BY <1>2, <1>5, <1>6 DEF InHand, Holds
  <2> QED
    BY <1>4, <1>5, <2>2, <2>3
<1>8. TypeOK'
  BY <1>2, <1>3 DEF LifeInv, TypeOK, pipeline
<1>9. Live' = Live
  BY <1>1, <1>2, <1>3, <1>5, <1>6 DEF Live
<1>10. Counted' /\ Staged'
  BY <1>2, <1>7 DEF LifeInv, Counted, Staged, pipeline
<1> QED
  BY <1>2, <1>8, <1>9, <1>10, Moved

\* The worker puts its task back into the queue.
LEMMA BackInv ==
  ASSUME LifeInv, worker # Idle, queue' = Append(queue, worker), worker' = Idle,
         UNCHANGED <<engineState, main, counter, subModules, status, scheduler, pipeline, aborted>>
  PROVE  LifeInv'
<1>1. PICK w \in Task : w = worker
  BY InWorker
<1>2. /\ queue' \in Seq(Task) /\ Live' = ToSet(main.pending) \cup ToSet(queue) \cup {w}
      /\ \A o : InHand(queue', worker', o) = CountIn(queue, o) + (IF w.of = o THEN 1 ELSE 0)
  BY <1>1, PutBack DEF LifeInv
<1>3. Live' = Live
  BY <1>1, <1>2, InWorker
<1>4. \A o : InHand(queue', worker', o) = InHand(queue, worker, o)
  BY <1>1, <1>2, InWorker
<1>5. TypeOK'
  BY <1>2 DEF LifeInv, TypeOK, pipeline
<1>6. Counted' /\ Staged'
  BY <1>4 DEF LifeInv, Counted, Staged, pipeline
<1> QED
  BY <1>3, <1>5, <1>6, Moved

LEMMA SuspendInv ==
  ASSUME LifeInv, Suspend
  PROVE  LifeInv'
  BY BackInv DEF Suspend

LEMMA HaltAgainInv ==
  ASSUME LifeInv, HaltAgain
  PROVE  LifeInv'
<1>1. worker # Idle
  BY DEF HaltAgain, Idle
<1> QED
  BY <1>1, BackInv DEF HaltAgain
------------------------------------------------------------------------------
\* A task visits a module.
LEMMA CounterBound ==
  ASSUME NEW n \in Nat, NEW k \in Nat, NEW call, NEW r, n + k = Size(call, r)
  PROVE  n \in 0 .. Len(CoreModules) \cup {1}
<1>1. Len(CoreModules) \in Nat
  BY ConstantsAssumption
<1>2. Size(call, r) \in {Len(CoreModules), 1, 0}
  BY DEF Size
<1> QED
  BY <1>1, <1>2

LEMMA JobsDone ==
  ASSUME NEW call, NEW r, NEW e, VisitsCore(call, r) \/ VisitsSub(call, r)
  PROVE  /\ Done(call) = CASE JobIn(call, r) = "setup"   -> "setup"
                           [] JobIn(call, r) = "start"   -> "started"
                           [] JobIn(call, r) = "stop"    -> "stopped"
                           [] JobIn(call, r) = "destroy" -> "destroyed"
         /\ Done(call) \in {"setup", "started", "stopped", "destroyed"}
         /\ JobIn(call, r) = "destroy" => call = "shutdown"
         /\ VisitsCore(call, r) => Done(call) \in CoreHas(e, call, r)
         /\ VisitsSub(call, r) => Done(call) \in SubHas(e, call, r)
         /\ VisitsSub(call, r) /\ call = "shutdown" => r = 1
         /\ ~(VisitsCore(call, r) /\ VisitsSub(call, r))
<1>1. CASE call = "init" /\ r \in {1, 2}
  BY <1>1 DEF VisitsCore, VisitsSub, Done, JobIn, CoreHas, SubHas, Upto, Since
<1>2. CASE call = "start" /\ r \in {2, 3}
  BY <1>2 DEF VisitsCore, VisitsSub, Done, JobIn, CoreHas, SubHas, Upto, Since
<1>3. CASE call = "stop" /\ r \in {1, 2}
  BY <1>3 DEF VisitsCore, VisitsSub, Done, JobIn, CoreHas, SubHas, Upto, Since
<1>4. CASE call = "shutdown" /\ r \in {1, 2}
  BY <1>4 DEF VisitsCore, VisitsSub, Done, JobIn, CoreHas, SubHas, Upto, Since
<1> QED
  BY <1>1, <1>2, <1>3, <1>4 DEF VisitsCore, VisitsSub

LEMMA VisitFacts ==
  ASSUME LifeInv, NEW job \in ModuleJob, Visit(job)
  PROVE  LET m == Head(worker.todo) IN
         /\ worker \in Task /\ worker # Idle /\ worker # StageTask /\ OfRound(worker)
         /\ m \in Module /\ m \in Target(subModules, main.call, main.round)
         /\ job = JobIn(main.call, main.round)
         /\ VisitsCore(main.call, main.round) \/ VisitsSub(main.call, main.round)
         /\ ToSet(worker.todo) = ToSet(Tail(worker.todo)) \cup {m}
         /\ status' = [status EXCEPT ![m] = Done(main.call)]
         /\ worker' \in Task /\ worker'.of = worker.of /\ worker'.job = worker.job
         /\ worker'.todo = Tail(worker.todo)
         /\ Live = ToSet(main.pending) \cup ToSet(queue) \cup {worker}
         /\ Live' = ToSet(main.pending) \cup ToSet(queue) \cup {worker'}
         /\ Counted' /\ Staged'
<1>1. /\ worker.job = job /\ worker.todo # <<>>
      /\ worker' = [worker EXCEPT !.todo = Tail(worker.todo)]
      /\ UNCHANGED <<engineState, main, counter, scheduler, queue, pipeline, aborted>>
  BY DEF Visit
<1>2. worker # Idle /\ worker # StageTask
  BY <1>1, IdleIsNone DEF Idle
<1>3. worker \in Task /\ OfRound(worker)
  BY <1>2, InWorker
<1>4. PICK l \in Seq(Module) : l = worker.todo
  BY <1>3 DEF Task
<1>5. /\ Tail(l) \in Seq(Module) /\ Head(l) \in Module
      /\ ToSet(l) = ToSet(Tail(l)) \cup {Head(l)}
  BY <1>1, <1>4, TailHolds
<1>6. job = JobIn(main.call, main.round)
  BY <1>1, <1>3 DEF OfRound, ModuleJob
<1>7. Head(l) \in Target(subModules, main.call, main.round)
  BY <1>3, <1>4, <1>5 DEF OfRound
<1>8. VisitsCore(main.call, main.round) \/ VisitsSub(main.call, main.round)
  BY <1>7 DEF Target
<1>9. status' = [status EXCEPT ![Head(l)] = Done(main.call)]
  <2>1. PICK c, r : c = main.call /\ r = main.round
    OBVIOUS
  <2>2. Done(c) = CASE job = "setup"   -> "setup"
                    [] job = "start"   -> "started"
                    [] job = "stop"    -> "stopped"
                    [] job = "destroy" -> "destroyed"
    BY <1>6, <1>8, <2>1, JobsDone
  <2> QED
    BY <1>4, <2>1, <2>2 DEF Visit
<1>10. /\ worker' \in Task /\ worker'.of = worker.of /\ worker'.job = worker.job
       /\ worker'.todo = Tail(worker.todo)
  BY <1>1, <1>3, <1>4, <1>5 DEF Task
<1>11. worker' # Idle
  BY <1>10, IdleIsNone
<1>12. /\ Live = ToSet(main.pending) \cup ToSet(queue) \cup {worker}
       /\ Live' = ToSet(main.pending) \cup ToSet(queue) \cup {worker'}
  BY <1>1, <1>2, <1>11 DEF Live
<1>13. \A o : InHand(queue', worker', o) = InHand(queue, worker, o)
  BY <1>1, <1>2, <1>10, <1>11 DEF InHand, Holds
<1>14. Counted' /\ Staged'
  BY <1>1, <1>13 DEF LifeInv, Counted, Staged, pipeline
<1> QED
  BY <1>2, <1>3, <1>4, <1>5, <1>6, <1>7, <1>8, <1>9, <1>10, <1>12, <1>14

LEMMA FrontOfPrefix ==
  ASSUME NEW k \in 1 .. Len(SubModules)
  PROVE  Front(SubSeq(SubModules, 1, k)) = SubSeq(SubModules, 1, k - 1)
<1>1. \A i \in 1 .. k : SubModules[i] \in SubModule
  BY ConstantsAssumption
<1>2. /\ SubSeq(SubModules, 1, k) \in Seq(SubModule) /\ Len(SubSeq(SubModules, 1, k)) = k
      /\ \A i \in 1 .. k : SubSeq(SubModules, 1, k)[i] = SubModules[i]
  BY <1>1, SubSeqProperties
<1>3. PICK j \in Int : j = k - 1 /\ j >= 0
  OBVIOUS
<1>4. PICK s \in Seq(SubModule) : s = SubSeq(SubModules, 1, k)
  BY <1>2
<1>5. Len(s) = k /\ \A i \in 1 .. j : s[i] = SubModules[i] /\ s[i] \in SubModule
  BY <1>1, <1>2, <1>3, <1>4
<1>6. /\ SubSeq(s, 1, j) \in Seq(SubModule) /\ Len(SubSeq(s, 1, j)) = j
      /\ \A i \in 1 .. j : SubSeq(s, 1, j)[i] = s[i]
  BY <1>3, <1>5, SubSeqProperties
<1>7. /\ SubSeq(SubModules, 1, j) \in Seq(SubModule) /\ Len(SubSeq(SubModules, 1, j)) = j
      /\ \A i \in 1 .. j : SubSeq(SubModules, 1, j)[i] = SubModules[i]
  BY <1>1, <1>3, SubSeqProperties
<1>8. SubSeq(s, 1, j) = SubSeq(SubModules, 1, j)
  BY <1>5, <1>6, <1>7, SeqEqual
<1> QED
  BY <1>3, <1>4, <1>5, <1>8 DEF Front

\* What a visit does, whether or not the module leaves the list.
LEMMA VisitKeeps ==
  ASSUME LifeInv, NEW job \in ModuleJob, Visit(job), NEW list, list = subModules',
         ToSet(list) \subseteq ToSet(subModules),
         \A m \in ToSet(subModules) : m \in ToSet(list) \/ m = Head(worker.todo),
         Head(worker.todo) \in ToSet(list) \/ Done(main.call) = "destroyed" \/ VisitsCore(main.call, main.round)
  PROVE  Visited' /\ ModulesAre' /\ CallsFit' /\ FrameRuns'
<1> DEFINE o == ToSet(main.pending) \cup ToSet(queue)
<1>1. UNCHANGED <<engineState, main, counter, scheduler, queue, pipeline, aborted>>
  BY DEF Visit
<1>2. PICK c, r, e : c = main.call /\ r = main.round /\ e = engineState
  OBVIOUS
<1>3. PICK m \in Module : m = Head(worker.todo)
  BY VisitFacts
<1>4. PICK w, v : w = worker /\ v = worker'
  OBVIOUS
<1>5. /\ m \in Target(subModules, c, r) /\ (VisitsCore(c, r) \/ VisitsSub(c, r))
      /\ ToSet(w.todo) = ToSet(v.todo) \cup {m} /\ v.job = w.job
      /\ status' = [status EXCEPT ![m] = Done(c)]
      /\ Live = o \cup {w} /\ Live' = o \cup {v}
  BY <1>2, <1>3, <1>4, VisitFacts
<1>6. /\ Done(c) \in {"setup", "started", "stopped", "destroyed"}
      /\ VisitsCore(c, r) => Done(c) \in CoreHas(e, c, r)
      /\ VisitsSub(c, r) => Done(c) \in SubHas(e, c, r)
      /\ ~(VisitsCore(c, r) /\ VisitsSub(c, r))
      /\ c # "none"
  BY <1>5, JobsDone DEF VisitsCore, VisitsSub
<1>7. status \in [Module -> {"none", "created", "setup", "started", "stopped", "destroyed"}]
  BY DEF LifeInv, TypeOK
<1>8. status'[m] = Done(c) /\ \A n \in Module : n # m => status'[n] = status[n]
  BY <1>5, <1>7
<1>9. /\ ToSet(subModules) \subseteq SubModule /\ CoreModule \cap SubModule = {}
      /\ CoreModule \subseteq Module /\ SubModule \subseteq Module
  BY ModuleLists, ConstantsAssumption DEF LifeInv, Module
<1> HIDE DEF o
<1>10. Visited'
  <2> SUFFICES ASSUME NEW n \in Target(list, c, r)
               PROVE  status'[n] = Done(c) \/ \E t \in Live' : n \in ToSet(t.todo)
    BY <1>1, <1>2 DEF Visited
  <2>1. n \in Target(subModules, c, r) /\ n \in Module
    BY <1>9 DEF Target
  <2>2. CASE n = m
    BY <1>8, <2>2
  <2>3. CASE n # m
    <3>1. status[n] = Done(c) \/ \E t \in Live : n \in ToSet(t.todo)
      BY <1>2, <2>1 DEF LifeInv, Visited
    <3>2. \A t \in Live : n \in ToSet(t.todo) => \E u \in Live' : n \in ToSet(u.todo)
      BY <1>5, <2>3
    <3> QED
      BY <1>8, <2>1, <2>3, <3>1, <3>2
  <2> QED
    BY <2>2, <2>3
<1>11. ModulesAre'
  <2>1. ASSUME NEW n \in CoreModule PROVE status'[n] \in CoreHas(e, c, r)
    <3>1. status[n] \in CoreHas(e, c, r)
      BY <1>2 DEF LifeInv, ModulesAre
    <3>2. n = m => VisitsCore(c, r)
      BY <1>5, <1>9 DEF Target
    <3> QED
      BY <1>6, <1>8, <1>9, <3>1, <3>2
  <2>2. ASSUME NEW n \in ToSet(list) PROVE status'[n] \in SubHas(e, c, r)
    <3>1. status[n] \in SubHas(e, c, r)
      BY <1>2 DEF LifeInv, ModulesAre
    <3>2. n = m => VisitsSub(c, r)
      BY <1>5, <1>9 DEF Target
    <3> QED
      BY <1>6, <1>8, <1>9, <3>1, <3>2
  <2>3. ASSUME NEW n \in SubModule \ ToSet(list) PROVE status'[n] \in {"none", "destroyed"}
    <3>1. CASE n = m
      <4>1. ~VisitsCore(c, r)
        BY <1>5, <1>9, <3>1 DEF Target
      <4> QED
        BY <1>2, <1>3, <1>8, <3>1, <4>1
    <3>2. CASE n # m
      <4>1. n \notin ToSet(subModules)
        BY <1>3, <3>2
      <4>2. status[n] \in {"none", "destroyed"}
        BY <4>1 DEF LifeInv, ModulesAre
      <4> QED
        BY <1>8, <1>9, <3>2, <4>2
    <3> QED
      BY <3>1, <3>2
  <2> QED
    BY <1>1, <1>2, <1>6, <2>1, <2>2, <2>3 DEF ModulesAre
<1>12. CallsFit'
  BY <1>1 DEF LifeInv, CallsFit
<1>13. FrameRuns'
  <2>1. \A t \in Live' : \E u \in Live : u.job = t.job
    BY <1>5
  <2>2. \A t \in Live' : /\ t.job = "halt" => frame > 0 /\ ~stopping
                         /\ t.job = "halting" => (frame > 0 <=> stopping)
    BY <2>1 DEF LifeInv, FrameRuns
  <2> QED
    BY <1>1, <2>2 DEF LifeInv, FrameRuns, pipeline
<1> QED
  BY <1>10, <1>11, <1>12, <1>13

LEMMA VisitTypes ==
  ASSUME LifeInv, NEW job \in ModuleJob, Visit(job)
  PROVE  /\ status' \in [Module -> {"none", "created", "setup", "started", "stopped", "destroyed"}]
         /\ worker' \in Task
<1>1. PICK c, r, e : c = main.call /\ r = main.round /\ e = engineState
  OBVIOUS
<1>2. Done(c) \in {"setup", "started", "stopped", "destroyed"}
  BY <1>1, VisitFacts, JobsDone
<1>3. status' = [status EXCEPT ![Head(worker.todo)] = Done(c)] /\ worker' \in Task
  BY <1>1, VisitFacts
<1> QED
  BY <1>2, <1>3 DEF LifeInv, TypeOK

LEMMA VisitStays ==
  ASSUME LifeInv, NEW job \in ModuleJob, Visit(job),
         ~(Editor /\ job = "destroy" /\ Head(worker.todo) \in SubModule)
  PROVE  LifeInv'
<1> DEFINE o == ToSet(main.pending) \cup ToSet(queue)
<1>1. UNCHANGED <<engineState, main, counter, scheduler, queue, pipeline, aborted, subModules>>
  BY DEF Visit
<1>2. PICK c, r : c = main.call /\ r = main.round
  OBVIOUS
<1>3. PICK m \in Module : m = Head(worker.todo)
  BY VisitFacts
<1>4. PICK w, v : w = worker /\ v = worker'
  OBVIOUS
<1>5. /\ m \in Target(subModules, c, r) /\ job = JobIn(c, r)
      /\ (VisitsCore(c, r) \/ VisitsSub(c, r))
      /\ OfRound(w) /\ v \in Task /\ v.of = w.of /\ v.job = w.job
      /\ ToSet(w.todo) = ToSet(v.todo) \cup {m}
      /\ Live = o \cup {w} /\ Live' = o \cup {v} /\ Counted' /\ Staged'
  BY <1>2, <1>3, <1>4, VisitFacts
<1> HIDE DEF o
<1>6. TypeOK'
  BY <1>1, VisitTypes DEF LifeInv, TypeOK, pipeline
<1>7. ToSet(subModules) \subseteq SubModule
  BY ModuleLists DEF LifeInv
<1>8. Visited' /\ ModulesAre' /\ CallsFit' /\ FrameRuns'
  <2>1. PICK list : list = subModules
    OBVIOUS
  <2>2. m \in ToSet(list) \/ VisitsCore(c, r)
    BY <1>5, <2>1 DEF Target
  <2> QED
    BY <1>1, <1>2, <1>3, <2>1, <2>2, VisitKeeps
<1>9. OwnedBy'
  <2>1. OfRound(v)'
    BY <1>1, <1>5 DEF OfRound
  <2>2. \A t : OfRound(t) => OfRound(t)'
    BY <1>1 DEF OfRound
  <2> QED
    BY <1>1, <1>5, <2>1, <2>2 DEF LifeInv, OwnedBy
<1>10. Backwards'
  <2>1. ~(Editor /\ c = "shutdown" /\ r = 1)
    <3> SUFFICES ASSUME Editor, c = "shutdown", r = 1 PROVE FALSE
      OBVIOUS
    <3>1. job = "destroy" /\ m \in SubModule
      BY <1>5, <1>7 DEF JobIn, Target, VisitsCore, VisitsSub
    <3> QED
      BY <1>3, <3>1
  <2> QED
    BY <1>1, <1>2, <2>1 DEF LifeInv, Backwards
<1> QED
  BY <1>5, <1>6, <1>8, <1>9, <1>10 DEF LifeInv

\* The editor destroys a sub module: the last of the list, and the task that does so
\* is the only one.
LEMMA VisitRemoves ==
  ASSUME LifeInv, NEW job \in ModuleJob, Visit(job),
         Editor, job = "destroy", Head(worker.todo) \in SubModule
  PROVE  LifeInv'
<1> DEFINE o == ToSet(main.pending) \cup ToSet(queue)
<1>1. /\ subModules' = Front(subModules)
      /\ UNCHANGED <<engineState, main, counter, scheduler, queue, pipeline, aborted>>
  BY DEF Visit
<1>2. PICK c, r, e : c = main.call /\ r = main.round /\ e = engineState
  OBVIOUS
<1>3. PICK m \in Module : m = Head(worker.todo)
  BY VisitFacts
<1>4. PICK w, v : w = worker /\ v = worker'
  OBVIOUS
<1>5. /\ m \in Target(subModules, c, r) /\ job = JobIn(c, r)
      /\ (VisitsCore(c, r) \/ VisitsSub(c, r))
      /\ w # Idle /\ w # StageTask /\ w \in Live
      /\ OfRound(w) /\ v \in Task /\ v.of = w.of /\ v.job = w.job /\ v.todo = Tail(w.todo)
      /\ ToSet(w.todo) = ToSet(v.todo) \cup {m}
      /\ Live' = o \cup {v} /\ Counted' /\ Staged'
  BY <1>2, <1>3, <1>4, VisitFacts
<1>6. VisitsSub(c, r) /\ c = "shutdown" /\ r = 1 /\ Done(c) = "destroyed"
  <2>1. ~VisitsCore(c, r)
    BY <1>3, <1>5, ConstantsAssumption DEF Target
  <2> QED
    BY <1>5, <2>1, JobsDone DEF Done
<1>7. counter = 0 /\ main.pending = <<>> /\ \A t \in o : t = StageTask
  <2>1. Size(c, r) = 1
    BY <1>6 DEF Size, LastRound
  <2> QED
    BY <1>2, <1>4, <1>5, <2>1, Alone
<1> HIDE DEF o
<1>8. w.todo = Reverse(subModules) /\ w.todo # <<>>
  <2>1. w.todo = Reverse(subModules)
    BY <1>2, <1>5, <1>6 DEF LifeInv, Backwards
  <2> QED
    BY <1>4, <2>1 DEF Visit
<1>9. PICK s \in Seq(SubModule) : s = subModules
  BY ModuleLists DEF LifeInv
<1>10. s # <<>>
  BY <1>8, <1>9, ReverseHolds
<1>11. /\ Front(s) \in Seq(SubModule)
       /\ ToSet(s) = ToSet(Front(s)) \cup {Head(Reverse(s))}
       /\ Tail(Reverse(s)) = Reverse(Front(s))
  BY <1>10, ReverseTail
<1>12. m = Head(Reverse(s)) /\ v.todo = Reverse(Front(s))
  BY <1>3, <1>4, <1>5, <1>8, <1>9, <1>11
<1>13. TypeOK'
  <2>1. PICK k \in 0 .. Len(SubModules) : subModules = SubSeq(SubModules, 1, k)
    BY DEF LifeInv, TypeOK
  <2>2. k # 0
    BY <1>9, <1>10, <2>1
  <2>3. k \in 1 .. Len(SubModules) /\ k - 1 \in 0 .. Len(SubModules)
    BY <2>1, <2>2
  <2>4. subModules' = SubSeq(SubModules, 1, k - 1)
    BY <1>1, <2>1, <2>3, FrontOfPrefix
  <2> QED
    BY <1>1, <2>3, <2>4, VisitTypes DEF LifeInv, TypeOK, pipeline
<1>14. Visited' /\ ModulesAre' /\ CallsFit' /\ FrameRuns'
  <2>1. PICK list : list = Front(s)
    OBVIOUS
  <2>2. /\ ToSet(list) \subseteq ToSet(subModules)
        /\ \A n \in ToSet(subModules) : n \in ToSet(list) \/ n = m
    BY <1>9, <1>11, <1>12, <2>1
  <2> QED
    BY <1>1, <1>2, <1>3, <1>6, <1>9, <2>1, <2>2, VisitKeeps
<1>15. OwnedBy'
  <2>1. ToSet(v.todo) = ToSet(Front(s))
    BY <1>11, <1>12, ReverseHolds
  <2>2. Target(Front(s), c, r) = ToSet(Front(s))
    BY <1>6 DEF Target, VisitsCore
  <2>3. OfRound(v)'
    BY <1>1, <1>2, <1>5, <1>9, <2>1, <2>2 DEF OfRound
  <2>4. \A t \in Live' : t \in Task /\ (t = StageTask \/ OfRound(t)')
    BY <1>5, <1>7, <2>3, IdleIsNone
  <2>5. \A t \in ToSet(main.pending) : FALSE
    BY <1>7, EmptyHolds
  <2> QED
    BY <1>1, <2>4, <2>5 DEF OwnedBy
<1>16. Backwards'
  <2>1. \A t \in Live' : t = StageTask \/ t.todo = Reverse(Front(s))
    BY <1>5, <1>7, <1>12
  <2> QED
    BY <1>1, <1>2, <1>6, <1>7, <1>9, <2>1 DEF Backwards
<1> QED
  BY <1>5, <1>13, <1>14, <1>15, <1>16 DEF LifeInv

LEMMA VisitInv ==
  ASSUME LifeInv, NEW job \in ModuleJob, Visit(job)
  PROVE  LifeInv'
  BY VisitStays, VisitRemoves
------------------------------------------------------------------------------
\* A task ends and is counted, or stop() and the stages change the pipeline.
LEMMA SignalCounts ==
  ASSUME LifeInv, worker # Idle, OfRound(worker), Signalled, UNCHANGED main,
         \A o \in Call : InHand(queue', worker', o) = CountIn(queue, o)
  PROVE  /\ counter' = counter + 1 /\ Counted'
         /\ counter' \in 0 .. Len(CoreModules) \cup {1}
<1>1. PICK c, r : c = main.call /\ r = main.round
  OBVIOUS
<1>2. c \in Call /\ worker.of = c
  BY <1>1, InWorker DEF OfRound
<1>3. CountIn(queue, c) \in Nat /\ InHand(queue, worker, c) = CountIn(queue, c) + 1
  BY <1>2, InWorker
<1>4. counter \in Nat /\ counter + Len(main.pending) + InHand(queue, worker, c) = Size(c, r)
  BY <1>1 DEF LifeInv, Counted
<1>5. Len(main.pending) \in Nat
  BY DEF LifeInv, TypeOK
<1>6. counter' = counter + 1
  BY <1>1, <1>2 DEF Signalled
<1>7. counter' \in Nat /\ counter' + Len(main.pending) + InHand(queue', worker', c) = Size(c, r)
  <2>1. InHand(queue', worker', c) = CountIn(queue, c)
    BY <1>2
  <2>2. PICK k \in Nat, l \in Nat, n \in Nat :
            k = CountIn(queue, c) /\ l = Len(main.pending) /\ n = counter
    BY <1>3, <1>4, <1>5
  <2>3. n + l + (k + 1) = Size(c, r)
    BY <1>3, <1>4, <2>2
  <2>4. (n + 1) + l + k = Size(c, r)
    BY <2>3
  <2>5. counter' = n + 1 /\ InHand(queue', worker', c) = k /\ Len(main.pending) = l
    BY <1>6, <2>1, <2>2
  <2>6. counter' \in Nat /\ (n + 1) + l + k = counter' + Len(main.pending) + InHand(queue', worker', c)
    BY <2>5
  <2> QED
    BY <2>4, <2>6
<1>8. Counted'
  BY <1>1, <1>7 DEF Counted
<1>9. PICK k \in Nat : k = Len(main.pending) + CountIn(queue, c)
  BY <1>3, <1>5
<1>10. counter' + k = Size(c, r)
  BY <1>2, <1>3, <1>5, <1>7, <1>9
<1>11. PICK n \in Nat : n = counter'
  BY <1>7
<1>12. n + k = Size(c, r)
  BY <1>10, <1>11
<1> QED
  BY <1>6, <1>8, <1>11, <1>12, CounterBound

\* A task that has nothing to visit goes.
LEMMA Gone ==
  ASSUME LifeInv, worker # Idle, worker.todo = <<>>, Live' \subseteq Live \cup {StageTask},
         \A t \in ToSet(main.pending) \cup ToSet(queue) : t \in Live',
         UNCHANGED <<engineState, main, subModules, status, scheduler>>
  PROVE  OwnedBy' /\ Visited' /\ ModulesAre' /\ CallsFit'
<1>1. OwnedBy'
  <2>1. \A t : OfRound(t)' <=> OfRound(t)
    BY DEF OfRound
  <2> QED
    BY <2>1, IdleIsNone DEF LifeInv, OwnedBy
<1>2. Visited'
  <2>1. \A t \in Live : t = worker \/ t \in Live'
    BY DEF Live
  <2>2. \A m : m \notin ToSet(worker.todo)
    BY EmptyHolds
  <2> QED
    BY <2>1, <2>2 DEF LifeInv, Visited
<1> QED
  BY <1>1, <1>2, Unvisited

LEMMA SignalInv ==
  ASSUME LifeInv, NEW job \in ModuleJob, Signal(job)
  PROVE  LifeInv'
<1>1. /\ worker.job = job /\ worker.todo = <<>> /\ Signalled /\ worker' = Idle
      /\ UNCHANGED <<engineState, main, subModules, status, scheduler, queue, pipeline, aborted>>
  BY DEF Signal
<1>2. worker # Idle /\ worker # StageTask
  BY <1>1, IdleIsNone DEF ModuleJob, Idle
<1>3. OfRound(worker) /\ worker \in Live
  BY <1>2, InWorker
<1>4. /\ Live' = ToSet(main.pending) \cup ToSet(queue)
      /\ \A o : InHand(queue', worker', o) = CountIn(queue, o)
  BY <1>1, <1>2, PutDown DEF LifeInv
<1>5. counter' = counter + 1 /\ Counted' /\ counter' \in 0 .. Len(CoreModules) \cup {1}
  BY <1>1, <1>2, <1>3, <1>4, SignalCounts
<1>6. Live' \subseteq Live
  BY <1>4 DEF Live
<1>7. OwnedBy' /\ Visited' /\ ModulesAre' /\ CallsFit'
  BY <1>1, <1>2, <1>4, <1>6, Gone
<1>8. TypeOK'
  BY <1>1, <1>5 DEF LifeInv, TypeOK, pipeline
<1>9. Staged'
  <2>1. InHand(queue, worker, "pipeline") = CountIn(queue, "pipeline")
    BY <1>2, <1>3, InWorker DEF InHand, Holds
  <2> QED
    BY <1>1, <1>4, <2>1 DEF LifeInv, Staged, pipeline
<1>10. Backwards'
  <2>1. Editor /\ main.call = "shutdown" /\ main.round = 1 => subModules = <<>>
    <3> SUFFICES ASSUME Editor, main.call = "shutdown", main.round = 1 PROVE subModules = <<>>
      OBVIOUS
    <3>1. Reverse(subModules) = <<>>
      BY <1>1, <1>2, <1>3 DEF LifeInv, Backwards
    <3> QED
      BY <3>1, ModuleLists, ReverseHolds DEF LifeInv
  <2>2. main.call = "shutdown" => main.round = 1 \/ main.round > 1
    BY DEF LifeInv, CallsFit, LastRound
  <2> QED
    BY <1>1, <1>6, <2>1, <2>2 DEF LifeInv, Backwards
<1>11. FrameRuns'
  <2>1. job = JobIn(main.call, main.round)
    BY <1>1, <1>3 DEF OfRound, ModuleJob
  <2>2. main.call = "start" => main.round # 1
    BY <2>1 DEF JobIn, ModuleJob
  <2>3. main.call = "start" => main.round > 1
    BY <2>2 DEF LifeInv, CallsFit, LastRound
  <2>4. main.call = "stop" => main.round # 3
    BY <2>1 DEF JobIn, ModuleJob
  <2> QED
    BY <1>1, <1>6, <2>3, <2>4 DEF LifeInv, FrameRuns, pipeline
<1> QED
  BY <1>5, <1>7, <1>8, <1>9, <1>10, <1>11 DEF LifeInv

\* start() has begun the first frame.
LEMMA RunInv ==
  ASSUME LifeInv, Run
  PROVE  LifeInv'
<1>1. /\ worker.job = "run" /\ queue' = Append(queue, StageTask) /\ frame' = 1 /\ Signalled
      /\ worker' = Idle
      /\ UNCHANGED <<engineState, main, subModules, status, scheduler, stopping, starts, aborted>>
  BY DEF Run
<1>2. worker # Idle /\ worker # StageTask
  BY <1>1, IdleIsNone DEF Idle
<1>3. OfRound(worker) /\ worker \in Live /\ worker \in Task /\ worker.of # "pipeline"
  BY <1>2, InWorker
<1>4. main.call = "start" /\ main.round = 1
  BY <1>1, <1>3 DEF OfRound, JobIn
<1>5. /\ queue' \in Seq(Task) /\ Live' = ToSet(main.pending) \cup ToSet(queue) \cup {StageTask}
      /\ \A o : InHand(queue', worker', o) = CountIn(queue, o) + (IF StageTask.of = o THEN 1 ELSE 0)
  BY <1>1, <1>2, IdleIsNone, PutBack DEF LifeInv
<1>6. \A o \in Call : InHand(queue', worker', o) = CountIn(queue, o)
  <2>1. \A o \in Call : CountIn(queue, o) \in Nat /\ StageTask.of # o
    BY <1>2, InWorker, IdleIsNone DEF Call
  <2> QED
    BY <1>5, <2>1
<1>7. counter' = counter + 1 /\ Counted' /\ counter' \in 0 .. Len(CoreModules) \cup {1}
  BY <1>1, <1>2, <1>3, <1>6, SignalCounts
<1>8. counter = 0
  <2>1. Size(main.call, main.round) = 1
    BY <1>4 DEF Size, LastRound
  <2> QED
    BY <1>2, <1>3, <2>1, Alone
<1>9. worker.todo = <<>>
  <2>1. ToSet(worker.todo) = {} /\ worker.todo \in Seq(Module)
    BY <1>3, <1>4 DEF OfRound, Target, VisitsCore, VisitsSub, Task
  <2> QED
    BY <2>1, HoldsNothing
<1>10. Live' \subseteq Live \cup {StageTask}
  BY <1>5 DEF Live
<1>11. OwnedBy' /\ Visited' /\ ModulesAre' /\ CallsFit'
  BY <1>1, <1>2, <1>5, <1>9, <1>10, Gone
<1>12. TypeOK'
  BY <1>1, <1>5, <1>7, ConstantsAssumption DEF LifeInv, TypeOK, pipeline
<1>13. frame = 0
  BY <1>4, <1>8 DEF LifeInv, FrameRuns, TypeOK
<1>14. Staged'
  <2>1. /\ CountIn(queue, "pipeline") \in Nat
        /\ InHand(queue, worker, "pipeline") = CountIn(queue, "pipeline")
    BY <1>2, <1>3, InWorker DEF InHand, Holds
  <2>2. CountIn(queue, "pipeline") = 0
    BY <1>13, <2>1 DEF LifeInv, Staged
  <2> QED
    BY <1>1, <1>5, <2>2, IdleIsNone DEF Staged
<1>15. Backwards'
  BY <1>1, <1>4 DEF Backwards
<1>16. FrameRuns'
  <2>1. \A t \in Live' : t.job # "halt" /\ t.job # "halting"
    <3>1. \A t \in Live : t.job \in {"run", "stage"}
      BY <1>4, IdleIsNone DEF LifeInv, OwnedBy, OfRound, JobIn
    <3> QED
      BY <1>10, <3>1, IdleIsNone
  <2> QED
    BY <1>1, <1>4, <1>7, <1>8, <2>1 DEF LifeInv, FrameRuns
<1> QED
  BY <1>7, <1>11, <1>12, <1>14, <1>15, <1>16 DEF LifeInv

\* stop() asks for the end of the frame.
LEMMA HaltInv ==
  ASSUME LifeInv, Halt
  PROVE  LifeInv'
<1> DEFINE v == [worker EXCEPT !.job = "halting"]
<1>1. /\ worker.job = "halt" /\ stopping' = TRUE /\ queue' = Append(queue, v) /\ worker' = Idle
      /\ UNCHANGED <<engineState, main, counter, subModules, status, scheduler, frame, starts, aborted>>
  BY DEF Halt
<1>2. worker # Idle /\ worker # StageTask
  BY <1>1, IdleIsNone DEF Idle
<1>3. OfRound(worker) /\ worker \in Live /\ worker \in Task /\ worker.of # "pipeline"
  BY <1>2, InWorker
<1>4. main.call = "stop" /\ main.round = 3
  BY <1>1, <1>3 DEF OfRound, JobIn
<1>5. v \in Task /\ v.of = worker.of /\ v.job = "halting" /\ v.todo = worker.todo
  BY <1>3 DEF Task, Job
<1> HIDE DEF v
<1>6. PICK u \in Task : u = v
  BY <1>5
<1>7. /\ queue' \in Seq(Task) /\ Live' = ToSet(main.pending) \cup ToSet(queue) \cup {u}
      /\ \A o : InHand(queue', worker', o) = CountIn(queue, o) + (IF u.of = o THEN 1 ELSE 0)
  BY <1>1, <1>2, <1>6, PutBack DEF LifeInv
<1>8. \A o : InHand(queue', worker', o) = InHand(queue, worker, o)
  BY <1>2, <1>5, <1>6, <1>7, InWorker
<1>9. counter = 0 /\ main.pending = <<>>
      /\ \A t \in ToSet(main.pending) \cup ToSet(queue) : t = StageTask
  <2>1. Size(main.call, main.round) = 1
    BY <1>4 DEF Size, LastRound
  <2> QED
    BY <1>2, <1>3, <2>1, Alone
<1>10. frame > 0 /\ ~stopping
  BY <1>1, <1>3 DEF LifeInv, FrameRuns
<1>11. TypeOK'
  BY <1>1, <1>7 DEF LifeInv, TypeOK
<1>12. Counted' /\ Staged'
  BY <1>1, <1>8 DEF LifeInv, Counted, Staged
<1>13. OwnedBy'
  <2>1. OfRound(u)'
    BY <1>1, <1>3, <1>4, <1>5, <1>6 DEF OfRound
  <2>2. \A t \in ToSet(main'.pending) : FALSE
    BY <1>1, <1>9, EmptyHolds
  <2> QED
    BY <1>7, <1>9, <2>1, <2>2, IdleIsNone DEF OwnedBy
<1>14. Visited'
  <2>1. Target(subModules', main'.call, main'.round) = {}
    BY <1>1, <1>4 DEF Target, VisitsCore, VisitsSub
  <2> QED
    BY <2>1 DEF Visited
<1>15. Backwards'
  BY <1>1, <1>4 DEF Backwards
<1>16. ModulesAre' /\ CallsFit'
  BY <1>1, Unvisited
<1>17. FrameRuns'
  <2>1. \A t \in Live' : t.job # "halt"
    BY <1>5, <1>6, <1>7, <1>9, IdleIsNone
  <2> QED
    BY <1>1, <1>4, <1>9, <1>10, <2>1 DEF FrameRuns
<1> QED
  BY <1>11, <1>12, <1>13, <1>14, <1>15, <1>16, <1>17 DEF LifeInv

LEMMA HaltedInv ==
  ASSUME LifeInv, Halted
  PROVE  LifeInv'
<1>1. /\ worker.job = "halting" /\ ~stopping /\ Signalled /\ worker' = Idle
      /\ UNCHANGED <<engineState, main, subModules, status, scheduler, queue, pipeline, aborted>>
  BY DEF Halted
<1>2. worker # Idle /\ worker # StageTask
  BY <1>1, IdleIsNone DEF Idle
<1>3. OfRound(worker) /\ worker \in Live /\ worker \in Task /\ worker.of # "pipeline"
  BY <1>2, InWorker
<1>4. main.call = "stop" /\ main.round = 3
  BY <1>1, <1>3 DEF OfRound, JobIn
<1>5. /\ Live' = ToSet(main.pending) \cup ToSet(queue)
      /\ \A o : InHand(queue', worker', o) = CountIn(queue, o)
  BY <1>1, <1>2, PutDown DEF LifeInv
<1>6. counter' = counter + 1 /\ Counted' /\ counter' \in 0 .. Len(CoreModules) \cup {1}
  BY <1>1, <1>2, <1>3, <1>5, SignalCounts
<1>7. worker.todo = <<>>
  <2>1. ToSet(worker.todo) = {} /\ worker.todo \in Seq(Module)
    BY <1>3, <1>4 DEF OfRound, Target, VisitsCore, VisitsSub, Task
  <2> QED
    BY <2>1, HoldsNothing
<1>8. Live' \subseteq Live
  BY <1>5 DEF Live
<1>9. OwnedBy' /\ Visited' /\ ModulesAre' /\ CallsFit'
  BY <1>1, <1>2, <1>5, <1>7, <1>8, Gone
<1>10. TypeOK'
  BY <1>1, <1>6 DEF LifeInv, TypeOK, pipeline
<1>11. Staged'
  <2>1. InHand(queue, worker, "pipeline") = CountIn(queue, "pipeline")
    BY <1>2, <1>3, InWorker DEF InHand, Holds
  <2> QED
    BY <1>1, <1>5, <2>1 DEF LifeInv, Staged, pipeline
<1>12. Backwards'
  BY <1>1, <1>4 DEF Backwards
<1>13. frame = 0
  BY <1>1, <1>3 DEF LifeInv, FrameRuns, TypeOK
<1>14. FrameRuns'
  BY <1>1, <1>4, <1>8, <1>13 DEF LifeInv, FrameRuns, pipeline
<1> QED
  BY <1>6, <1>9, <1>10, <1>11, <1>12, <1>14 DEF LifeInv

\* A stage has ended.
LEMMA NextStage ==
  ASSUME NEW f \in 1 .. MaxStage
  PROVE  (f % MaxStage) + 1 \in 1 .. MaxStage
<1>1. PICK n \in Nat : n = MaxStage /\ n > 0
  BY ConstantsAssumption
<1>2. f % n \in 0 .. n - 1
  BY <1>1
<1> QED
  BY <1>1, <1>2

LEMMA StageInv ==
  ASSUME LifeInv, Stage
  PROVE  LifeInv'
<1> DEFINE over == frame = MaxStage /\ stopping
           o == ToSet(main.pending) \cup ToSet(queue)
<1>1. /\ worker = StageTask /\ worker' = Idle
      /\ frame' = IF over THEN 0 ELSE (frame % MaxStage) + 1
      /\ queue' = IF over THEN queue ELSE Append(queue, StageTask)
      /\ stopping' = (stopping /\ ~over)
      /\ UNCHANGED <<engineState, main, counter, subModules, status, scheduler, starts, aborted>>
  BY DEF Stage
<1>2. worker # Idle /\ worker.todo = <<>> /\ worker.of = "pipeline" /\ worker.of # main.call
  BY <1>1, InWorker, IdleIsNone DEF LifeInv, TypeOK, Call
<1>3. Live = o \cup {StageTask} /\ \A c \in Call \cup {"none"} : InHand(queue, worker, c) = CountIn(queue, c)
  <2>1. \A c \in Call \cup {"none"} : worker.of # c
    BY <1>2 DEF Call
  <2> QED
    BY <1>1, <1>2, <2>1, InWorker
<1>4. InHand(queue, worker, "pipeline") = CountIn(queue, "pipeline") + 1 /\ CountIn(queue, "pipeline") \in Nat
  BY <1>2, InWorker
<1>5. frame > 0 /\ CountIn(queue, "pipeline") = 0
  BY <1>4 DEF LifeInv, Staged
<1>6. frame \in 1 .. MaxStage /\ main.call \in Call \cup {"none"} /\ stopping \in BOOLEAN
  BY <1>5, ConstantsAssumption DEF LifeInv, TypeOK
<1> HIDE DEF o
<1>7. CASE over
  <2>1. frame' = 0 /\ queue' = queue /\ stopping' = FALSE
    BY <1>1, <1>7
  <2>2. Live' = o /\ \A c : InHand(queue', worker', c) = CountIn(queue, c)
    BY <1>1, <1>2, <2>1, PutDown DEF LifeInv, o
  <2>3. Counted'
    BY <1>1, <1>3, <1>6, <2>2 DEF LifeInv, Counted
  <2>4. Staged'
    BY <1>5, <2>1, <2>2 DEF Staged
  <2>5. OwnedBy' /\ Visited' /\ ModulesAre' /\ CallsFit'
    BY <1>1, <1>2, <1>3, <2>2, Gone DEF o
  <2>6. TypeOK'
    BY <1>1, <1>6, <2>1, ConstantsAssumption DEF LifeInv, TypeOK
  <2>7. Backwards'
    BY <1>1, <1>3, <2>2 DEF LifeInv, Backwards
  <2>8. FrameRuns'
    <3>1. main.call = "stop" /\ main.round = 3
      BY <1>7 DEF LifeInv, FrameRuns
    <3>2. \A t \in Live' : t.job # "halt"
      BY <1>3, <1>7, <2>2 DEF LifeInv, FrameRuns
    <3> QED
      BY <1>1, <2>1, <3>1, <3>2 DEF FrameRuns
  <2> QED
    BY <2>3, <2>4, <2>5, <2>6, <2>7, <2>8 DEF LifeInv
<1>8. CASE ~over
  <2>1. queue' = Append(queue, StageTask) /\ stopping' = stopping
    BY <1>1, <1>6, <1>8
  <2>2. frame' \in 1 .. MaxStage
    BY <1>1, <1>6, <1>8, NextStage
  <2>3. frame' > 0 /\ frame' \in 0 .. MaxStage
    BY <2>2, ConstantsAssumption
  <2>4. /\ queue' \in Seq(Task) /\ Live' = o \cup {StageTask}
        /\ \A c : InHand(queue', worker', c) = CountIn(queue, c) + (IF StageTask.of = c THEN 1 ELSE 0)
    BY <1>1, <1>2, <2>1, IdleIsNone, PutBack DEF LifeInv, o
  <2>5. Live' = Live
    BY <1>3, <2>4
  <2>6. \A c : InHand(queue', worker', c) = InHand(queue, worker, c)
    BY <1>1, <1>2, <2>4, InWorker
  <2>7. Counted'
    BY <1>1, <2>6 DEF LifeInv, Counted
  <2>8. Staged'
    BY <1>5, <2>3, <2>6 DEF LifeInv, Staged
  <2>9. OwnedBy' /\ Visited' /\ ModulesAre' /\ CallsFit'
    BY <1>1, <1>2, <1>3, <2>4, Gone DEF o
  <2>10. TypeOK'
    BY <1>1, <2>1, <2>3, <2>4 DEF LifeInv, TypeOK
  <2>11. Backwards'
    BY <1>1, <2>5 DEF LifeInv, Backwards
  <2>12. FrameRuns'
    BY <1>1, <1>5, <2>1, <2>3, <2>5 DEF LifeInv, FrameRuns
  <2> QED
    BY <2>7, <2>8, <2>9, <2>10, <2>11, <2>12 DEF LifeInv
<1> QED
  BY <1>7, <1>8
------------------------------------------------------------------------------
\* The main thread enters a round, of which nothing is under way yet.
LEMMA NoRound ==
  ASSUME NEW call \in Call, NEW r, r = LastRound(call) + 1
  PROVE  Size(call, r) = 0 /\ ~VisitsCore(call, r) /\ ~VisitsSub(call, r)
<1>1. call = "init" => r = 3
  BY DEF LastRound
<1>2. call = "start" \/ call = "stop" => r = 4
  BY DEF LastRound
<1>3. call = "shutdown" => r = 3
  BY DEF LastRound
<1>4. r \notin 1 .. LastRound(call)
  BY RoundsLength
<1> QED
  BY <1>1, <1>2, <1>3, <1>4 DEF Size, VisitsCore, VisitsSub

LEMMA RoundBegins ==
  ASSUME LifeInv, NEW call \in Call, NEW r \in 1 .. LastRound(call) + 1,
         \A t \in Live : t = StageTask,
         main' = Entered(call, r), counter' = 0,
         call = "preInit" \/ UNCHANGED subModules,
         UNCHANGED <<queue, worker, frame>>
  PROVE  /\ main' \in [call : Call \cup {"none"}, round : 0 .. 4, pending : Seq(Task)]
         /\ main'.call = call /\ main'.round = r
         /\ Counted' /\ OwnedBy' /\ Visited' /\ Staged'
         /\ \A t \in Live' : t = StageTask \/ t.job = JobIn(call, r)
         /\ Editor /\ call = "shutdown" /\ r = 1 =>
                \A t \in Live' : t = StageTask \/ t.todo = Reverse(subModules)
<1>1. LastRound(call) \in 0 .. 3 /\ Len(Rounds(call)) = LastRound(call)
  BY RoundsLength
<1>2. PICK p : p = main'.pending
  OBVIOUS
<1>3. main'.call = call /\ main'.round = r /\ main' = [call |-> call, round |-> r, pending |-> p]
  BY <1>2 DEF Entered
<1>4. /\ TasksFor(p, call, JobIn(call, r), Target(subModules', call, r)) /\ Len(p) = Size(call, r)
      /\ Editor /\ call = "shutdown" /\ r = 1 => \A t \in ToSet(p) : t.todo = Reverse(subModules)
  <2>1. CASE r \in 1 .. LastRound(call)
    <3>1. p = Rounds(call)[r].tasks
      BY <1>1, <1>2, <2>1 DEF Entered
    <3>2. call # "preInit"
      BY <2>1 DEF LastRound
    <3>3. TasksFor(p, call, JobIn(call, r), Target(subModules, call, r)) /\ Len(p) = Size(call, r)
      BY <2>1, <3>1, RoundTasks DEF LifeInv
    <3>4. Editor /\ call = "shutdown" /\ r = 1 => \A t \in ToSet(p) : t.todo = Reverse(subModules)
      BY <3>1, FirstOfShutdown
    <3> QED
      BY <3>2, <3>3, <3>4
  <2>2. CASE r = LastRound(call) + 1
    <3>1. p = <<>>
      BY <1>1, <1>2, <2>2 DEF Entered
    <3>2. ToSet(p) = {} /\ Len(p) = 0 /\ p \in Seq(Task)
      BY <3>1, EmptyHolds
    <3>3. Size(call, r) = 0 /\ Target(subModules', call, r) = {}
      BY <2>2, NoRound DEF Target
    <3> QED
      BY <3>2, <3>3 DEF TasksFor
  <2> QED
    BY <1>1, <2>1, <2>2
<1>5. p \in Seq(Task) /\ \A t \in ToSet(p) :
          t.of = call /\ t.job = JobIn(call, r) /\ ToSet(t.todo) \subseteq Target(subModules', call, r)
  BY <1>4 DEF TasksFor
<1>6. main' \in [call : Call \cup {"none"}, round : 0 .. 4, pending : Seq(Task)]
  BY <1>1, <1>3, <1>5
<1>7. /\ \A t \in Live' : t = StageTask \/ t \in ToSet(p)
      /\ \A t \in ToSet(p) : t \in Live'
  BY <1>2 DEF Live
<1>8. \A t \in Live' : t = StageTask \/ t.job = JobIn(call, r)
  BY <1>5, <1>7
<1>9. Editor /\ call = "shutdown" /\ r = 1 => \A t \in Live' : t = StageTask \/ t.todo = Reverse(subModules)
  BY <1>4, <1>7
<1>10. Counted'
  <2>1. PICK q \in Seq(Task) : q = queue
    BY DEF LifeInv, TypeOK
  <2>2. \A t \in ToSet(q) : t.of # call
    BY <2>1, IdleIsNone DEF Live, Call
  <2>3. CountIn(q, call) = 0
    BY <2>2, CountNone
  <2>4. Holds(worker, call) = 0
    BY IdleIsNone DEF Holds, Live, Call
  <2>5. InHand(queue', worker', call) = 0
    BY <2>1, <2>3, <2>4 DEF InHand
  <2>6. Len(p) \in Nat
    BY <1>5
  <2>7. 0 + Len(p) + 0 = Size(call, r)
    BY <1>4, <2>6
  <2> QED
    BY <1>2, <1>3, <2>5, <2>7 DEF Counted
<1>11. OwnedBy'
  <2>1. \A t \in ToSet(p) : OfRound(t)'
    BY <1>3, <1>5 DEF OfRound
  <2>2. \A t \in ToSet(p) : t \in Task
    BY <1>5 DEF ToSet
  <2> QED
    BY <1>2, <1>3, <1>5, <1>7, <2>1, <2>2, IdleIsNone DEF OwnedBy
<1>12. Visited'
  <2>1. \A m \in Target(subModules', call, r) : \E t \in Live' : m \in ToSet(t.todo)
    BY <1>4, <1>7 DEF TasksFor
  <2> QED
    BY <1>3, <2>1 DEF Visited
<1>13. Staged'
  BY DEF LifeInv, Staged
<1> QED
  BY <1>3, <1>6, <1>8, <1>9, <1>10, <1>11, <1>12, <1>13

\* The states of the modules as a call is entered, goes on to its next round, and
\* returns.
LEMMA StatesEntered ==
  ASSUME NEW call \in Call, call # "preInit", NEW e, e \in From(call)
  PROVE  Between(e) \subseteq CoreHas(e, call, 1) /\ Between(e) \subseteq SubHas(e, call, 1)
<1>1. CASE call = "init"
  BY <1>1 DEF From, Between, CoreHas, SubHas, Upto, Since
<1>2. CASE call = "postInit"
  BY <1>2 DEF From, Between, CoreHas, SubHas, Upto, Since
<1>3. CASE call = "start"
  BY <1>3 DEF From, Between, CoreHas, SubHas, Upto, Since, Ready
<1>4. CASE call = "stop"
  BY <1>4 DEF From, Between, CoreHas, SubHas, Upto, Since
<1>5. CASE call = "shutdown"
  BY <1>5 DEF From, Between, CoreHas, SubHas, Upto, Since, Ready
<1>6. CASE call = "exit"
  BY <1>6 DEF From, Between, CoreHas, SubHas, Upto, Since
<1> QED
  BY <1>1, <1>2, <1>3, <1>4, <1>5, <1>6 DEF Call

LEMMA StatesNext ==
  ASSUME NEW call \in Call, NEW r \in 1 .. LastRound(call), NEW e
  PROVE  /\ VisitsCore(call, r) => Done(call) \in CoreHas(e, call, r + 1)
         /\ ~VisitsCore(call, r) => CoreHas(e, call, r) \subseteq CoreHas(e, call, r + 1)
         /\ VisitsSub(call, r) => Done(call) \in SubHas(e, call, r + 1)
         /\ ~VisitsSub(call, r) => SubHas(e, call, r) \subseteq SubHas(e, call, r + 1)
<1>1. \/ call \in {"init", "shutdown"} /\ r \in {1, 2}
      \/ call \in {"start", "stop"} /\ r \in {1, 2, 3}
  BY DEF LastRound, Call
<1>2. CASE call = "init"
  BY <1>1, <1>2 DEF VisitsCore, VisitsSub, Done, CoreHas, SubHas, Upto, Since
<1>3. CASE call = "start"
  BY <1>1, <1>3 DEF VisitsCore, VisitsSub, Done, CoreHas, SubHas, Upto, Since
<1>4. CASE call = "stop"
  BY <1>1, <1>4 DEF VisitsCore, VisitsSub, Done, CoreHas, SubHas, Upto, Since
<1>5. CASE call = "shutdown"
  BY <1>1, <1>5 DEF VisitsCore, VisitsSub, Done, CoreHas, SubHas, Upto, Since
<1> QED
  BY <1>1, <1>2, <1>3, <1>4, <1>5

LEMMA StatesReturned ==
  ASSUME NEW call \in Call, NEW r, r = LastRound(call) + 1, NEW e, NEW n, n = To(call), call # "exit"
  PROVE  /\ CoreHas(e, call, r) \subseteq Between(n) /\ SubHas(e, call, r) \subseteq Between(n)
         /\ n \in 0 .. 4
         /\ n = 3 => \E s \in {"setup", "stopped"} : CoreHas(e, call, r) = {s} /\ SubHas(e, call, r) = {s}
<1>1. CASE call = "preInit"
  BY <1>1 DEF To, LastRound, Between, CoreHas, SubHas, Upto, Since, Low
<1>2. CASE call = "init"
  BY <1>2 DEF To, LastRound, Between, CoreHas, SubHas, Upto, Since
<1>3. CASE call = "postInit"
  BY <1>3 DEF To, LastRound, Between, CoreHas, SubHas, Upto, Since, Ready
<1>4. CASE call = "start"
  BY <1>4 DEF To, LastRound, Between, CoreHas, SubHas, Upto, Since
<1>5. CASE call = "stop"
  BY <1>5 DEF To, LastRound, Between, CoreHas, SubHas, Upto, Since, Ready
<1>6. CASE call = "shutdown"
  BY <1>6 DEF To, LastRound, Between, CoreHas, SubHas, Upto, Since, Low
<1> QED
  BY <1>1, <1>2, <1>3, <1>4, <1>5, <1>6 DEF Call

LEMMA EnterInv ==
  ASSUME LifeInv, NEW call \in Call, Enter(call)
  PROVE  LifeInv'
<1>1. /\ main = Quiet /\ engineState \in From(call) /\ main' = Entered(call, 1) /\ counter' = 0
      /\ Created(call) /\ scheduler' = (scheduler \/ call = "init")
      /\ starts' = IF call = "start" THEN starts + 1 ELSE starts
      /\ call = "start" => starts < MaxStarts
      /\ UNCHANGED <<engineState, queue, worker, frame, stopping, aborted>>
  BY DEF Enter
<1>2. main.call = "none" /\ main.call \notin Call
  BY <1>1 DEF Quiet, Call
<1>3. \A t \in Live : t = StageTask
  BY <1>2, NoneWhenQuiet
<1>4. LastRound(call) \in 0 .. 3 /\ 1 \in 1 .. LastRound(call) + 1
  BY RoundsLength
<1>5. call = "preInit" \/ UNCHANGED <<status, subModules>>
  BY <1>1 DEF Created
<1>6. /\ main' \in [call : Call \cup {"none"}, round : 0 .. 4, pending : Seq(Task)]
      /\ main'.call = call /\ main'.round = 1
      /\ Counted' /\ OwnedBy' /\ Visited' /\ Staged'
      /\ \A t \in Live' : t = StageTask \/ t.job = JobIn(call, 1)
      /\ Editor /\ call = "shutdown" =>
                \A t \in Live' : t = StageTask \/ t.todo = Reverse(subModules)
  BY <1>1, <1>3, <1>4, <1>5, RoundBegins
<1>7. TypeOK'
  <2>1. /\ status' \in [Module -> {"none", "created", "setup", "started", "stopped", "destroyed"}]
        /\ \E k \in 0 .. Len(SubModules) : subModules' = SubSeq(SubModules, 1, k)
    <3>1. CASE call = "preInit"
      <4>1. Len(SubModules) \in 0 .. Len(SubModules) /\ SubModules = SubSeq(SubModules, 1, Len(SubModules))
        BY ConstantsAssumption
      <4> QED
        BY <1>1, <3>1, <4>1 DEF Created
    <3>2. CASE call # "preInit"
      BY <1>5, <3>2 DEF LifeInv, TypeOK
    <3> QED
      BY <3>1, <3>2
  <2>2. starts' \in 0 .. MaxStarts /\ counter' \in 0 .. Len(CoreModules) \cup {1}
    BY <1>1, ConstantsAssumption DEF LifeInv, TypeOK
  <2> QED
    BY <1>1, <1>6, <2>1, <2>2 DEF LifeInv, TypeOK
<1>8. Backwards'
  <2>1. call = "shutdown" => UNCHANGED subModules
    BY <1>5
  <2> QED
    BY <1>1, <1>6, <2>1 DEF Backwards
<1>9. ModulesAre'
  <2>1. CASE call = "preInit"
    <3>1. status' = [m \in Module |-> "created"] /\ ToSet(subModules') = SubModule
      BY <1>1, <2>1 DEF Created, SubModule
    <3>2. CoreModule \subseteq Module /\ SubModule \subseteq Module
      BY DEF Module
    <3>3. \A e : CoreHas(e, "preInit", 1) = {"created"} /\ SubHas(e, "preInit", 1) = {"created"}
      BY DEF CoreHas, SubHas
    <3> QED
      BY <1>6, <2>1, <3>1, <3>2, <3>3 DEF ModulesAre
  <2>2. CASE call # "preInit"
    <3>1. PICK e : e = engineState
      OBVIOUS
    <3>2. Between(e) \subseteq CoreHas(e, call, 1) /\ Between(e) \subseteq SubHas(e, call, 1)
      BY <1>1, <2>2, <3>1, StatesEntered
    <3>3. CoreHas(e, "none", main.round) = Between(e) /\ SubHas(e, "none", main.round) = Between(e)
      BY DEF CoreHas, SubHas
    <3>4. call # "none"
      BY DEF Call
    <3> QED
      BY <1>1, <1>2, <1>5, <1>6, <2>2, <3>1, <3>2, <3>3, <3>4 DEF LifeInv, ModulesAre
  <2> QED
    BY <2>1, <2>2
<1>10. engineState \in 0 .. 4 /\ scheduler \in BOOLEAN /\ (scheduler <=> engineState >= 2)
  BY <1>2 DEF LifeInv, TypeOK, CallsFit, Call
<1>11. CallsFit'
  <2>1. call # "none"
    BY DEF Call
  <2>2. scheduler' <=> call \in {"init", "postInit", "start", "stop", "shutdown"}
    <3>1. engineState >= 2 <=> call \in {"postInit", "start", "stop", "shutdown"}
      BY <1>1 DEF From, Call
    <3>2. scheduler' <=> engineState >= 2 \/ call = "init"
      BY <1>1, <1>10
    <3> QED
      BY <3>1, <3>2
  <2> QED
    BY <1>1, <1>4, <1>6, <2>1, <2>2 DEF CallsFit
<1>12. ~stopping /\ (frame > 0 <=> engineState = 4) /\ (call = "stop" <=> engineState = 4) /\ frame \in Nat
  <2>1. ~stopping /\ (frame > 0 <=> engineState = 4)
    BY <1>2 DEF LifeInv, FrameRuns
  <2>2. call = "stop" <=> engineState = 4
    BY <1>1 DEF From, Call
  <2> QED
    BY <2>1, <2>2, ConstantsAssumption DEF LifeInv, TypeOK
<1>13. FrameRuns'
  <2>1. \A t \in Live' : t.job # "halt" /\ t.job # "halting"
    BY <1>6, IdleIsNone DEF JobIn
  <2> QED
    BY <1>1, <1>6, <1>12, <2>1 DEF FrameRuns
<1> QED
  BY <1>6, <1>7, <1>8, <1>9, <1>11, <1>13 DEF LifeInv

LEMMA AwaitInv ==
  ASSUME LifeInv, WaitsForSubModules, Await
  PROVE  LifeInv'
<1>1. /\ main.pending = <<>> /\ main.round \in DOMAIN Rounds(main.call)
      /\ counter = Rounds(main.call)[main.round].expect
      /\ main' = Entered(main.call, main.round + 1) /\ counter' = 0
      /\ UNCHANGED <<engineState, subModules, status, scheduler, queue, worker, pipeline, aborted>>
  BY DEF Await
<1>2. PICK c, r, e : c = main.call /\ r = main.round /\ e = engineState
  OBVIOUS
<1>3. c \in Call /\ r \in 1 .. LastRound(c)
  <2>1. c \in Call \cup {"none"}
    BY <1>2 DEF LifeInv, TypeOK
  <2>2. r \in 1 .. LastRound(c) /\ LastRound(c) \in 0 .. 3
    BY <1>1, <1>2, <2>1, RoundsLength
  <2>3. c # "none"
    BY <2>2 DEF LastRound
  <2> QED
    BY <2>1, <2>2, <2>3
<1>4. LastRound(c) \in 0 .. 3 /\ r \in Nat /\ r + 1 \in 1 .. LastRound(c) + 1 /\ r + 1 # 1
  BY <1>3, RoundsLength
<1>5. counter = Size(c, r)
  <2>1. Rounds(c)[r].expect = IF c = "init" /\ r = 2 THEN SubModulesExpected ELSE Size(c, r)
    BY <1>3, RoundTasks DEF LifeInv
  <2>2. CASE c = "init" /\ r = 2
    <3>1. Size(c, r) = 1
      BY <2>2 DEF Size, LastRound
    <3>2. counter \in Nat /\ InHand(queue, worker, c) \in Nat
      <4>1. PICK q \in Seq(Task) : q = queue
        BY DEF LifeInv, TypeOK
      <4>2. CountIn(q, c) \in Nat
        BY PlacesFinite
      <4> QED
        BY <4>1, <4>2 DEF InHand, Holds, LifeInv, Counted
    <3>3. counter + 0 + InHand(queue, worker, c) = 1
      BY <1>1, <1>2, <3>1 DEF LifeInv, Counted
    <3>4. counter <= 1
      BY <3>2, <3>3
    <3>5. SubModulesExpected \in Nat /\ SubModulesExpected >= 1
      BY ConstantsAssumption DEF WaitsForSubModules, SubModulesExpected
    <3> QED
      BY <1>1, <1>2, <2>1, <2>2, <3>1, <3>2, <3>4, <3>5
  <2>3. CASE ~(c = "init" /\ r = 2)
    BY <1>1, <1>2, <2>1, <2>3
  <2> QED
    BY <2>2, <2>3
<1>6. \A t \in Live : t = StageTask
  BY <1>1, <1>2, <1>5, NoneLeft
<1>7. /\ main' \in [call : Call \cup {"none"}, round : 0 .. 4, pending : Seq(Task)]
      /\ main'.call = c /\ main'.round = r + 1
      /\ Counted' /\ OwnedBy' /\ Visited' /\ Staged'
      /\ \A t \in Live' : t = StageTask \/ t.job = JobIn(c, r + 1)
  <2>1. PICK s \in 1 .. LastRound(c) + 1 : s = r + 1
    BY <1>4
  <2> QED
    BY <1>1, <1>2, <1>3, <1>6, <2>1, RoundBegins DEF pipeline
<1>8. \A m \in Target(subModules, c, r) : status[m] = Done(c)
  <2>1. ASSUME NEW t \in Live PROVE ToSet(t.todo) = {}
    BY <1>6, IdleIsNone, EmptyHolds
  <2> QED
    BY <1>2, <2>1 DEF LifeInv, Visited
<1>9. TypeOK'
  BY <1>1, <1>7, ConstantsAssumption DEF LifeInv, TypeOK, pipeline
<1>10. Backwards'
  <2>1. c = "shutdown" /\ r = 1 => counter = 1
    BY <1>5 DEF Size, LastRound
  <2>2. c = "shutdown" => r = 1 \/ r > 1
    BY <1>3, <1>4
  <2>3. Editor /\ c = "shutdown" => subModules = <<>>
    BY <1>2, <2>1, <2>2 DEF LifeInv, Backwards
  <2> QED
    BY <1>1, <1>4, <1>7, <2>3 DEF Backwards
<1>11. ModulesAre'
  <2>1. ASSUME NEW m \in CoreModule PROVE status[m] \in CoreHas(e, c, r + 1)
    <3>1. status[m] \in CoreHas(e, c, r)
      BY <1>2 DEF LifeInv, ModulesAre
    <3>2. VisitsCore(c, r) => status[m] = Done(c)
      BY <1>8 DEF Target
    <3> QED
      BY <1>3, <3>1, <3>2, StatesNext
  <2>2. ASSUME NEW m \in ToSet(subModules) PROVE status[m] \in SubHas(e, c, r + 1)
    <3>1. status[m] \in SubHas(e, c, r)
      BY <1>2 DEF LifeInv, ModulesAre
    <3>2. VisitsSub(c, r) => ~VisitsCore(c, r)
      BY JobsDone
    <3>3. VisitsSub(c, r) => status[m] = Done(c)
      BY <1>8, <3>2 DEF Target
    <3> QED
      BY <1>3, <3>1, <3>3, StatesNext
  <2>3. c # "none"
    BY <1>3 DEF Call
  <2> QED
    BY <1>1, <1>2, <1>7, <2>1, <2>2, <2>3 DEF LifeInv, ModulesAre
<1>12. CallsFit'
  BY <1>1, <1>2, <1>3, <1>4, <1>7 DEF LifeInv, CallsFit, Call
<1>13. FrameRuns'
  <2>1. UNCHANGED <<frame, stopping>>
    BY <1>1 DEF pipeline
  <2>2. frame \in Nat /\ stopping \in BOOLEAN
    BY ConstantsAssumption DEF LifeInv, TypeOK
  <2>3. ~stopping
    <3>1. c = "stop" /\ r = 3 => frame = 0
      <4>1. c = "stop" /\ r = 3 => counter = 1
        BY <1>5 DEF Size, LastRound
      <4> QED
        BY <1>2, <4>1 DEF LifeInv, FrameRuns
    <3> QED
      BY <1>2, <2>2, <3>1 DEF LifeInv, FrameRuns
  <2>4. c = "start" => frame > 0
    <3>1. c = "start" /\ r = 1 => counter = 1
      BY <1>5 DEF Size, LastRound
    <3>2. r = 1 \/ r > 1
      BY <1>3, <1>4
    <3> QED
      BY <1>2, <3>1, <3>2 DEF LifeInv, FrameRuns
  <2>5. c = "stop" => r \in {1, 2, 3} /\ (r < 3 => frame > 0) /\ (r = 3 => frame = 0)
    <3>1. c = "stop" /\ r = 3 => counter = 1
      BY <1>5 DEF Size, LastRound
    <3>2. c = "stop" => r \in {1, 2, 3}
      BY <1>3 DEF LastRound
    <3> QED
      BY <1>2, <3>1, <3>2 DEF LifeInv, FrameRuns
  <2>6. c \notin {"start", "stop"} => frame = 0
    BY <1>2, <1>3 DEF LifeInv, FrameRuns, Call
  <2>7. \A t \in Live' : /\ t.job = "halt" => frame > 0 /\ ~stopping
                         /\ t.job # "halting"
    <3> SUFFICES ASSUME NEW t \in Live' PROVE /\ t.job = "halt" => frame > 0 /\ ~stopping
                                              /\ t.job # "halting"
      OBVIOUS
    <3>1. t.job = "stage" \/ t.job = JobIn(c, r + 1)
      BY <1>7, IdleIsNone
    <3>2. t.job # "halting"
      BY <3>1 DEF JobIn
    <3>3. t.job = "halt" => c = "stop" /\ r = 2
      BY <1>4, <3>1 DEF JobIn
    <3> QED
      BY <2>3, <2>5, <3>2, <3>3
  <2>8. c = "start" => r + 1 > 1
    BY <1>3, <1>4
  <2> QED
    BY <1>1, <1>3, <1>7, <2>1, <2>2, <2>3, <2>4, <2>5, <2>6, <2>7, <2>8 DEF FrameRuns, Call
<1> QED
  BY <1>7, <1>9, <1>10, <1>11, <1>12, <1>13 DEF LifeInv
------------------------------------------------------------------------------
\* A call returns.
LEMMA Returning ==
  ASSUME LifeInv, NEW call \in Call, Finished(call)
  PROVE  /\ main.call = call /\ main.round = LastRound(call) + 1 /\ counter = 0
         /\ \A t \in Live : t = StageTask
<1>1. PICK r : r = main.round
  OBVIOUS
<1>2. main.call = call /\ r > LastRound(call)
  BY <1>1, RoundsLength DEF Finished
<1>3. call # "none" /\ LastRound(call) \in 0 .. 3
  BY RoundsLength DEF Call
<1>4. r \in 1 .. LastRound(call) + 1
  BY <1>1, <1>2, <1>3 DEF LifeInv, CallsFit
<1>5. r = LastRound(call) + 1
  BY <1>2, <1>3, <1>4
<1>6. Size(call, r) = 0
  BY <1>5, NoRound
<1>7. counter = 0 /\ main.pending = <<>>
  <2>1. PICK q \in Seq(Task) : q = queue
    BY DEF LifeInv, TypeOK
  <2>2. CountIn(q, call) \in Nat
    BY PlacesFinite
  <2>3. PICK k \in Nat, l \in Nat, n \in Nat :
            k = InHand(queue, worker, call) /\ l = Len(main.pending) /\ n = counter
    BY <2>1, <2>2 DEF InHand, Holds, LifeInv, TypeOK, Counted
  <2>4. n + l + k = 0
    BY <1>1, <1>2, <1>6, <2>3 DEF LifeInv, Counted
  <2>5. counter = 0 /\ Len(main.pending) = 0
    BY <2>3, <2>4
  <2> QED
    BY <2>5, EmptySeq DEF LifeInv, TypeOK
<1> QED
  BY <1>1, <1>2, <1>5, <1>6, <1>7, NoneLeft

LEMMA QuietAgain ==
  ASSUME LifeInv, \A t \in Live : t = StageTask, counter = 0, main' = Quiet, UNCHANGED counter,
         Live' \subseteq Live, queue' \in Seq(Task)
  PROVE  /\ \A t \in Live' : t = StageTask
         /\ Quiet \in [call : Call \cup {"none"}, round : 0 .. 4, pending : Seq(Task)]
         /\ Counted' /\ OwnedBy' /\ Visited' /\ Backwards'
<1>1. /\ Quiet.call = "none" /\ Quiet.round = 0 /\ Quiet.pending = <<>>
      /\ Quiet \in [call : Call \cup {"none"}, round : 0 .. 4, pending : Seq(Task)]
  BY DEF Quiet
<1>2. \A t \in Live' : t = StageTask
  OBVIOUS
<1>3. Counted'
  <2>1. PICK q \in Seq(Task) : q = queue'
    OBVIOUS
  <2>2. \A t \in ToSet(q) : t \in Live'
    BY <2>1 DEF Live
  <2>3. CountIn(q, "none") = 0
    BY <1>2, <2>2, CountNone, IdleIsNone
  <2>4. Holds(worker', "none") = 0
    BY <1>2, IdleIsNone DEF Holds, Live
  <2>5. Size("none", 0) = 0
    BY DEF Size, LastRound
  <2> QED
    BY <1>1, <2>1, <2>3, <2>4, <2>5 DEF Counted, InHand
<1>4. OwnedBy'
  <2>1. \A t \in ToSet(main'.pending) : FALSE
    BY <1>1, EmptyHolds
  <2> QED
    BY <1>2, <2>1, IdleIsNone DEF OwnedBy
<1>5. Visited'
  <2>1. Target(subModules', main'.call, main'.round) = {}
    BY <1>1 DEF Target, VisitsCore, VisitsSub
  <2> QED
    BY <2>1 DEF Visited
<1>6. Backwards'
  BY <1>1 DEF Backwards
<1> QED
  BY <1>1, <1>2, <1>3, <1>4, <1>5, <1>6

LEMMA ReturnInv ==
  ASSUME LifeInv, NEW call \in Call, Return(call)
  PROVE  LifeInv'
<1>1. /\ call \notin {"shutdown", "exit"} /\ Finished(call) /\ main' = Quiet /\ engineState' = To(call)
      /\ UNCHANGED <<counter, subModules, status, scheduler, queue, worker, pipeline, aborted>>
  BY DEF Return
<1>2. /\ main.call = call /\ main.round = LastRound(call) + 1 /\ counter = 0
      /\ \A t \in Live : t = StageTask
  BY <1>1, Returning
<1>3. Live' \subseteq Live
  BY <1>1, EmptyHolds DEF Live, Quiet
<1>4. queue' \in Seq(Task)
  BY <1>1 DEF LifeInv, TypeOK
<1>5. /\ \A t \in Live' : t = StageTask
      /\ main' \in [call : Call \cup {"none"}, round : 0 .. 4, pending : Seq(Task)]
      /\ Counted' /\ OwnedBy' /\ Visited' /\ Backwards'
  BY <1>1, <1>2, <1>3, <1>4, QuietAgain
<1>6. PICK r, e, n : r = main.round /\ e = engineState /\ n = To(call)
  OBVIOUS
<1>7. /\ CoreHas(e, call, r) \subseteq Between(n) /\ SubHas(e, call, r) \subseteq Between(n)
      /\ n \in 0 .. 4
      /\ n = 3 => \E s \in {"setup", "stopped"} : CoreHas(e, call, r) = {s} /\ SubHas(e, call, r) = {s}
  BY <1>1, <1>2, <1>6, StatesReturned
<1>8. main'.call = "none" /\ engineState' = n
  BY <1>1, <1>6 DEF Quiet
<1>9. TypeOK'
  BY <1>1, <1>5, <1>7, <1>8 DEF LifeInv, TypeOK, pipeline
<1>10. Staged'
  BY <1>1 DEF LifeInv, Staged, pipeline
<1>11. ModulesAre'
  <2>1. \A k : CoreHas(n, "none", k) = Between(n) /\ SubHas(n, "none", k) = Between(n)
    BY DEF CoreHas, SubHas
  <2>2. /\ \A m \in CoreModule : status[m] \in CoreHas(e, call, r)
        /\ \A m \in ToSet(subModules) : status[m] \in SubHas(e, call, r)
        /\ \A m \in SubModule \ ToSet(subModules) : status[m] \in {"none", "destroyed"}
    BY <1>2, <1>6 DEF LifeInv, ModulesAre
  <2>3. n = 3 => All({"setup"}) \/ All({"stopped"})
    <3> SUFFICES ASSUME n = 3 PROVE All({"setup"}) \/ All({"stopped"})
      OBVIOUS
    <3>1. PICK s \in {"setup", "stopped"} : CoreHas(e, call, r) = {s} /\ SubHas(e, call, r) = {s}
      BY <1>7
    <3> QED
      BY <2>2, <3>1 DEF All, Present
  <2>4. (All({"setup"}) => All({"setup"})') /\ (All({"stopped"}) => All({"stopped"})')
    BY <1>1 DEF All, Present
  <2> QED
    BY <1>1, <1>7, <1>8, <2>1, <2>2, <2>3, <2>4 DEF ModulesAre
<1>12. CallsFit'
  <2>1. scheduler <=> call \in {"init", "postInit", "start", "stop", "shutdown"}
    BY <1>2 DEF LifeInv, CallsFit, Call
  <2>2. n >= 2 <=> call \in {"init", "postInit", "start", "stop"}
    BY <1>1, <1>6 DEF To, Call
  <2> QED
    BY <1>1, <1>8, <2>1, <2>2 DEF CallsFit
<1>13. FrameRuns'
  <2>1. \A t \in Live' : t.job # "halt" /\ t.job # "halting"
    BY <1>5, IdleIsNone
  <2>2. call = "start" \/ call = "stop" => main.round = 4
    BY <1>2 DEF LastRound
  <2>3. UNCHANGED <<frame, stopping>>
    BY <1>1 DEF pipeline
  <2>4. ~stopping
    BY <1>2, <2>2 DEF LifeInv, FrameRuns
  <2>5. n = 4 <=> call = "start"
    BY <1>1, <1>6 DEF To, Call
  <2>6. frame > 0 <=> call = "start"
    <3>1. frame \in Nat
      BY ConstantsAssumption DEF LifeInv, TypeOK
    <3>2. CASE call = "start"
      BY <1>2, <2>2, <3>2 DEF LifeInv, FrameRuns
    <3>3. CASE call = "stop"
      BY <1>2, <2>2, <3>1, <3>3 DEF LifeInv, FrameRuns
    <3>4. CASE call \notin {"start", "stop"}
      BY <1>2, <3>1, <3>4 DEF LifeInv, FrameRuns, Call
    <3> QED
      BY <3>2, <3>3, <3>4
  <2> QED
    BY <1>8, <2>1, <2>3, <2>4, <2>5, <2>6 DEF FrameRuns
<1> QED
  BY <1>5, <1>9, <1>10, <1>11, <1>12, <1>13 DEF LifeInv

\* What is said of the end of the scheduler: it has nothing left to do.
LEMMA NothingLeft ==
  ASSUME LifeInv, Finished("shutdown")
  PROVE  queue = <<>> /\ frame = 0
<1>1. main.call = "shutdown" /\ \A t \in Live : t = StageTask
  BY Returning DEF Call
<1>2. frame = 0
  BY <1>1 DEF LifeInv, FrameRuns
<1>3. PICK q \in Seq(Task) : q = queue
  BY DEF LifeInv, TypeOK
<1>4. CountIn(q, "pipeline") \in Nat /\ Holds(worker, "pipeline") \in {0, 1}
  BY PlacesFinite DEF Holds
<1>5. CountIn(q, "pipeline") = 0
  BY <1>2, <1>3, <1>4 DEF LifeInv, Staged, InHand
<1>6. \A t \in ToSet(q) : t.of # "pipeline"
  BY <1>5, CountNone
<1>7. \A t \in ToSet(q) : t.of = "pipeline"
  BY <1>1, <1>3, IdleIsNone DEF Live
<1> QED
  BY <1>2, <1>3, <1>6, <1>7, HoldsNothing

LEMMA ReturnShutdownInv ==
  ASSUME LifeInv, ReturnShutdown
  PROVE  LifeInv'
<1>1. /\ Finished("shutdown") /\ worker = Idle /\ main' = Quiet /\ engineState' = 1
      /\ scheduler' = FALSE /\ queue' = <<>> /\ frame' = 0 /\ stopping' = FALSE /\ starts' = 0
      /\ UNCHANGED <<counter, subModules, status, worker, aborted>>
  BY DEF ReturnShutdown, To
<1>2. /\ main.call = "shutdown" /\ main.round = LastRound("shutdown") + 1 /\ counter = 0
      /\ \A t \in Live : t = StageTask
  BY <1>1, Returning DEF Call
<1>3. Live' = {}
  BY <1>1, EmptyHolds DEF Live, Quiet
<1>4. queue' \in Seq(Task)
  BY <1>1
<1>5. /\ main' \in [call : Call \cup {"none"}, round : 0 .. 4, pending : Seq(Task)]
      /\ Counted' /\ OwnedBy' /\ Visited' /\ Backwards'
  BY <1>1, <1>2, <1>3, <1>4, QuietAgain
<1>6. PICK r, e : r = main.round /\ e = engineState
  OBVIOUS
<1>7. CoreHas(e, "shutdown", r) \subseteq Between(1) /\ SubHas(e, "shutdown", r) \subseteq Between(1)
  BY <1>2, <1>6, StatesReturned DEF To, Call
<1>8. main'.call = "none"
  BY <1>1 DEF Quiet
<1>9. TypeOK'
  <2>1. scheduler' \in BOOLEAN /\ stopping' \in BOOLEAN
    BY <1>1
  <2>2. starts' \in 0 .. MaxStarts /\ frame' \in 0 .. MaxStage /\ engineState' \in 0 .. 4
    BY <1>1, ConstantsAssumption
  <2> QED
    BY <1>1, <1>4, <1>5, <2>1, <2>2 DEF LifeInv, TypeOK
<1>10. Staged'
  <2>1. PICK q \in Seq(Task) : q = <<>>
    BY <1>4, <1>1
  <2>2. CountIn(q, "pipeline") = 0
    BY <2>1, EmptyHolds, CountNone
  <2> QED
    BY <1>1, <2>1, <2>2 DEF Staged, InHand, Holds
<1>11. ModulesAre'
  <2>1. \A k : CoreHas(1, "none", k) = Between(1) /\ SubHas(1, "none", k) = Between(1)
    BY DEF CoreHas, SubHas
  <2> QED
    BY <1>1, <1>2, <1>6, <1>7, <1>8, <2>1 DEF LifeInv, ModulesAre
<1>12. CallsFit'
  BY <1>1, <1>8 DEF CallsFit
<1>13. FrameRuns'
  BY <1>1, <1>3, <1>8 DEF FrameRuns
<1> QED
  BY <1>5, <1>9, <1>10, <1>11, <1>12, <1>13 DEF LifeInv

LEMMA ReturnExitInv ==
  ASSUME LifeInv, ReturnExit
  PROVE  LifeInv'
<1>1. /\ Finished("exit") /\ main' = Quiet /\ aborted' = (subModules # <<>>)
      /\ UNCHANGED <<counter, subModules, scheduler, queue, worker, pipeline>>
  BY DEF ReturnExit
<1>2. /\ main.call = "exit" /\ counter = 0 /\ \A t \in Live : t = StageTask
  BY <1>1, Returning DEF Call
<1>3. engineState = 1 /\ ~scheduler /\ ~stopping /\ frame = 0
  BY <1>2 DEF LifeInv, CallsFit, FrameRuns, From
<1>4. Live' \subseteq Live
  BY <1>1, EmptyHolds DEF Live, Quiet
<1>5. queue' \in Seq(Task)
  BY <1>1 DEF LifeInv, TypeOK
<1>6. /\ \A t \in Live' : t = StageTask
      /\ main' \in [call : Call \cup {"none"}, round : 0 .. 4, pending : Seq(Task)]
      /\ Counted' /\ OwnedBy' /\ Visited' /\ Backwards'
  BY <1>1, <1>2, <1>4, <1>5, QuietAgain
<1>7. main'.call = "none"
  BY <1>1 DEF Quiet
<1>8. \/ subModules # <<>> /\ engineState' = 1 /\ status' = status
      \/ subModules = <<>> /\ engineState' = 0 /\ status' = [m \in Module |-> "none"]
  BY <1>1, <1>3 DEF ReturnExit, To
<1>9. TypeOK'
  <2>1. aborted' \in BOOLEAN
    BY <1>1
  <2>2. engineState' \in 0 .. 4
        /\ status' \in [Module -> {"none", "created", "setup", "started", "stopped", "destroyed"}]
    BY <1>8 DEF LifeInv, TypeOK
  <2> QED
    BY <1>1, <1>5, <1>6, <2>1, <2>2 DEF LifeInv, TypeOK, pipeline
<1>10. Staged'
  BY <1>1 DEF LifeInv, Staged, pipeline
<1>11. ModulesAre'
  <2>1. \A n, k : CoreHas(n, "none", k) = Between(n) /\ SubHas(n, "none", k) = Between(n)
    BY DEF CoreHas, SubHas
  <2>2. Between(0) = {"none"} /\ Between(1) = Low
    BY DEF Between
  <2>3. CASE subModules # <<>>
    <3>1. \A k : CoreHas(engineState, "exit", k) = Low /\ SubHas(engineState, "exit", k) = Low
      BY DEF CoreHas, SubHas
    <3> QED
      BY <1>1, <1>2, <1>7, <1>8, <2>1, <2>2, <2>3, <3>1 DEF LifeInv, ModulesAre
  <2>4. CASE subModules = <<>>
    <3>1. CoreModule \subseteq Module /\ SubModule \subseteq Module
      BY DEF Module
    <3>2. ToSet(subModules') = {}
      BY <1>1, <2>4, EmptyHolds
    <3>3. \A m \in Module : status'[m] = "none"
      BY <1>8, <2>4
    <3>4. engineState' = 0
      BY <1>8, <2>4
    <3> QED
      BY <1>7, <2>1, <2>2, <3>1, <3>2, <3>3, <3>4 DEF ModulesAre
  <2> QED
    BY <2>3, <2>4
<1>12. CallsFit'
  BY <1>1, <1>3, <1>7, <1>8 DEF CallsFit
<1>13. FrameRuns'
  BY <1>1, <1>3, <1>6, <1>7, <1>8, IdleIsNone DEF FrameRuns, pipeline
<1> QED
  BY <1>6, <1>9, <1>10, <1>11, <1>12, <1>13 DEF LifeInv
------------------------------------------------------------------------------
LEMMA LifeInit == Init => LifeInv
<1> SUFFICES ASSUME Init PROVE LifeInv
  OBVIOUS
<1>1. /\ engineState = 0 /\ main = Quiet /\ counter = 0 /\ subModules = <<>>
      /\ status = [m \in Module |-> "none"] /\ scheduler = FALSE /\ queue = <<>> /\ worker = Idle
      /\ frame = 0 /\ stopping = FALSE /\ starts = 0 /\ aborted = FALSE
  BY DEF Init
<1>2. /\ main.call = "none" /\ main.round = 0 /\ main.pending = <<>>
      /\ main \in [call : Call \cup {"none"}, round : 0 .. 4, pending : Seq(Task)]
  BY <1>1 DEF Quiet
<1>3. PICK q \in Seq(Task) : q = queue /\ q = <<>>
  <2>1. queue \in Seq(Task)
    BY <1>1
  <2> QED
    BY <1>1, <2>1
<1>4. ToSet(q) = {} /\ Live = {}
  BY <1>1, <1>2, <1>3, EmptyHolds DEF Live
<1>5. \A o : InHand(queue, worker, o) = 0
  <2>1. \A o : CountIn(q, o) = 0
    BY <1>4, CountNone
  <2> QED
    BY <1>1, <1>3, <2>1 DEF InHand, Holds
<1>6. TypeOK
  <2>1. 0 \in 0 .. Len(SubModules) /\ subModules = SubSeq(SubModules, 1, 0)
    BY <1>1, ConstantsAssumption, SubSeqEmpty
  <2>2. scheduler \in BOOLEAN /\ stopping \in BOOLEAN /\ aborted \in BOOLEAN
    BY <1>1
  <2>3. /\ starts \in 0 .. MaxStarts /\ frame \in 0 .. MaxStage /\ engineState \in 0 .. 4
        /\ counter \in 0 .. Len(CoreModules) \cup {1}
    BY <1>1, ConstantsAssumption
  <2>4. status \in [Module -> {"none", "created", "setup", "started", "stopped", "destroyed"}]
    BY <1>1
  <2> QED
    BY <1>1, <1>2, <1>3, <2>1, <2>2, <2>3, <2>4 DEF TypeOK
<1>7. Counted
  <2>1. Size("none", 0) = 0
    BY DEF Size, LastRound
  <2> QED
    BY <1>1, <1>2, <1>5, <2>1 DEF Counted
<1>8. OwnedBy
  BY <1>2, <1>4, EmptyHolds DEF OwnedBy
<1>9. Visited
  BY <1>2 DEF Visited, Target, VisitsCore, VisitsSub
<1>10. Backwards /\ Staged
  BY <1>1, <1>2, <1>5 DEF Backwards, Staged
<1>11. ModulesAre
  <2>1. CoreHas(0, "none", 0) = {"none"} /\ SubHas(0, "none", 0) = {"none"}
    BY DEF CoreHas, SubHas, Between
  <2>2. CoreModule \subseteq Module /\ SubModule \subseteq Module /\ ToSet(subModules) = {}
    BY <1>1, EmptyHolds DEF Module
  <2> QED
    BY <1>1, <1>2, <2>1, <2>2 DEF ModulesAre
<1>12. CallsFit
  BY <1>1, <1>2 DEF CallsFit
<1>13. FrameRuns
  BY <1>1, <1>2, <1>4 DEF FrameRuns
<1> QED
  BY <1>6, <1>7, <1>8, <1>9, <1>10, <1>11, <1>12, <1>13 DEF LifeInv

LEMMA LifeUnchanged ==
  ASSUME LifeInv, UNCHANGED vars
  PROVE  LifeInv'
<1>1. UNCHANGED <<engineState, main, counter, subModules, status, scheduler, queue, worker,
                  frame, stopping, starts, aborted>>
  BY DEF vars, pipeline
<1>2. Live' = Live
  BY <1>1 DEF Live
<1>3. TypeOK'
  BY <1>1 DEF LifeInv, TypeOK
<1>4. Counted' /\ Staged'
  BY <1>1 DEF LifeInv, Counted, Staged
<1> QED
  BY <1>1, <1>2, <1>3, <1>4, Moved DEF pipeline

LEMMA LifeNext ==
  ASSUME LifeInv, WaitsForSubModules, [Next]_vars
  PROVE  LifeInv'
<1>1. ASSUME NEW call \in Call, Enter(call) PROVE LifeInv'
  BY <1>1, EnterInv
<1>2. ASSUME NEW call \in Call, Return(call) PROVE LifeInv'
  BY <1>2, ReturnInv
<1>3. CASE Exec
  BY <1>3, ExecInv
<1>4. CASE Await
  BY <1>4, AwaitInv
<1>5. CASE ReturnShutdown
  BY <1>5, ReturnShutdownInv
<1>6. CASE ReturnExit
  BY <1>6, ReturnExitInv
<1>7. CASE Pop
  BY <1>7, PopInv
<1>8. CASE Suspend
  BY <1>8, SuspendInv
<1>9. CASE Stage
  BY <1>9, StageInv
<1>10. CASE OnPipeline
  BY <1>10, RunInv, HaltInv, HaltAgainInv, HaltedInv DEF OnPipeline
<1>11. CASE Spin
  BY <1>11, LifeUnchanged DEF Spin
<1>12. ASSUME NEW job \in ModuleJob, OnModules(job) PROVE LifeInv'
  BY <1>12, VisitInv, SignalInv DEF OnModules
<1>13. CASE UNCHANGED vars
  BY <1>13, LifeUnchanged
<1> QED
  BY <1>1, <1>2, <1>3, <1>4, <1>5, <1>6, <1>7, <1>8, <1>9, <1>10, <1>11, <1>12, <1>13 DEF Next

\* The invariant of the life cycle, of an engine that waits for its sub modules.
THEOREM LifeTheorem ==
  ASSUME WaitsForSubModules
  PROVE  Spec => []LifeInv
<1>1. LifeInv /\ [Next]_vars => LifeInv'
  BY LifeNext
<1> QED
  BY <1>1, LifeInit, PTL DEF Spec

\* Type correctness: GameEngine and EditorEngine with their modules, the scheduler and
\* the pipeline keep to the states of the model, and no counter on the stack of a call
\* exceeds what the call waits for.
THEOREM LifeTypeCorrect ==
  ASSUME WaitsForSubModules
  PROVE  Spec => []TypeOK
<1>1. LifeInv => TypeOK
  BY DEF LifeInv
<1> QED
  BY <1>1, LifeTheorem, PTL

\* A call of the engine returns, or begins its next round, only when every task that
\* refers to its stack has ended: waitUntilAtomic() and waitOnAtomic() count them all.
THEOREM TasksTheorem ==
  ASSUME WaitsForSubModules
  PROVE  Spec => []TasksWithinCall
<1>1. LifeInv => TasksWithinCall
  <2> SUFFICES ASSUME LifeInv, NEW t \in ToSet(queue) \cup {worker}, t.of \in Call
               PROVE  t.of = main.call
    BY DEF TasksWithinCall
  <2>1. t # Idle
    BY IdleIsNone DEF Call
  <2>2. t \in Live /\ t # StageTask
    BY <2>1, IdleIsNone DEF Live, Call
  <2> QED
    BY <2>2 DEF LifeInv, OwnedBy, OfRound
<1> QED
  BY <1>1, LifeTheorem, PTL

\* When shutdown() destroys the scheduler its Schedule is empty: the counters have
\* reached what was expected, and stop() has left the pipeline halted.
THEOREM DroppedTheorem ==
  ASSUME WaitsForSubModules
  PROVE  Spec => NothingDropped
<1>1. LifeInv /\ [Next]_vars => [scheduler /\ ~scheduler' => queue = <<>>]_vars
  <2> SUFFICES ASSUME LifeInv, Next, scheduler, ~scheduler' PROVE queue = <<>>
    OBVIOUS
  <2>1. ReturnShutdown
    BY DEF Next, Enter, Return, Exec, Await, ReturnExit, Pop, Suspend, Stage, OnPipeline, Run, Halt,
           HaltAgain, Halted, Spin, vars, OnModules, Visit, Signal
  <2> QED
    BY <2>1, NothingLeft DEF ReturnShutdown
<1> QED
  BY <1>1, LifeTheorem, PTL DEF Spec, NothingDropped

\* Between two calls the state of the engine tells how far its modules and the pipeline
\* are, and sub modules are up, or started, only while all core modules are.
THEOREM ModulesTheorem ==
  ASSUME WaitsForSubModules
  PROVE  Spec => []ModulesFollowEngine
<1>1. LifeInv => StateTellsModules
  <2> DEFINE Told == CASE engineState = 0 -> All({"none"}) /\ ~scheduler
                       [] engineState = 1 -> All({"created", "destroyed"}) /\ ~scheduler
                       [] engineState = 2 -> All({"setup"}) /\ scheduler /\ frame = 0
                       [] engineState = 3 -> (All({"setup"}) \/ All({"stopped"})) /\ scheduler /\ frame = 0
                       [] engineState = 4 -> All({"started"}) /\ scheduler /\ frame > 0
  <2> SUFFICES ASSUME LifeInv, main = Quiet, ~aborted
               PROVE  Told
    BY DEF StateTellsModules
  <2>1. main.call = "none" /\ engineState \in 0 .. 4 /\ frame \in Nat
    BY ConstantsAssumption DEF LifeInv, TypeOK, Quiet
  <2>2. (scheduler <=> engineState >= 2) /\ (frame > 0 <=> engineState = 4)
    BY <2>1 DEF LifeInv, CallsFit, FrameRuns
  <2>3. engineState = 3 => All({"setup"}) \/ All({"stopped"})
    BY <2>1 DEF LifeInv, ModulesAre
  <2>4. All(Between(engineState))
    BY <2>1 DEF LifeInv, ModulesAre, All, Present, CoreHas, SubHas
  <2>5. CASE engineState = 0
    BY <2>2, <2>4, <2>5 DEF Between
  <2>6. CASE engineState = 1
    BY <2>2, <2>4, <2>6 DEF Between, Low
  <2>7. CASE engineState = 2
    BY <2>1, <2>2, <2>4, <2>7 DEF Between
  <2>8. CASE engineState = 3
    BY <2>1, <2>2, <2>3, <2>8
  <2>9. CASE engineState = 4
    BY <2>2, <2>4, <2>9 DEF Between
  <2> HIDE DEF Told
  <2> QED
    BY <2>1, <2>5, <2>6, <2>7, <2>8, <2>9
<1>2. LifeInv => SubModulesWithinCore
  <2> SUFFICES ASSUME LifeInv, NEW s \in SubModule, NEW m \in CoreModule,
                      status[s] \in {"setup", "started", "stopped"}
               PROVE  /\ status[m] \in {"setup", "started", "stopped"}
                      /\ status[s] = "started" => status[m] = "started"
    BY DEF SubModulesWithinCore
  <2>1. PICK c, r, e : c = main.call /\ r = main.round /\ e = engineState
    OBVIOUS
  <2>2. status[s] \in SubHas(e, c, r) /\ status[m] \in CoreHas(e, c, r)
    BY <2>1 DEF LifeInv, ModulesAre
  <2>3. r \in 0 .. 4 /\ e \in 0 .. 4 /\ c \in Call \cup {"none"}
    BY <2>1 DEF LifeInv, TypeOK
  <2>4. CASE c \in {"none", "preInit", "postInit", "exit"}
    BY <2>2, <2>3, <2>4 DEF CoreHas, SubHas, Between, Low, Ready
  <2>5. CASE c = "init"
    BY <2>2, <2>3, <2>5 DEF CoreHas, SubHas, Upto, Since, Low
  <2>6. CASE c = "start"
    BY <2>2, <2>3, <2>6 DEF CoreHas, SubHas, Upto, Since, Ready
  <2>7. CASE c = "stop"
    BY <2>2, <2>3, <2>7 DEF CoreHas, SubHas, Upto, Since
  <2>8. CASE c = "shutdown"
    BY <2>2, <2>3, <2>8 DEF CoreHas, SubHas, Upto, Since, Ready
  <2> QED
    BY <2>3, <2>4, <2>5, <2>6, <2>7, <2>8 DEF Call
<1> QED
  BY <1>1, <1>2, LifeTheorem, PTL DEF ModulesFollowEngine
==============================================================================
