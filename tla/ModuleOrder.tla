------------------------------ MODULE ModuleOrder ------------------------------
(***************************************************************************)
(* Engine.Core/Module/Modules: the list of the sub modules of an engine.   *)
(*                                                                         *)
(* The engine sets up, starts and destroys its sub modules in the order of *)
(* this list.  A sub module declares, for the keys of other modules, that  *)
(* it is their predecessor or their successor, and addSubModule() puts it  *)
(* into the list without ever moving a module that is already there.  Core *)
(* modules are not in the list: they come before all sub modules.          *)
(*                                                                         *)
(* What every possible sub module declares is fixed at the beginning; it   *)
(* has one declaration for a key.  The key of a module stands for the      *)
(* module.                                                                 *)
(***************************************************************************)
EXTENDS Naturals, Sequences, SequencesExt, FiniteSetsExt

CONSTANTS
    CoreKey,        \* the keys of the core modules
    SubKey,         \* the keys of the sub modules that may be added
    Declarations    \* what the sub modules may declare, see Declaration

Order == {"predecessor", "successor"}

\* For every sub module and every key what it declares: how it is ordered to
\* that module, if it is, and whether it requires it.
Declaration ==
    [SubKey -> [CoreKey \cup SubKey -> [order : Order \cup {"none"}, required : BOOLEAN]]]

ASSUME KeysAssumption == CoreKey \cap SubKey = {} /\ Declarations \subseteq Declaration

VARIABLES
    deps,       \* SubModule::dependencies() of every sub module
    subModules, \* Modules::_subModules
    known       \* history, known[m]: the sub modules that were there when m was
                \* added and that have been there since

orderVars == <<deps, subModules, known>>

OrderTypeOK ==
    /\ deps \in Declaration
    /\ subModules \in Seq(SubKey) /\ IsInjective(subModules)
    /\ known \in [SubKey -> SUBSET SubKey]

NoneAdded ==
    /\ subModules = <<>>
    /\ known = [m \in SubKey |-> {}]

OrderInit == deps \in Declarations /\ NoneAdded
------------------------------------------------------------------------------
\* Definitions marked "Faulty" are not part of the model, see CompositePipeline.

\* validateDependency(): nothing may precede a core module.
validateDependency(m, k) ==
    k \in CoreKey => deps[m][k].order # "predecessor"

\* The sub modules of the list that have to be in front of m, and behind it: by
\* what m declares, and by what they declare.
Predecessors(m) ==
    {k \in ToSet(subModules) :
        deps[m][k].order = "successor" \/ deps[k][m].order = "predecessor"}
Successors(m) ==
    {k \in ToSet(subModules) :
        deps[m][k].order = "predecessor" \/ deps[k][m].order = "successor"}

Rejects(m) ==
    \/ \E k \in CoreKey \cup SubKey : ~validateDependency(m, k)
    \/ Predecessors(m) \cap Successors(m) # {}

\* Faulty Place: in front of the last predecessor.
PlaceInFront(m) ==
    IF Predecessors(m) = {} THEN 1
    ELSE Max({i \in DOMAIN subModules : subModules[i] \in Predecessors(m)})

\* Directly behind the last of its predecessors, or at the very front.
Place(m) ==
    IF Predecessors(m) = {} THEN 1
    ELSE Max({i \in DOMAIN subModules : subModules[i] \in Predecessors(m)}) + 1

\* A sub module that is there already (eFailedUnique) or is rejected
\* (eFailedOrder) leaves the list as it is; any other is added (eSuccess).
addSubModule(m) ==
    /\ m \notin ToSet(subModules)
    /\ ~Rejects(m)
    /\ subModules' = InsertAt(subModules, Place(m), m)
    /\ known' = [known EXCEPT ![m] = ToSet(subModules)]
    /\ UNCHANGED deps

removeSubModule(m) ==
    /\ \E i \in DOMAIN subModules :
        subModules[i] = m /\ subModules' = RemoveAt(subModules, i)
    /\ known' = [k \in SubKey |-> IF k = m THEN {} ELSE known[k] \ {m}]
    /\ UNCHANGED deps

OrderNext == \E m \in SubKey : addSubModule(m) \/ removeSubModule(m)

OrderSpec == OrderInit /\ [][OrderNext]_orderVars

\* validate(): every module that is required is there.
validate ==
    \A m \in ToSet(subModules) : \A k \in CoreKey \cup SubKey :
        deps[m][k].required => k \in CoreKey \cup ToSet(subModules)
------------------------------------------------------------------------------
\* a is declared, by either of the two, to be in front of b.
Declares(a, b) == deps[a][b].order = "predecessor" \/ deps[b][a].order = "successor"

\* Safety.  A sub module stands in front of one that has to be in front of it
\* only if it was there first: if each module is added after all it has to follow,
\* the list is in order, whatever else is added or removed in between.
OrderedIfAddedInOrder ==
    \A i, j \in DOMAIN subModules :
        i < j /\ Declares(subModules[j], subModules[i])
            => subModules[i] \in known[subModules[j]]

\* Safety.  The list is in the declared order.
InOrder ==
    \A i, j \in DOMAIN subModules :
        i < j => ~Declares(subModules[j], subModules[i])

\* Safety.  A list that validate() accepts is in the declared order.
ValidMeansOrdered == validate => InOrder
==============================================================================
