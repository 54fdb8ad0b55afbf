---------------------------- MODULE MCModuleOrder ----------------------------
(***************************************************************************)
(* The sub modules of the editor, as an instance of ModuleOrder for TLC.   *)
(***************************************************************************)
EXTENDS ModuleOrder

Nothing == [order |-> "none", required |-> FALSE]
Follows == [order |-> "successor", required |-> TRUE]

\* The sub modules of the editor.
EditorCore == {"Graphics", "Assets"}
EditorSub == {"Accel", "Reflow", "ActionManager", "EditorGraphicsIo", "Editor", "EditorUI"}
EditorFollows(m) ==
    CASE m \in {"Accel", "Reflow", "EditorGraphicsIo"} -> {"Graphics"}
      [] m = "Editor" -> {"ActionManager", "Assets", "Reflow"}
      [] m = "EditorUI" -> {"Editor"}
      [] OTHER -> {}
EditorDeclarations ==
    {[m \in EditorSub |-> [k \in EditorCore \cup EditorSub |->
        IF k \in EditorFollows(m) THEN Follows ELSE Nothing]]}
==============================================================================
