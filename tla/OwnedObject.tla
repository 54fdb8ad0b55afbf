------------------------------ MODULE OwnedObject ------------------------------
(***************************************************************************)
(* What shared ownership promises: whoever holds the object may pass it    *)
(* on, it exists while anybody holds it, and it is destroyed once, after   *)
(* the last holder has let go of it.                                       *)
(***************************************************************************)
CONSTANT Handle

VARIABLES holders, exists

OwnedInit == (\E h \in Handle : holders = {h}) /\ exists = TRUE

\* A holder makes another handle hold the object, or hands it over.
Share == \E h \in holders, g \in Handle : holders' = holders \cup {g} /\ UNCHANGED exists

HandOver ==
    \E h \in holders, g \in Handle : holders' = (holders \ {h}) \cup {g} /\ UNCHANGED exists

LetGo == \E h \in holders : holders' = holders \ {h} /\ UNCHANGED exists

Destroy == holders = {} /\ exists /\ exists' = FALSE /\ UNCHANGED holders

OwnedNext == Share \/ HandOver \/ LetGo \/ Destroy

OwnedSpec == OwnedInit /\ [][OwnedNext]_<<holders, exists>>
================================================================================
