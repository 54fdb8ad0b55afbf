-------------------------- MODULE MCEngineLifecycle --------------------------
(***************************************************************************)
(* Instances of EngineLifecycle for TLC.                                   *)
(***************************************************************************)
EXTENDS EngineLifecycle

ThreeCore == <<"c1", "c2", "c3">>
TwoSub == <<"s1", "s2">>
OneSub == <<"s1">>
==============================================================================
