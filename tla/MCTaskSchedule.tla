---------------------------- MODULE MCTaskSchedule ----------------------------
(***************************************************************************)
(* An instance of TaskSchedule for TLC: two stages of which one suspends,  *)
(* a job of a higher priority that awaits its signal, one of the lowest    *)
(* priority that yields, and a poller.                                     *)
(***************************************************************************)
EXTENDS TaskSchedule

CONSTANTS s1, s2, wait, low, poll

MCChain == <<s1, s2>>
MCMask ==
    [t \in {s1, s2, wait, low, poll} |->
        CASE t = low -> {"lower"} [] t = wait -> {"higher"} [] OTHER -> {"normal"}]
===============================================================================
