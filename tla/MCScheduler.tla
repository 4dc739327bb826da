---------------------------- MODULE MCScheduler -----------------------------
(***************************************************************************)
(* Small instances of Scheduler for TLC.                                   *)
(***************************************************************************)
EXTENDS Scheduler

MCPriorities == {0, 10}
MCDelays     == {-1, 0, 2}
=============================================================================
