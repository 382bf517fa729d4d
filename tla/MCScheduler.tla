---------------------------- MODULE MCScheduler ----------------------------
(* Scheduler for TLC: the constants are model values and small sets, given  *)
(* by the configurations.                                                   *)
EXTENDS Scheduler
=============================================================================
