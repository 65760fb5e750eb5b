---------------------------- MODULE MCScheduler ----------------------------
(* Scheduler for TLC: the parameters are given in the .cfg. *)
EXTENDS Scheduler
=============================================================================
