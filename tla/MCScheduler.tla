---------------------------- MODULE MCScheduler ----------------------------
(* Scheduler needs no more than the constants of its configurations. *)
EXTENDS Scheduler
=============================================================================
