--------------------------- MODULE MCOrchestrator ---------------------------
(* Orchestrator with runs and jobs as model values. *)
EXTENDS Orchestrator, TLC

RunsAndJobs == Permutations(Run) \cup Permutations(Job)
=============================================================================
