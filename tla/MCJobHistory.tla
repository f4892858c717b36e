---------------------------- MODULE MCJobHistory ----------------------------
(* JobHistory with jobs and contents as model values. *)
EXTENDS JobHistory, TLC

JobsAndContents == Permutations(Job) \cup Permutations(Content)
=============================================================================
