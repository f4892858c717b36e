---------------------------- MODULE MCBootstrap -----------------------------
(* Bootstrap with model values; keys are alike. *)
EXTENDS Bootstrap, TLC

Symmetry == Permutations(Key)
=============================================================================
