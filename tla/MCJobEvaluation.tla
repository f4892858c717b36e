-------------------------- MODULE MCJobEvaluation --------------------------
(* Weights in the proportions of system.defaults.yaml, and weights that are  *)
(* all on the company, which may be Unrated.                                 *)
EXTENDS JobEvaluation

DefaultWeights == [department |-> 7, experience |-> 3, location |-> 2,
                   company |-> 5, career |-> 3]
CompanyOnly    == [c \in Component |-> IF c = "company" THEN 1 ELSE 0]
Either         == {DefaultWeights, CompanyOnly}
=============================================================================
