---------------------------- MODULE MCCatalogue ----------------------------
(* Two accounts that see the same two companies, with a job each.  One of   *)
(* the accounts has weights of its own.                                     *)
EXTENDS Catalogue, TLC

CONSTANTS a1, a2, c1, c2, j1, j2

CompanyOfJob     == j1 :> c1 @@ j2 :> c2
WeightsOfAccount == a1 :> "default" @@ a2 :> "own"

(* The two companies are alike, with their jobs. *)
Alike == {c1 :> c1 @@ c2 :> c2 @@ j1 :> j1 @@ j2 :> j2,
          c1 :> c2 @@ c2 :> c1 @@ j1 :> j2 @@ j2 :> j1}
=============================================================================
