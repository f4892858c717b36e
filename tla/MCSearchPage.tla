---------------------------- MODULE MCSearchPage ----------------------------
(* SearchPage with jobs as model values. *)
EXTENDS SearchPage
=============================================================================
