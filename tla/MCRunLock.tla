----------------------------- MODULE MCRunLock -----------------------------
(* RunLock with its owners as model values. *)
EXTENDS RunLock
=============================================================================
