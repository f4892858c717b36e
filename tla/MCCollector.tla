---------------------------- MODULE MCCollector ----------------------------
(* Collector with jobs as model values. *)
EXTENDS Collector
=============================================================================
