---------------------------- MODULE SearchResults ----------------------------
(***************************************************************************)
(* What Collector and SearchPage have in common: the jobs on one page of   *)
(* LinkedIn's results, and what a reader may be given of them.             *)
(***************************************************************************)
EXTENDS Naturals, Sequences, SequencesExt

CONSTANTS
  Job,
  PageSize    \* _RESULTS_PER_PAGE

ASSUME PageSizeAssumption == PageSize \in Nat \ {0}

(* No job comes from elsewhere or twice, and those there are keep their order. *)
IsPartOf(part, list) ==
  /\ ToSet(part) \subseteq ToSet(list)
  /\ \A i, k \in DOMAIN part : i < k =>
       \E m, n \in DOMAIN list : m < n /\ list[m] = part[i] /\ list[n] = part[k]

(* Some of the jobs of a page, or all, or none. *)
Deliverable(list) == {part \in SeqOf(Job, PageSize) : IsPartOf(part, list)}
=============================================================================
