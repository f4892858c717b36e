------------------------------ MODULE Reports ------------------------------
(***************************************************************************)
(* What the reports of an account promise their reader, without scans,     *)
(* rows or scores: history/diff_engine.py, reporting/compiler.py and State *)
(* Update, taken together.  JobHistory is shown to implement this.         *)
(***************************************************************************)
CONSTANT Job

VARIABLES
  report,     \* the one published last
  reported,   \* the jobs that have been in a report
  announced   \* those tagged NEW in one, and not closed since

readerVars == <<report, reported, announced>>

Part == {"groups", "top", "new", "updated", "previously"}
Blank == [part \in Part |-> {}]
Shown == report["groups"] \cup report["top"]

Init == report = Blank /\ reported = {} /\ announced = {}

(* A report with at most one tag for each of its jobs and none for others:    *)
(* NEW for jobs that are no longer, or were never, announced; Previously      *)
(* Reported for jobs that have been reported; and no job under its department *)
(* unless it is new or updated.  Closed jobs are forgotten, and in no report. *)
Publish(closed) ==
  /\ report' \in [Part -> SUBSET Job]
  /\ report'["new"] \cup report'["updated"] \cup report'["previously"] \subseteq Shown'
  /\ report'["new"] \cap announced = {}
  /\ report'["new"] \cap report'["updated"] = {}
  /\ report'["previously"] \subseteq reported \ (report'["new"] \cup report'["updated"])
  /\ report'["groups"] \subseteq report'["new"] \cup report'["updated"]
  /\ closed \cap Shown' = {}
  /\ reported' = reported \cup Shown'
  /\ announced' = (announced \ closed) \cup report'["new"]

(* The next run begins. *)
PutAway == report' = Blank /\ UNCHANGED <<reported, announced>>

Next == PutAway \/ \E closed \in SUBSET Job : Publish(closed)

Spec == Init /\ [][Next]_readerVars
=============================================================================
