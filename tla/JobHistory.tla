----------------------------- MODULE JobHistory -----------------------------
(***************************************************************************)
(* What the runs of an account, one after the other, make of the jobs they *)
(* see: history/diff_engine.py, the evaluation, closing, ranking and State *)
(* Update of run/orchestrator.py, ranking/ranker.py and the contents of    *)
(* reporting/compiler.py.  LinkedIn changes while a scan is under way; a   *)
(* run may fail before its final transaction, which Orchestrator shows to  *)
(* be one step.  Content stands for what the content hash is computed from *)
(* (normalization/normalizer.py); filters and model answer as they like.   *)
(***************************************************************************)
EXTENDS Naturals, FiniteSetsExt

CONSTANTS
  Job,
  Content,
  Gone,             \* a job that is not listed
  TopMatchesCount,  \* report_format_settings.top_matches_count
  MaxCount,         \* report_appearances_count is counted up to here
  MaxScore,         \* ai_match_score lies in 0..MaxScore
  NoScore,          \* or is None
  FaultSets         \* sets of what can happen besides: see ASSUME

ASSUME HistoryAssumption ==
  /\ Gone \notin Content
  /\ TopMatchesCount \in Nat
  /\ MaxCount \in Nat \ {0}
  /\ MaxScore \in Nat /\ NoScore \notin Nat
  /\ FaultSets \subseteq
       SUBSET {"lostCard",   \* a card is skipped: not extracted, or moved to a page read before
               "duplicate",  \* two searches find the same job
               "blacklist"}  \* the account's blacklist is changed between runs

VARIABLES
  site,       \* what LinkedIn lists of each job, followed while a scan goes on
  excluded,   \* the account's blacklist, as the jobs it names
  faults,     \* what can happen besides in this history
  rows,       \* evaluated_jobs, a function on the jobs that have a row
  phase,      \* of the current run
  scan,       \* current_scan by job: the posting kept and the hash kept
  lost,       \* the jobs listed in this scan without reaching it
  steady,     \* the jobs listed without a break since the scan began
  whole,      \* collection_result.is_complete
  report,     \* of the run that has just ended
  reported,   \* the jobs that have been in a report
  announced   \* the jobs tagged NEW in a report and not closed since

runVars == <<phase, scan, lost, steady, whole>>
reportVars == <<report, reported, announced>>
vars == <<site, excluded, faults, rows, runVars, reportVars>>

Status == {"New", "Seen", "Updated", "Closed", "Excluded"}

Score == 0..MaxScore \cup {NoScore}

Row == [status   : Status,
        hash     : Content,         \* content_hash_at_evaluation
        score    : Score,
        grouped  : BOOLEAN,         \* department_cluster is not None
        count    : 0..MaxCount]     \* report_appearances_count

Card == [shown : Content, hash : Content]
NoReport == [groups |-> {}, top |-> {}, new |-> {}, updated |-> {}, previously |-> {}]

TypeOK ==
  /\ site \in [Job -> Content \cup {Gone}]
  /\ excluded \in SUBSET Job /\ faults \in FaultSets
  /\ DOMAIN rows \subseteq Job /\ \A j \in DOMAIN rows : rows[j] \in Row
  /\ phase \in {"idle", "scan", "evaluate"}
  /\ DOMAIN scan \subseteq Job /\ \A j \in DOMAIN scan : scan[j] \in Card
  /\ lost \in SUBSET Job /\ steady \in SUBSET Job
  /\ whole \in BOOLEAN
  /\ report \in [DOMAIN NoReport -> SUBSET Job]
  /\ reported \in SUBSET Job
  /\ announced \in SUBSET reported

Unwatched == [j \in Job |-> Gone]
NoRows == [j \in {} |-> Gone]

(* A freshly seeded account, with nobody on its blacklist yet. *)
Init ==
  /\ site = Unwatched
  /\ excluded = {} /\ faults \in FaultSets
  /\ rows = NoRows
  /\ phase = "idle" /\ scan = NoRows /\ lost = {} /\ steady = {} /\ whole = FALSE
  /\ report = NoReport /\ reported = {} /\ announced = {}

Listed(j) == site[j] # Gone

-----------------------------------------------------------------------------
(* LinkedIn lists, changes or removes a job while the scan goes on. *)
SiteChanges(j) ==
  /\ phase = "scan"
  /\ \E c \in (Content \cup {Gone}) \ {site[j]} : site' = [site EXCEPT ![j] = c]
  /\ steady' = IF site'[j] = Gone THEN steady \ {j} ELSE steady
  /\ UNCHANGED <<excluded, faults, rows, phase, scan, lost, whole, reportVars>>

(* The account's blacklist, a part of user_profiles, is changed: it begins    *)
(* empty, and need not change again once it is filled.  A run works with what *)
(* load_account_context() read when it began, so a change during a run is one *)
(* made right after it.                                                       *)
Blacklist ==
  /\ "blacklist" \in faults /\ phase = "idle"
  /\ excluded' \in SUBSET Job \ {excluded}
  /\ UNCHANGED <<site, faults, rows, runVars, reportVars>>

(* Ready for the run's first query.  LinkedIn may have become anything since  *)
(* the last scan, which no run has seen.                                      *)
StartScan ==
  /\ phase = "idle"
  /\ phase' = "scan" /\ scan' = NoRows /\ lost' = {} /\ whole' = FALSE
  /\ site' \in [Job -> Content \cup {Gone}]
  /\ steady' = {j \in Job : Listed(j)'}
  /\ report' = NoReport
  /\ UNCHANGED <<excluded, faults, rows, reported, announced>>

(* A card is read and normalised.  Of a job found twice, diff_job_postings() *)
(* keeps the first posting, content_hash_by_job_id the last hash.            *)
ReadCard(j) ==
  /\ phase = "scan" /\ Listed(j)
  /\ j \in DOMAIN scan => "duplicate" \in faults
  /\ scan' = [i \in DOMAIN scan \cup {j} |->
                IF i # j THEN scan[i]
                ELSE [shown |-> IF j \in DOMAIN scan THEN scan[j].shown ELSE site[j],
                      hash  |-> site[j]]]
  /\ UNCHANGED <<site, excluded, faults, rows, phase, lost, steady, whole, reportVars>>

(* extract_records(): a card without, say, its description is skipped, and   *)
(* nothing of it is left for the rest of the run to see; nor is anything of  *)
(* a job that an answer lacks, an error for example (Collector!Delivered).   *)
LoseCard(j) ==
  /\ "lostCard" \in faults
  /\ phase = "scan" /\ Listed(j) /\ j \notin DOMAIN scan
  /\ lost' = lost \cup {j}
  /\ UNCHANGED <<site, excluded, faults, rows, phase, scan, steady, whole, reportVars>>

(* The queries are through, or were cut short (the subject of Collector): a  *)
(* complete scan has been delivered every job that was listed throughout.    *)
EndScan(complete) ==
  /\ phase = "scan"
  /\ complete => steady \subseteq DOMAIN scan \cup lost
  /\ phase' = "evaluate" /\ whole' = complete /\ site' = Unwatched
  /\ UNCHANGED <<excluded, faults, rows, scan, lost, steady, reportVars>>

FailRun ==
  /\ phase # "idle"
  /\ phase' = "idle" /\ scan' = NoRows /\ lost' = {} /\ steady' = {} /\ whole' = FALSE
  /\ site' = Unwatched
  /\ UNCHANGED <<excluded, faults, rows, reportVars>>

-----------------------------------------------------------------------------
(* _assign_status(), for the posting that is kept of the job. *)
AssignStatus(j, hash) ==
  IF j \notin DOMAIN rows \/ rows[j].status = "Closed" THEN "New"
  ELSE IF rows[j].hash # hash THEN "Updated" ELSE "Seen"

(* A slip: jobs are closed after an incomplete scan too. *)
NewlyClosedAnyScan == {j \in DOMAIN rows \ DOMAIN scan : rows[j].status # "Closed"}

(* The unseen jobs of the history, if the scan was complete. *)
NewlyClosed == {j \in DOMAIN rows \ DOMAIN scan : whole /\ rows[j].status # "Closed"}

(* A slip, once made (see the docstring of _reused_seen_job): the row is     *)
(* reused with the status it has.                                            *)
ReusedSeenJobAsIs(row) == row

ReusedSeenJob(row) == [row EXCEPT !.status = "Seen"]

(* What filters and model say of a job that is evaluated: a rejected job and *)
(* one that could not be scored have no score; the model may name no cluster. *)
Verdict == [score : Score, grouped : BOOLEAN]

(* The row of a job evaluated in this run. *)
Judged(j, status, verdict) ==
  [status |-> status, hash |-> scan[j].hash,
   score |-> verdict.score, grouped |-> verdict.grouped, count |-> 0]

(* _evaluate_new_or_updated_job(): the blacklist comes first. *)
Evaluation(j, status, verdict) ==
  IF j \in excluded
    THEN Judged(j, "Excluded", [score |-> NoScore, grouped |-> FALSE])
    ELSE Judged(j, status, verdict)

(* What the scan's jobs and the newly closed ones become: evaluated_jobs.     *)
EvaluatedJobs(verdicts) ==
  [j \in DOMAIN scan \cup NewlyClosed |->
     IF j \notin DOMAIN scan THEN [rows[j] EXCEPT !.status = "Closed"]
     ELSE IF AssignStatus(j, scan[j].shown) = "Seen" THEN ReusedSeenJob(rows[j])
     ELSE Evaluation(j, AssignStatus(j, scan[j].shown), verdicts[j])]

(* A slip: an updated job is not listed under its department. *)
GroupByDepartmentNewOnly(jobs) ==
  {j \in DOMAIN jobs : /\ jobs[j].status = "New"
                       /\ jobs[j].grouped /\ jobs[j].score # NoScore}

(* A slip: every open job is listed under its department again. *)
GroupByDepartmentAllOpen(jobs) ==
  {j \in DOMAIN jobs : /\ jobs[j].status \notin {"Closed", "Excluded"}
                       /\ jobs[j].grouped /\ jobs[j].score # NoScore}

(* group_by_department(), without the jobs compile_report() leaves out. *)
GroupByDepartment(jobs) ==
  {j \in DOMAIN jobs : /\ jobs[j].status \in {"New", "Updated"}
                       /\ jobs[j].grouped /\ jobs[j].score # NoScore}

Candidates(jobs) ==
  {j \in DOMAIN jobs : /\ jobs[j].status \notin {"Closed", "Excluded"}
                       /\ jobs[j].score # NoScore}

(* The possible results of rank_top_matches(): ties fall as they were scanned. *)
TopMatches(jobs) ==
  LET size == IF Cardinality(Candidates(jobs)) < TopMatchesCount
                THEN Cardinality(Candidates(jobs)) ELSE TopMatchesCount
  IN {top \in SUBSET Candidates(jobs) :
        /\ Cardinality(top) = size
        /\ \A j \in top, k \in Candidates(jobs) \ top :
             jobs[j].score >= jobs[k].score}

(* A slip: the appearances are counted before the report is compiled. *)
PreviouslyReportedAnySeen(row) == row.status = "Seen"

(* _is_previously_reported() *)
PreviouslyReported(row) == row.status = "Seen" /\ row.count > 0

(* compile_report(): what is in the report, and how it is tagged. *)
CompileReport(jobs, top) ==
  LET included == GroupByDepartment(jobs) \cup top
  IN [groups     |-> GroupByDepartment(jobs),
      top        |-> top,
      new        |-> {j \in included : jobs[j].status = "New"},
      updated    |-> {j \in included : jobs[j].status = "Updated"},
      previously |-> {j \in included : PreviouslyReported(jobs[j])}]

Included(r) == r.groups \cup r.top

Counted(row) ==
  [row EXCEPT !.count = IF @ < MaxCount THEN @ + 1 ELSE @]

(* State Update: what was processed is saved, with one more appearance for    *)
(* what the report includes.                                                  *)
Saved(jobs, included) ==
  [j \in DOMAIN rows \cup DOMAIN jobs |->
     IF j \in included THEN Counted(jobs[j])
     ELSE IF j \in DOMAIN jobs THEN jobs[j] ELSE rows[j]]

(* From the end of the evaluation to the final commit, with the evaluated     *)
(* jobs and the Top Matches the run came to.                                  *)
Finish(jobs, top) ==
  /\ phase = "evaluate"
  /\ report' = CompileReport(jobs, top)
  /\ rows' = Saved(jobs, Included(report'))
  /\ reported' = reported \cup Included(report')
  /\ announced' = (announced \ NewlyClosed) \cup report'.new
  /\ phase' = "idle" /\ scan' = NoRows /\ lost' = {} /\ steady' = {} /\ whole' = FALSE
  /\ UNCHANGED <<site, excluded, faults>>

FinishSome ==
  /\ phase = "evaluate"
  /\ \E jobs \in {EvaluatedJobs(verdicts) : verdicts \in [DOMAIN scan -> Verdict]} :
       \E top \in TopMatches(jobs) : Finish(jobs, top)

Next ==
  \/ \E j \in Job : SiteChanges(j) \/ ReadCard(j) \/ LoseCard(j)
  \/ Blacklist \/ StartScan \/ FailRun
  \/ \E complete \in BOOLEAN : EndScan(complete)
  \/ FinishSome

Spec == Init /\ [][Next]_vars
-----------------------------------------------------------------------------
RunEnds == phase = "evaluate" /\ phase' = "idle" /\ report' # report

(* FR-8, the Duplicate Rate of PRD 16.4: no job is tagged NEW twice, unless a *)
(* run has found it closed in between (EDGE-5), whatever runs failed.         *)
NewIsToldOnce == [][RunEnds => report'.new \cap announced = {}]_vars

(* FR-17: what is called Previously Reported has been in a report before.    *)
PreviouslyReportedIsTrue ==
  [][RunEnds => report'.previously \subseteq reported]_vars

(* PRD 16.1: a job already told of comes under its department again only when *)
(* its content is another than the one evaluated before.  It is not so when   *)
(* two searches find the job while it changes: filters and model are given the *)
(* first posting, the row the hash of the last.                               *)
DepartmentsShowChanges ==
  [][RunEnds /\ "duplicate" \notin faults =>
       \A j \in report'.groups \cap announced : rows'[j].hash # rows[j].hash]_vars

(* FR-9, NFR-13: a job that has a score and a department has been in a report, *)
(* so that a run that fails between evaluation and commit loses no job.  (The  *)
(* first conjunct types the state.)                                           *)
ScoredJobsWereReported ==
  /\ TypeOK
  /\ \A j \in DOMAIN rows : rows[j].score # NoScore /\ rows[j].grouped => j \in reported

(* FR-10, as far as the code carries it: a run closes a job only if LinkedIn   *)
(* did not list it all through the scan, or an answer lacked it, or its card   *)
(* was skipped.                                                               *)
ClosedJobsWereMissed ==
  [][\A j \in DOMAIN rows : rows[j].status # "Closed" /\ rows'[j].status = "Closed"
       => j \notin steady \/ j \in lost]_vars

R == INSTANCE Reports

(* FR-8, FR-17, PRD 16.1: what scans, rows and runs make of the jobs keeps what  *)
(* reports promise their reader.                                              *)
ImplementsReports == R!Spec

(* FR-19: a blacklisted job is in no report. *)
BlacklistedIsNeverReported ==
  [][RunEnds => Included(report') \cap excluded = {}]_vars
=============================================================================
