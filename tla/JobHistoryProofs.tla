-------------------------- MODULE JobHistoryProofs --------------------------
(***************************************************************************)
(* Proofs about JobHistory, for any number of jobs and contents, any       *)
(* number of Top Matches and any sets of faults; about JobEvaluation, for  *)
(* any weights, thresholds and number of attempts; and that the verdicts   *)
(* of the one are those the other reckons with.                            *)
(***************************************************************************)
EXTENDS JobHistory, JobEvaluation, TLAPS

-----------------------------------------------------------------------------
(* What an evaluated job is: one of a row that is closed, a row that is reused, *)
(* or a posting judged anew.                                                    *)
IsClosed(j, row) ==
  j \in NewlyClosed /\ j \notin DOMAIN scan /\ row = [rows[j] EXCEPT !.status = "Closed"]

IsReused(j, row) ==
  /\ j \in DOMAIN scan \cap DOMAIN rows /\ rows[j].status # "Closed"
  /\ row = [rows[j] EXCEPT !.status = "Seen"]

IsJudged(j, row) ==
  /\ j \in DOMAIN scan
  /\ row.status \in {"New", "Updated", "Excluded"}
  /\ row.hash = scan[j].hash /\ row.count = 0
  /\ row.status = "New" => j \notin DOMAIN rows \/ rows[j].status = "Closed"
  /\ row.status = "Updated" => j \in DOMAIN rows /\ rows[j].hash # scan[j].shown
  /\ row.status = "Excluded" => row.score = NoScore

AreEvaluated(jobs) ==
  /\ DOMAIN jobs = DOMAIN scan \cup NewlyClosed
  /\ \A j \in DOMAIN jobs : /\ jobs[j] \in Row
                            /\ IsClosed(j, jobs[j]) \/ IsReused(j, jobs[j]) \/ IsJudged(j, jobs[j])

LEMMA EvaluatedJobsAre ==
  ASSUME TypeOK, NEW verdicts \in [DOMAIN scan -> Verdict]
  PROVE  AreEvaluated(EvaluatedJobs(verdicts))
<1> DEFINE jobs == EvaluatedJobs(verdicts)
<1>1. DOMAIN jobs = DOMAIN scan \cup NewlyClosed
  BY DEF EvaluatedJobs
<1>2. NewlyClosed \subseteq DOMAIN rows \ DOMAIN scan
  BY DEF NewlyClosed
<1>3. ASSUME NEW j \in DOMAIN jobs, j \notin DOMAIN scan
      PROVE  jobs[j] \in Row /\ IsClosed(j, jobs[j])
  <2>1. jobs[j] = [rows[j] EXCEPT !.status = "Closed"] /\ j \in NewlyClosed
    BY <1>1, <1>3 DEF EvaluatedJobs
  <2>2. rows[j] \in Row
    BY <1>2, <2>1 DEF TypeOK
  <2> QED
    BY <1>3, <2>1, <2>2 DEF IsClosed, Row, Status
<1>4. ASSUME NEW j \in DOMAIN scan, AssignStatus(j, scan[j].shown) = "Seen"
      PROVE  jobs[j] \in Row /\ IsReused(j, jobs[j])
  <2>1. jobs[j] = [rows[j] EXCEPT !.status = "Seen"]
    BY <1>4 DEF EvaluatedJobs, ReusedSeenJob
  <2>2. j \in DOMAIN rows /\ rows[j].status # "Closed"
    BY <1>4 DEF AssignStatus
  <2>3. rows[j] \in Row
    BY <2>2 DEF TypeOK
  <2> QED
    BY <2>1, <2>2, <2>3 DEF IsReused, Row, Status
<1>5. ASSUME NEW j \in DOMAIN scan, AssignStatus(j, scan[j].shown) # "Seen"
      PROVE  jobs[j] \in Row /\ IsJudged(j, jobs[j])
  <2> DEFINE status == AssignStatus(j, scan[j].shown)
  <2>1. jobs[j] = Evaluation(j, status, verdicts[j])
    BY <1>5 DEF EvaluatedJobs
  <2>2. /\ status \in {"New", "Updated"}
        /\ status = "New" => j \notin DOMAIN rows \/ rows[j].status = "Closed"
        /\ status = "Updated" => j \in DOMAIN rows /\ rows[j].hash # scan[j].shown
    BY <1>5 DEF AssignStatus
  <2>3. scan[j].hash \in Content /\ verdicts[j].score \in Score /\ verdicts[j].grouped \in BOOLEAN
    BY DEF TypeOK, Card, Verdict
  <2>4. 0 \in 0..MaxCount /\ NoScore \in Score
    BY HistoryAssumption DEF Score
  <2>5. CASE j \in excluded
    <3>1. jobs[j] = [status |-> "Excluded", hash |-> scan[j].hash, score |-> NoScore,
                     grouped |-> FALSE, count |-> 0]
      BY <2>1, <2>5 DEF Evaluation, Judged
    <3> QED
      BY <2>3, <2>4, <3>1 DEF IsJudged, Row, Status
  <2>6. CASE j \notin excluded
    <3>1. jobs[j] = [status |-> status, hash |-> scan[j].hash, score |-> verdicts[j].score,
                     grouped |-> verdicts[j].grouped, count |-> 0]
      BY <2>1, <2>6 DEF Evaluation, Judged
    <3> QED
      BY <2>2, <2>3, <2>4, <3>1 DEF IsJudged, Row, Status
  <2> QED
    BY <2>5, <2>6
<1> QED
  BY <1>1, <1>3, <1>4, <1>5 DEF AreEvaluated

(* The end of a run, in terms of the jobs it has evaluated. *)
LEMMA FinishSomeIs ==
  ASSUME TypeOK, FinishSome
  PROVE  \E jobs, top : AreEvaluated(jobs) /\ top \subseteq Candidates(jobs) /\ Finish(jobs, top)
<1>1. PICK verdicts \in [DOMAIN scan -> Verdict] :
        \E top \in TopMatches(EvaluatedJobs(verdicts)) : Finish(EvaluatedJobs(verdicts), top)
  BY DEF FinishSome
<1>2. PICK top \in TopMatches(EvaluatedJobs(verdicts)) : Finish(EvaluatedJobs(verdicts), top)
  BY <1>1
<1>3. top \subseteq Candidates(EvaluatedJobs(verdicts))
  BY <1>2 DEF TopMatches
<1> QED
  BY <1>2, <1>3, EvaluatedJobsAre

(* What the end of a run leaves behind. *)
LEMMA FinishIs ==
  ASSUME TypeOK, NEW jobs, AreEvaluated(jobs), NEW top \in SUBSET Candidates(jobs), Finish(jobs, top)
  PROVE  /\ Included(report') = GroupByDepartment(jobs) \cup top
         /\ \A j \in Included(report') : /\ j \in DOMAIN jobs /\ jobs[j].score # NoScore
                                         /\ jobs[j].status \notin {"Closed", "Excluded"}
         /\ report' \in [DOMAIN NoReport -> SUBSET Job]
         /\ report'.groups = GroupByDepartment(jobs)
         /\ report'.new = {j \in Included(report') : jobs[j].status = "New"}
         /\ report'.updated = {j \in Included(report') : jobs[j].status = "Updated"}
         /\ report'.previously = {j \in Included(report') : PreviouslyReported(jobs[j])}
         /\ reported' = reported \cup Included(report')
         /\ announced' = (announced \ NewlyClosed) \cup report'.new
         /\ DOMAIN rows' = DOMAIN rows \cup DOMAIN jobs
         /\ \A j \in DOMAIN rows' : rows'[j] = IF j \in Included(report') THEN Counted(jobs[j])
                                               ELSE IF j \in DOMAIN jobs THEN jobs[j] ELSE rows[j]
<1> DEFINE included == GroupByDepartment(jobs) \cup top
<1>1. /\ report'.groups = GroupByDepartment(jobs) /\ report'.top = top
      /\ report'.new = {j \in included : jobs[j].status = "New"}
      /\ report'.updated = {j \in included : jobs[j].status = "Updated"}
      /\ report'.previously = {j \in included : PreviouslyReported(jobs[j])}
  BY DEF Finish, CompileReport
<1>2. Included(report') = included
  BY <1>1 DEF Included
<1>3. \A j \in included : /\ j \in DOMAIN jobs /\ jobs[j].score # NoScore
                          /\ jobs[j].status \notin {"Closed", "Excluded"}
  BY DEF GroupByDepartment, Candidates
<1>4. DOMAIN jobs \subseteq Job
  BY DEF AreEvaluated, NewlyClosed, TypeOK
<1>5. report' \in [DOMAIN NoReport -> SUBSET Job]
  <2> HIDE DEF included
  <2>1. report' = [groups |-> GroupByDepartment(jobs), top |-> top,
                   new |-> {j \in included : jobs[j].status = "New"},
                   updated |-> {j \in included : jobs[j].status = "Updated"},
                   previously |-> {j \in included : PreviouslyReported(jobs[j])}]
    BY DEF Finish, CompileReport, included
  <2>2. included \subseteq Job /\ GroupByDepartment(jobs) \subseteq Job /\ top \subseteq Job
    BY <1>3, <1>4 DEF included
  <2> QED
    BY <2>1, <2>2 DEF NoReport
<1>6. /\ reported' = reported \cup Included(report')
      /\ announced' = (announced \ NewlyClosed) \cup report'.new
      /\ rows' = Saved(jobs, Included(report'))
  BY DEF Finish
<1>7. /\ DOMAIN rows' = DOMAIN rows \cup DOMAIN jobs
      /\ \A j \in DOMAIN rows' : rows'[j] = IF j \in Included(report') THEN Counted(jobs[j])
                                            ELSE IF j \in DOMAIN jobs THEN jobs[j] ELSE rows[j]
  BY <1>6 DEF Saved
<1> QED
  BY <1>1, <1>2, <1>3, <1>5, <1>6, <1>7

(* A row in a report differs in nothing but its count. *)
LEMMA CountedIs ==
  ASSUME NEW row \in Row
  PROVE  /\ Counted(row) \in Row
         /\ Counted(row).status = row.status /\ Counted(row).hash = row.hash
         /\ Counted(row).score = row.score /\ Counted(row).grouped = row.grouped
  BY HistoryAssumption DEF Row, Counted

(* A row that is closed or reused differs in nothing but its status. *)
LEMMA KeptIs ==
  ASSUME TypeOK, NEW j, NEW row, IsClosed(j, row) \/ IsReused(j, row)
  PROVE  /\ j \in DOMAIN rows /\ row.hash = rows[j].hash /\ row.count = rows[j].count
         /\ row.score = rows[j].score /\ row.grouped = rows[j].grouped
         /\ row.status = IF IsClosed(j, row) THEN "Closed" ELSE "Seen"
<1>1. j \in DOMAIN rows
  BY DEF IsClosed, IsReused, NewlyClosed
<1>2. rows[j] \in Row
  BY <1>1 DEF TypeOK
<1>3. CASE IsClosed(j, row)
  BY <1>1, <1>2, <1>3 DEF IsClosed, Row
<1>4. CASE IsReused(j, row) /\ ~IsClosed(j, row)
  <2>1. row = [rows[j] EXCEPT !.status = "Seen"]
    BY <1>4 DEF IsReused
  <2> QED
    BY <1>1, <1>2, <1>4, <2>1 DEF Row
<1> QED
  BY <1>3, <1>4

-----------------------------------------------------------------------------
(* What the rows of the history tell: a job that was announced has an open row *)
(* until a run closes it, and one with an appearance, or with a score and a    *)
(* department, has been in a report.                                           *)
HistoryTells ==
  /\ \A j \in announced : j \in DOMAIN rows /\ rows[j].status # "Closed"
  /\ \A j \in DOMAIN rows : rows[j].count > 0 => j \in reported
  /\ \A j \in DOMAIN rows : rows[j].score # NoScore /\ rows[j].grouped => j \in reported

(* What the scan tells: a complete one has been delivered what was listed      *)
(* throughout, and what is kept of a job is of one posting, unless two         *)
(* searches found it.                                                          *)
ScanTells ==
  /\ whole => phase = "evaluate" /\ steady \subseteq DOMAIN scan \cup lost
  /\ "duplicate" \notin faults => \A j \in DOMAIN scan : scan[j].shown = scan[j].hash

Invariant == TypeOK /\ HistoryTells /\ ScanTells

LEMMA InvariantInit == Init => Invariant
<1> SUFFICES ASSUME Init PROVE Invariant
  OBVIOUS
<1>1. DOMAIN NoRows = {}
  BY DEF NoRows
<1>2. TypeOK
  <2>1. site \in [Job -> Content \cup {Gone}]
    BY DEF Init, Unwatched
  <2>2. report \in [DOMAIN NoReport -> SUBSET Job]
    BY DEF Init, NoReport
  <2>3. /\ excluded = {} /\ faults \in FaultSets /\ rows = NoRows /\ phase = "idle" /\ scan = NoRows
        /\ lost = {} /\ steady = {} /\ whole = FALSE /\ reported = {} /\ announced = {}
    BY DEF Init
  <2> QED
    BY <1>1, <2>1, <2>2, <2>3 DEF TypeOK
<1> QED
  BY <1>1, <1>2 DEF Init, Invariant, HistoryTells, ScanTells

LEMMA FinishKeepsInvariant ==
  ASSUME Invariant, FinishSome
  PROVE  Invariant'
<1> USE DEF Invariant
<1>1. PICK jobs, top : AreEvaluated(jobs) /\ top \subseteq Candidates(jobs) /\ Finish(jobs, top)
  BY FinishSomeIs
<1> DEFINE included == Included(report')
<1>2. /\ \A j \in included : /\ j \in DOMAIN jobs /\ jobs[j].score # NoScore
                            /\ jobs[j].status \notin {"Closed", "Excluded"}
      /\ included = GroupByDepartment(jobs) \cup top
      /\ report' \in [DOMAIN NoReport -> SUBSET Job]
      /\ report'.new = {j \in included : jobs[j].status = "New"}
      /\ reported' = reported \cup included
      /\ announced' = (announced \ NewlyClosed) \cup report'.new
  BY <1>1, FinishIs
<1>3. /\ DOMAIN rows' = DOMAIN rows \cup DOMAIN jobs
      /\ \A j \in DOMAIN rows' : rows'[j] = IF j \in included THEN Counted(jobs[j])
                                             ELSE IF j \in DOMAIN jobs THEN jobs[j] ELSE rows[j]
  BY <1>1, FinishIs
<1>4. /\ DOMAIN jobs = DOMAIN scan \cup NewlyClosed /\ DOMAIN jobs \subseteq Job
      /\ \A j \in DOMAIN jobs : /\ jobs[j] \in Row
                               /\ (IsClosed(j, jobs[j]) \/ IsReused(j, jobs[j]) \/ IsJudged(j, jobs[j]))
  BY <1>1 DEF AreEvaluated, NewlyClosed, TypeOK
<1>5. /\ UNCHANGED <<site, excluded, faults>>
      /\ phase' = "idle" /\ scan' = NoRows /\ lost' = {} /\ steady' = {} /\ whole' = FALSE
  BY <1>1 DEF Finish
<1> HIDE DEF included
<1>6. ASSUME NEW j \in DOMAIN jobs
      PROVE  /\ rows'[j] \in Row /\ rows'[j].status = jobs[j].status /\ rows'[j].hash = jobs[j].hash
             /\ rows'[j].score = jobs[j].score /\ rows'[j].grouped = jobs[j].grouped
             /\ j \in included \/ rows'[j] = jobs[j]
  <2>1. jobs[j] \in Row
    BY <1>1 DEF AreEvaluated
  <2>2. rows'[j] = IF j \in included THEN Counted(jobs[j]) ELSE jobs[j]
    BY <1>3
  <2> QED
    BY <2>1, <2>2, CountedIs
<1>7. ASSUME NEW j \in DOMAIN rows', j \notin DOMAIN jobs
      PROVE  j \in DOMAIN rows /\ rows'[j] = rows[j]
  BY <1>2, <1>3, <1>7
<1>8. TypeOK'
  <2>1. DOMAIN rows' \subseteq Job /\ \A j \in DOMAIN rows' : rows'[j] \in Row
    BY <1>3, <1>4, <1>6, <1>7 DEF TypeOK
  <2>2. reported' \subseteq Job /\ announced' \subseteq reported'
    BY <1>2, <1>4 DEF TypeOK
  <2>3. DOMAIN scan' = {}
    BY <1>5 DEF NoRows
  <2> QED
    BY <1>2, <1>5, <2>1, <2>2, <2>3 DEF TypeOK
<1>9. ASSUME NEW j \in announced' PROVE j \in DOMAIN rows' /\ rows'[j].status # "Closed"
  <2>1. CASE j \in report'.new
    BY <1>2, <1>3, <1>6, <2>1
  <2>2. CASE j \in announced \ NewlyClosed /\ j \in DOMAIN jobs
    <3>1. ~IsClosed(j, jobs[j])
      BY <2>2 DEF IsClosed
    <3>2. jobs[j].status # "Closed"
      BY <1>4, <2>2, <3>1, KeptIs DEF IsJudged
    <3> QED
      BY <1>3, <1>6, <2>2, <3>2
  <2>3. CASE j \in announced \ NewlyClosed /\ j \notin DOMAIN jobs
    BY <1>3, <1>7, <2>3 DEF HistoryTells
  <2> QED
    BY <1>2, <2>1, <2>2, <2>3
<1>10. ASSUME NEW j \in DOMAIN rows', rows'[j].count > 0 PROVE j \in reported'
  <2>1. CASE j \in DOMAIN jobs /\ j \notin included
    <3>1. jobs[j].count > 0
      BY <1>6, <1>10, <2>1
    <3>2. j \in DOMAIN rows /\ rows[j].count = jobs[j].count
      BY <1>4, <2>1, <3>1, KeptIs DEF IsJudged
    <3> QED
      BY <1>2, <3>1, <3>2 DEF HistoryTells
  <2> QED
    BY <1>2, <1>7, <1>10, <2>1 DEF HistoryTells
<1>11. ASSUME NEW j \in DOMAIN rows', rows'[j].score # NoScore, rows'[j].grouped PROVE j \in reported'
  <2>1. CASE j \in DOMAIN jobs /\ j \notin included
    <3>1. jobs[j].score # NoScore /\ jobs[j].grouped /\ jobs[j].status \notin {"New", "Updated"}
      BY <1>2, <1>6, <1>11, <2>1 DEF GroupByDepartment
    <3>2. j \in DOMAIN rows /\ rows[j].score = jobs[j].score /\ rows[j].grouped = jobs[j].grouped
      BY <1>4, <2>1, <3>1, KeptIs DEF IsJudged
    <3> QED
      BY <1>2, <3>1, <3>2 DEF HistoryTells
  <2> QED
    BY <1>2, <1>7, <1>11, <2>1 DEF HistoryTells
<1>12. HistoryTells'
  BY <1>9, <1>10, <1>11 DEF HistoryTells
<1>13. ScanTells'
  BY <1>5 DEF ScanTells, NoRows
<1> QED
  BY <1>8, <1>12, <1>13

LEMMA InvariantStep == Invariant /\ [Next]_vars => Invariant'
<1> SUFFICES ASSUME Invariant, [Next]_vars PROVE Invariant'
  OBVIOUS
<1> USE DEF Invariant
<1>1. ASSUME NEW j \in Job, SiteChanges(j) PROVE Invariant'
  <2>1. phase = "scan" /\ ~whole
    BY <1>1 DEF SiteChanges, ScanTells
  <2>2. site' \in [Job -> Content \cup {Gone}] /\ steady' \subseteq steady
    BY <1>1 DEF SiteChanges, TypeOK
  <2>3. /\ UNCHANGED <<excluded, faults, rows, phase, scan, lost, whole>>
        /\ UNCHANGED <<report, reported, announced>>
    BY <1>1 DEF SiteChanges, reportVars
  <2> QED
    BY <2>1, <2>2, <2>3 DEF TypeOK, HistoryTells, ScanTells
<1>2. ASSUME NEW j \in Job, ReadCard(j) PROVE Invariant'
  <2>1. /\ phase = "scan" /\ ~whole /\ site[j] \in Content
        /\ UNCHANGED <<site, excluded, faults, rows, phase, lost, steady, whole>>
        /\ UNCHANGED <<report, reported, announced>>
    BY <1>2 DEF ReadCard, Listed, ScanTells, TypeOK, reportVars
  <2>2. /\ DOMAIN scan' = DOMAIN scan \cup {j}
        /\ \A i \in DOMAIN scan' : i # j => scan'[i] = scan[i] /\ i \in DOMAIN scan
        /\ scan'[j] = [shown |-> IF j \in DOMAIN scan THEN scan[j].shown ELSE site[j], hash |-> site[j]]
    BY <1>2 DEF ReadCard
  <2>3. scan'[j] \in Card
    <3>1. (IF j \in DOMAIN scan THEN scan[j].shown ELSE site[j]) \in Content
      BY <2>1 DEF TypeOK, Card
    <3> QED
      BY <2>1, <2>2, <3>1 DEF Card
  <2>4. "duplicate" \notin faults => scan'[j].shown = scan'[j].hash
    BY <1>2, <2>2 DEF ReadCard
  <2>5. \A i \in DOMAIN scan' : scan'[i] \in Card
    BY <2>2, <2>3 DEF TypeOK
  <2> QED
    BY <2>1, <2>2, <2>4, <2>5 DEF TypeOK, HistoryTells, ScanTells
<1>3. ASSUME NEW j \in Job, LoseCard(j) PROVE Invariant'
  BY <1>3 DEF LoseCard, TypeOK, HistoryTells, ScanTells, reportVars
<1>4. CASE Blacklist
  BY <1>4 DEF Blacklist, TypeOK, HistoryTells, ScanTells, runVars, reportVars
<1>5. CASE StartScan
  <2>1. DOMAIN scan' = {}
    BY <1>5 DEF StartScan, NoRows
  <2>2. report' \in [DOMAIN NoReport -> SUBSET Job]
    BY <1>5 DEF StartScan, NoReport
  <2>3. /\ phase' = "scan" /\ lost' = {} /\ whole' = FALSE /\ site' \in [Job -> Content \cup {Gone}]
        /\ steady' \subseteq Job /\ UNCHANGED <<excluded, faults, rows, reported, announced>>
    BY <1>5 DEF StartScan
  <2> QED
    BY <2>1, <2>2, <2>3 DEF TypeOK, HistoryTells, ScanTells
<1>6. CASE FailRun
  <2>1. DOMAIN scan' = {} /\ site' \in [Job -> Content \cup {Gone}]
    BY <1>6 DEF FailRun, NoRows, Unwatched
  <2> QED
    BY <1>6, <2>1 DEF FailRun, TypeOK, HistoryTells, ScanTells, reportVars
<1>7. ASSUME NEW complete \in BOOLEAN, EndScan(complete) PROVE Invariant'
  <2>1. site' \in [Job -> Content \cup {Gone}]
    BY <1>7 DEF EndScan, Unwatched
  <2> QED
    BY <1>7, <2>1 DEF EndScan, TypeOK, HistoryTells, ScanTells, reportVars
<1>8. CASE FinishSome
  BY <1>8, FinishKeepsInvariant
<1>9. CASE UNCHANGED vars
  BY <1>9 DEF TypeOK, HistoryTells, ScanTells, vars, runVars, reportVars
<1> QED
  BY <1>1, <1>2, <1>3, <1>4, <1>5, <1>6, <1>7, <1>8, <1>9 DEF Next

LEMMA InvariantAlways == Spec => []Invariant
  BY InvariantInit, InvariantStep, PTL DEF Spec

-----------------------------------------------------------------------------
(* Only the end of a run writes a report that differs, and it is the end of a  *)
(* run that works through its jobs.                                            *)
LEMMA RunEndsIs ==
  ASSUME [Next]_vars, phase = "evaluate", rows' # rows \/ report' # report
  PROVE  FinishSome
<1>1. ASSUME NEW j \in Job PROVE ~SiteChanges(j) /\ ~ReadCard(j) /\ ~LoseCard(j)
  BY DEF SiteChanges, ReadCard, LoseCard
<1>2. ~Blacklist /\ ~StartScan
  BY DEF Blacklist, StartScan
<1>3. ~FailRun /\ ~UNCHANGED vars /\ \A complete \in BOOLEAN : ~EndScan(complete)
  BY DEF FailRun, EndScan, vars, runVars, reportVars
<1> QED
  BY <1>1, <1>2, <1>3 DEF Next

(* FR-9, NFR-13: no job with a score and a department is lost by a run that    *)
(* fails, as rows, scores and report are written by one step.                  *)
THEOREM NoScoredJobIsLost == Spec => []ScoredJobsWereReported
<1>1. Invariant => ScoredJobsWereReported
  BY DEF Invariant, HistoryTells, ScoredJobsWereReported
<1> QED
  BY <1>1, InvariantAlways, PTL

(* FR-8: no run tags a job NEW that a report has called so before, unless a    *)
(* run has closed it since.                                                    *)
THEOREM NewToldOnce == Spec => NewIsToldOnce
<1>1. Invariant /\ [Next]_vars => (RunEnds => report'.new \cap announced = {})
  <2> SUFFICES ASSUME Invariant, [Next]_vars, RunEnds, NEW j \in report'.new, j \in announced
               PROVE  FALSE
    OBVIOUS
  <2>1. PICK jobs, top : AreEvaluated(jobs) /\ top \subseteq Candidates(jobs) /\ Finish(jobs, top)
    BY RunEndsIs, FinishSomeIs DEF RunEnds, Invariant
  <2>2. j \in DOMAIN jobs /\ jobs[j].status = "New"
    <3>1. /\ report'.new = {i \in Included(report') : jobs[i].status = "New"}
          /\ \A i \in Included(report') : i \in DOMAIN jobs
      BY <2>1, FinishIs DEF Invariant
    <3> QED
      BY <3>1
  <2>3. IsJudged(j, jobs[j])
    BY <2>1, <2>2, KeptIs DEF AreEvaluated, Invariant
  <2> QED
    BY <2>2, <2>3 DEF IsJudged, Invariant, HistoryTells
<1> QED
  BY <1>1, InvariantAlways, PTL DEF Spec, NewIsToldOnce

(* FR-17: nothing is called Previously Reported that has not been.             *)
THEOREM PreviouslyReportedAlwaysTrue == Spec => PreviouslyReportedIsTrue
<1>1. Invariant /\ [Next]_vars => (RunEnds => report'.previously \subseteq reported)
  <2> SUFFICES ASSUME Invariant, [Next]_vars, RunEnds, NEW j \in report'.previously
               PROVE  j \in reported
    OBVIOUS
  <2>1. PICK jobs, top : AreEvaluated(jobs) /\ top \subseteq Candidates(jobs) /\ Finish(jobs, top)
    BY RunEndsIs, FinishSomeIs DEF RunEnds, Invariant
  <2>2. j \in DOMAIN jobs /\ jobs[j].status = "Seen" /\ jobs[j].count > 0
    <3>1. /\ report'.previously = {i \in Included(report') : PreviouslyReported(jobs[i])}
          /\ \A i \in Included(report') : i \in DOMAIN jobs
      BY <2>1, FinishIs DEF Invariant
    <3> QED
      BY <3>1 DEF PreviouslyReported
  <2>3. j \in DOMAIN rows /\ rows[j].count = jobs[j].count
    BY <2>1, <2>2, KeptIs DEF AreEvaluated, Invariant, IsJudged
  <2> QED
    BY <2>2, <2>3 DEF Invariant, HistoryTells
<1> QED
  BY <1>1, InvariantAlways, PTL DEF Spec, PreviouslyReportedIsTrue

(* PRD 16.1: a job announced before is listed under its department only with a *)
(* content that differs from the one evaluated before.                         *)
THEOREM DepartmentsShowOnlyChanges == Spec => DepartmentsShowChanges
<1>1. Invariant /\ [Next]_vars =>
        (RunEnds /\ "duplicate" \notin faults =>
           \A j \in report'.groups \cap announced : rows'[j].hash # rows[j].hash)
  <2> SUFFICES ASSUME Invariant, [Next]_vars, RunEnds, "duplicate" \notin faults,
                      NEW j \in report'.groups \cap announced
               PROVE  rows'[j].hash # rows[j].hash
    OBVIOUS
  <2>1. PICK jobs, top : AreEvaluated(jobs) /\ top \subseteq Candidates(jobs) /\ Finish(jobs, top)
    BY RunEndsIs, FinishSomeIs DEF RunEnds, Invariant
  <2>2. /\ j \in DOMAIN jobs /\ jobs[j].status \in {"New", "Updated"} /\ j \in Included(report')
        /\ j \in DOMAIN rows' /\ rows'[j] = Counted(jobs[j])
    <3>1. /\ report'.groups = GroupByDepartment(jobs)
          /\ Included(report') = GroupByDepartment(jobs) \cup top
          /\ DOMAIN rows' = DOMAIN rows \cup DOMAIN jobs
          /\ \A i \in DOMAIN rows' : rows'[i] = IF i \in Included(report') THEN Counted(jobs[i])
                                                ELSE IF i \in DOMAIN jobs THEN jobs[i] ELSE rows[i]
      BY <2>1, FinishIs DEF Invariant
    <3> QED
      BY <3>1 DEF GroupByDepartment
  <2>3. IsJudged(j, jobs[j])
    BY <2>1, <2>2, KeptIs DEF AreEvaluated, Invariant
  <2>4. jobs[j].status = "Updated"
    BY <2>2, <2>3 DEF IsJudged, Invariant, HistoryTells
  <2>5. jobs[j].hash = scan[j].hash /\ rows[j].hash # scan[j].hash
    BY <2>3, <2>4 DEF IsJudged, Invariant, ScanTells
  <2>6. rows'[j].hash = jobs[j].hash
    BY <2>1, <2>2, CountedIs DEF AreEvaluated
  <2> QED
    BY <2>5, <2>6
<1> QED
  BY <1>1, InvariantAlways, PTL DEF Spec, DepartmentsShowChanges

(* FR-10: a run closes no job that LinkedIn listed all through its scan,       *)
(* unless the answer or the card of the job was lost.                          *)
THEOREM OnlyMissedJobsAreClosed == Spec => ClosedJobsWereMissed
<1>1. Invariant /\ [Next]_vars =>
        \A j \in DOMAIN rows : rows[j].status # "Closed" /\ rows'[j].status = "Closed"
          => j \notin steady \/ j \in lost
  <2> SUFFICES ASSUME Invariant, [Next]_vars, NEW j \in DOMAIN rows,
                      rows[j].status # "Closed", rows'[j].status = "Closed"
               PROVE  j \notin steady \/ j \in lost
    OBVIOUS
  <2>1. rows' # rows
    OBVIOUS
  <2>2. FinishSome
    BY <2>1 DEF Next, SiteChanges, ReadCard, LoseCard, Blacklist, StartScan, FailRun, EndScan,
                vars, runVars, reportVars
  <2>3. PICK jobs, top : AreEvaluated(jobs) /\ top \subseteq Candidates(jobs) /\ Finish(jobs, top)
    BY <2>2, FinishSomeIs DEF Invariant
  <2>4. /\ j \in DOMAIN rows' /\ \A i \in Included(report') : i \in DOMAIN jobs
        /\ rows'[j] = IF j \in Included(report') THEN Counted(jobs[j])
                      ELSE IF j \in DOMAIN jobs THEN jobs[j] ELSE rows[j]
    BY <2>3, FinishIs DEF Invariant
  <2>5. j \in DOMAIN jobs
    BY <2>4
  <2>6. jobs[j] \in Row /\ jobs[j].status = "Closed"
    BY <2>3, <2>4, <2>5, CountedIs DEF AreEvaluated
  <2>7. IsClosed(j, jobs[j])
    BY <2>3, <2>5, <2>6, KeptIs DEF AreEvaluated, IsJudged, Invariant
  <2> QED
    BY <2>7 DEF IsClosed, NewlyClosed, Invariant, ScanTells
<1> QED
  BY <1>1, InvariantAlways, PTL DEF Spec, ClosedJobsWereMissed

(* A run that ends publishes a report that keeps every promise of Reports.     *)
LEMMA FinishPublishes ==
  ASSUME Invariant, NEW jobs, AreEvaluated(jobs), NEW top \in SUBSET Candidates(jobs), Finish(jobs, top)
  PROVE  R!Publish(NewlyClosed)
<1>1. /\ Included(report') = GroupByDepartment(jobs) \cup top
      /\ \A j \in Included(report') : j \in DOMAIN jobs /\ jobs[j].status \notin {"Closed", "Excluded"}
      /\ report' \in [DOMAIN NoReport -> SUBSET Job]
      /\ report'.groups = GroupByDepartment(jobs)
      /\ report'.new = {j \in Included(report') : jobs[j].status = "New"}
      /\ report'.updated = {j \in Included(report') : jobs[j].status = "Updated"}
      /\ report'.previously = {j \in Included(report') : PreviouslyReported(jobs[j])}
      /\ reported' = reported \cup Included(report')
      /\ announced' = (announced \ NewlyClosed) \cup report'.new
  BY FinishIs DEF Invariant
<1>2. report' \in [R!Part -> SUBSET Job]
  BY <1>1 DEF NoReport, R!Part
<1>3. R!Shown' = Included(report')
  BY DEF R!Shown, Included
<1>4. ASSUME NEW j \in report'.new PROVE j \notin announced
  <2>1. j \in DOMAIN jobs /\ jobs[j].status = "New"
    BY <1>1
  <2>2. IsJudged(j, jobs[j])
    BY <2>1, KeptIs DEF AreEvaluated, Invariant
  <2>. QED  BY <2>1, <2>2 DEF IsJudged, Invariant, HistoryTells
<1>5. ASSUME NEW j \in report'.previously PROVE j \in reported
  <2>1. j \in DOMAIN jobs /\ jobs[j].status = "Seen" /\ jobs[j].count > 0
    BY <1>1 DEF PreviouslyReported
  <2>2. j \in DOMAIN rows /\ rows[j].count = jobs[j].count
    BY <2>1, KeptIs DEF AreEvaluated, Invariant, IsJudged
  <2>. QED  BY <2>1, <2>2 DEF Invariant, HistoryTells
<1>6. ASSUME NEW j \in NewlyClosed PROVE j \notin Included(report')
  <2>1. j \notin DOMAIN scan
    BY DEF NewlyClosed
  <2>2. j \in DOMAIN jobs /\ IsClosed(j, jobs[j])
    BY <2>1 DEF AreEvaluated, IsReused, IsJudged
  <2>3. jobs[j].status = "Closed"
    BY <2>2, KeptIs DEF Invariant
  <2>. QED  BY <1>1, <2>3
<1>7. report'.groups \subseteq report'.new \cup report'.updated
  BY <1>1 DEF GroupByDepartment
<1>8. /\ report'.new \cup report'.updated \cup report'.previously \subseteq Included(report')
      /\ report'.new \cap report'.updated = {}
      /\ report'.previously \cap (report'.new \cup report'.updated) = {}
  BY <1>1 DEF PreviouslyReported
<1>. QED  BY <1>1, <1>2, <1>3, <1>4, <1>5, <1>6, <1>7, <1>8 DEF R!Publish

(* FR-8, FR-17, PRD 16.1: the runs implement Reports, whatever LinkedIn, the   *)
(* filters and the failures of other runs make of the history in between.      *)
THEOREM HistoryImplementsReports == Spec => ImplementsReports
<1>1. Init => R!Init
  BY DEF Init, NoReport, R!Init, R!Blank, R!Part
<1>2. Invariant /\ [Next]_vars => [R!Next]_(R!readerVars)
  <2>. SUFFICES ASSUME Invariant, [Next]_vars PROVE R!Next \/ UNCHANGED reportVars
    BY DEF reportVars, R!readerVars
  <2>1. CASE StartScan
    <3>1. R!PutAway
      BY <2>1 DEF StartScan, NoReport, R!PutAway, R!Blank, R!Part
    <3>. QED  BY <3>1 DEF R!Next
  <2>2. CASE FinishSome
    <3>1. PICK jobs, top : AreEvaluated(jobs) /\ top \subseteq Candidates(jobs) /\ Finish(jobs, top)
      BY <2>2, FinishSomeIs DEF Invariant
    <3>2. R!Publish(NewlyClosed)
      BY <3>1, FinishPublishes
    <3>3. NewlyClosed \in SUBSET Job
      BY DEF NewlyClosed, Invariant, TypeOK
    <3>. QED  BY <3>2, <3>3 DEF R!Next
  <2>3. CASE ~StartScan /\ ~FinishSome
    BY <2>3 DEF Next, SiteChanges, ReadCard, LoseCard, Blacklist, EndScan, FailRun, vars, reportVars
  <2>. QED  BY <2>1, <2>2, <2>3
<1>. QED  BY <1>1, <1>2, InvariantAlways, PTL DEF Spec, ImplementsReports, R!Spec

(* FR-19, as far as the code keeps it: a job that its account's blacklist      *)
(* names is neither new nor updated in a report nor under a department; only   *)
(* a place among the Top Matches can be left to it, of the time before it was  *)
(* blacklisted.                                                                *)
THEOREM OnlyTopMatchesEscapeTheBlacklist ==
  Spec => [][RunEnds => Included(report') \cap excluded
                          \subseteq report'.top \ (report'.groups \cup report'.new \cup report'.updated)]_vars
<1>1. Invariant /\ [Next]_vars =>
        (RunEnds => Included(report') \cap excluded
                      \subseteq report'.top \ (report'.groups \cup report'.new \cup report'.updated))
  <2>. SUFFICES ASSUME Invariant, [Next]_vars, RunEnds, NEW j \in Included(report') \cap excluded
                PROVE  j \in report'.top \ (report'.groups \cup report'.new \cup report'.updated)
    OBVIOUS
  <2>1. FinishSome
    BY RunEndsIs DEF RunEnds
  <2>2. PICK verdicts \in [DOMAIN scan -> Verdict] :
          \E top \in TopMatches(EvaluatedJobs(verdicts)) : Finish(EvaluatedJobs(verdicts), top)
    BY <2>1 DEF FinishSome
  <2>3. PICK jobs, top : jobs = EvaluatedJobs(verdicts) /\ top \in TopMatches(jobs) /\ Finish(jobs, top)
    BY <2>2
  <2>4. AreEvaluated(jobs) /\ top \subseteq Candidates(jobs)
    BY <2>3, EvaluatedJobsAre DEF TopMatches, Invariant
  <2>5. ASSUME j \in DOMAIN scan, AssignStatus(j, scan[j].shown) # "Seen"
        PROVE  jobs[j].status = "Excluded"
    BY <2>3, <2>5 DEF EvaluatedJobs, Evaluation, Judged
  <2>6. ASSUME j \in DOMAIN scan, AssignStatus(j, scan[j].shown) = "Seen"
        PROVE  jobs[j].status = "Seen"
    <3>1. jobs[j] = [rows[j] EXCEPT !.status = "Seen"] /\ j \in DOMAIN rows
      BY <2>3, <2>6 DEF EvaluatedJobs, ReusedSeenJob, AssignStatus
    <3>2. rows[j] \in Row
      BY <3>1 DEF Invariant, TypeOK
    <3>. QED  BY <3>1, <3>2 DEF Row
  <2>7. /\ Included(report') = GroupByDepartment(jobs) \cup top
        /\ j \in DOMAIN jobs /\ jobs[j].status \notin {"Closed", "Excluded"}
        /\ j \in report'.groups => j \in GroupByDepartment(jobs)
        /\ j \in report'.new => jobs[j].status = "New"
        /\ j \in report'.updated => jobs[j].status = "Updated"
    <3>1. TypeOK /\ top \in SUBSET Candidates(jobs) /\ AreEvaluated(jobs) /\ Finish(jobs, top)
      BY <2>3, <2>4 DEF Invariant
    <3>2. Included(report') = GroupByDepartment(jobs) \cup top
      BY <3>1, FinishIs
    <3>3. j \in DOMAIN jobs /\ jobs[j].status \notin {"Closed", "Excluded"}
      BY <3>1, FinishIs
    <3>4. j \in report'.groups => j \in GroupByDepartment(jobs)
      BY <3>1, FinishIs
    <3>5. /\ j \in report'.new => jobs[j].status = "New"
          /\ j \in report'.updated => jobs[j].status = "Updated"
      BY <3>1 DEF Finish, CompileReport
    <3>. QED  BY <3>2, <3>3, <3>4, <3>5
  <2>8. j \in DOMAIN scan
    <3>1. j \notin DOMAIN scan => IsClosed(j, jobs[j])
      BY <2>4, <2>7 DEF AreEvaluated, IsReused, IsJudged
    <3>. QED  BY <2>7, <3>1, KeptIs DEF Invariant
  <2>9. jobs[j].status = "Seen"
    BY <2>5, <2>6, <2>7, <2>8
  <2>10. report'.top = top
    BY <2>3 DEF Finish, CompileReport
  <2>. QED  BY <2>7, <2>9, <2>10 DEF GroupByDepartment
<1>. QED  BY <1>1, InvariantAlways, PTL DEF Spec

-----------------------------------------------------------------------------
(* The evaluation of one posting.                                              *)

(* What the filter or score that is next tells of those before it.             *)
ScoreQuestion == {"company", "career", "rationale"}
FiltersPassed == confidence # None /\ confidence >= Confidence - Tolerance

StageTells ==
  /\ stage \in {"blacklist", "location"} => asked = {} /\ attempt = 1 /\ repair = FALSE
  /\ stage = "location" \/ stage \in Question => ~job.excluded
  /\ stage \in Question => job.inTarget
  /\ stage \in {"experience", "department"} => asked \subseteq {"experience", "department"}
  /\ stage \in ScoreQuestion => FiltersPassed /\ "department" \in asked
  /\ stage = "rationale" => career # None /\ "career" \in asked /\ TotalWeight # 0

(* What the verdict tells of the answers, and of the posting.                  *)
VerdictTells ==
  verdict # None =>
    /\ verdict.status = "Excluded" <=> job.excluded
    /\ ~verdict.passed => verdict.sum = None /\ ~verdict.cluster
    /\ job.excluded => ~verdict.passed
    /\ verdict.sum # None => verdict.weight # None

EvaluationInvariant ==
  ScoreIsEarned /\ StageTells /\ VerdictTells /\ CheapFiltersFirst /\ ScoreIsAMean

LEMMA UnitsAre == \A u \in Units : u \in Nat /\ u <= Scale /\ u # None
BY EvaluationAssumption DEF Units

LEMMA NoneIsNoNumber == \A n \in Nat : n # None
BY EvaluationAssumption

LEMMA WeightsAre ==
  ASSUME EvaluationTypeOK, NEW c \in Component
  PROVE  weights[c] \in Nat
BY EvaluationAssumption DEF EvaluationTypeOK

(* A mean of figures up to S is not above S, nor below the least of them.      *)
LEMMA Monotone ==
  ASSUME NEW a \in Nat, NEW b \in Nat, NEW w \in Nat, a <= b
  PROVE  a * w <= b * w /\ a * w \in Nat /\ b * w \in Nat
<1>1. PICK d \in Nat : b = a + d
  <2>1. b - a \in Nat /\ b = a + (b - a)
    OBVIOUS
  <2>. QED  BY <2>1
<1>2. b * w = a * w + d * w /\ d * w \in Nat /\ a * w \in Nat
  BY <1>1
<1>. QED  BY <1>2

LEMMA MeanOf ==
  ASSUME NEW S \in Nat, NEW a \in Nat, NEW b \in Nat, NEW c \in Nat, a <= S, b <= S, c <= S,
         NEW d \in Nat, NEW e \in Nat, NEW l \in Nat, NEW k \in Nat, NEW w \in Nat
  PROVE  /\ a * d + S * e + S * l + b * k + c * w \in Nat
         /\ a * d + S * e + S * l + b * k + c * w <= S * (d + e + l + k + w)
         /\ \E m \in {a, b, c} :
              a * d + S * e + S * l + b * k + c * w >= m * (d + e + l + k + w)
<1>1. /\ a * d \in Nat /\ S * e \in Nat /\ S * l \in Nat /\ b * k \in Nat /\ c * w \in Nat
      /\ a * d <= S * d /\ b * k <= S * k /\ c * w <= S * w
      /\ S * d \in Nat /\ S * k \in Nat /\ S * w \in Nat
  BY Monotone
<1>2. S * (d + e + l + k + w) = S * d + S * e + S * l + S * k + S * w
  OBVIOUS
<1>3. PICK m \in {a, b, c} : m \in Nat /\ m <= a /\ m <= b /\ m <= c /\ m <= S
  OBVIOUS
<1>4. /\ m * d <= a * d /\ m * e <= S * e /\ m * l <= S * l /\ m * k <= b * k /\ m * w <= c * w
      /\ m * d \in Nat /\ m * e \in Nat /\ m * l \in Nat /\ m * k \in Nat /\ m * w \in Nat
  BY <1>3, Monotone
<1>5. m * (d + e + l + k + w) = m * d + m * e + m * l + m * k + m * w
  BY <1>3
<1>6. a * d + S * e + S * l + b * k + c * w >= m * (d + e + l + k + w)
  <2>. HIDE <1>2
  <2>. QED  BY <1>1, <1>4, <1>5
<1>. QED  BY <1>1, <1>2, <1>3, <1>6

(* _weighted_ai_match_score(): what it divides, and what by. *)
LEMMA ScoreIs ==
  ASSUME EvaluationTypeOK, confidence # None, career # None
  PROVE  /\ WeightedSum \in Nat /\ TotalWeight \in Nat
         /\ WeightedSum <= Scale * TotalWeight
         /\ \E worst \in {confidence, career, company} \ {None} : WeightedSum >= worst * TotalWeight
<1>. DEFINE d == weights["department"]   e == weights["experience"]   l == weights["location"]
            k == weights["career"]       w == weights["company"]
<1>1. d \in Nat /\ e \in Nat /\ l \in Nat /\ k \in Nat /\ w \in Nat
  BY WeightsAre DEF Component
<1>2. /\ confidence \in Nat /\ confidence <= Scale
      /\ career \in Nat /\ career <= Scale
  BY UnitsAre DEF EvaluationTypeOK
<1>3. Scale \in Nat
  BY EvaluationAssumption
<1>4. CASE company = None
  <2>1. /\ WeightedSum = confidence * d + Scale * e + Scale * l + career * k + 0
        /\ TotalWeight = d + e + l + k + 0
    BY <1>4 DEF WeightedSum, TotalWeight
  <2>. HIDE DEF d, e, l, k, w
  <2>2. confidence * 0 = 0
    BY <1>2
  <2>3. /\ confidence * d + Scale * e + Scale * l + career * k + confidence * 0 \in Nat
        /\ confidence * d + Scale * e + Scale * l + career * k + confidence * 0
             <= Scale * (d + e + l + k + 0)
        /\ \E m \in {confidence, career, confidence} :
             confidence * d + Scale * e + Scale * l + career * k + confidence * 0
               >= m * (d + e + l + k + 0)
    BY <1>1, <1>2, <1>3, MeanOf
  <2>4. /\ WeightedSum = confidence * d + Scale * e + Scale * l + career * k + confidence * 0
        /\ TotalWeight = d + e + l + k + 0
    BY <2>1, <2>2
  <2>5. TotalWeight \in Nat
    BY <2>4, <1>1
  <2>. QED  BY <2>3, <2>4, <2>5
<1>5. CASE company # None
  <2>1. /\ WeightedSum = confidence * d + Scale * e + Scale * l + career * k + company * w
        /\ TotalWeight = d + e + l + k + w
    BY <1>5 DEF WeightedSum, TotalWeight
  <2>2. company \in Nat /\ company <= Scale
    BY <1>5, UnitsAre DEF EvaluationTypeOK
  <2>. HIDE DEF d, e, l, k, w
  <2>3. /\ confidence * d + Scale * e + Scale * l + career * k + company * w \in Nat
        /\ confidence * d + Scale * e + Scale * l + career * k + company * w
             <= Scale * (d + e + l + k + w)
        /\ \E m \in {confidence, career, company} :
             confidence * d + Scale * e + Scale * l + career * k + company * w
               >= m * (d + e + l + k + w)
    BY <1>1, <1>2, <1>3, <2>2, MeanOf
  <2>4. TotalWeight \in Nat
    BY <2>1, <1>1
  <2>. QED  BY <1>5, <2>1, <2>3, <2>4
<1>. QED  BY <1>4, <1>5

(* How a step can end: with no verdict yet, with a rejection, or with the      *)
(* posting accepted, scored or not.                                            *)
LEMMA GoOnIs ==
  ASSUME EvaluationTypeOK, stage \notin {"done", "failed"}, NEW next \in Question \cup {"location"}, GoOn(next)
  PROVE  /\ verdict' = None /\ stage' = next /\ stage' \in Stages \ {"done"}
         /\ attempt' \in 1..MaxAttempts /\ repair' \in BOOLEAN
<1>1. 1 \in 1..MaxAttempts
  BY EvaluationAssumption
<1>2. "done" \notin Question \cup {"location"} /\ Question \cup {"location"} \subseteq Stages
  BY DEF Question, Stages
<1>. QED  BY <1>1, <1>2 DEF GoOn, EvaluationTypeOK

LEMMA RejectIs ==
  ASSUME Reject
  PROVE  /\ verdict' \in Judgement /\ verdict' # None
         /\ verdict'.status = IF job.excluded THEN "Excluded" ELSE "unchanged"
         /\ ~verdict'.passed /\ verdict'.sum = None /\ ~verdict'.cluster
         /\ stage' = "done" /\ attempt' \in 1..MaxAttempts /\ repair' \in BOOLEAN
<1>1. 1 \in 1..MaxAttempts
  BY EvaluationAssumption
<1>2. verdict' = [status |-> IF job.excluded THEN "Excluded" ELSE "unchanged",
                  passed |-> FALSE, sum |-> None, weight |-> None,
                  cluster |-> FALSE, borderline |-> FALSE]
  BY DEF Reject
<1>3. verdict' \in Judgement
  BY <1>2 DEF Judgement
<1>4. verdict' # None
  BY <1>3, NoneAssumption
<1>5. stage' = "done" /\ attempt' \in 1..MaxAttempts /\ repair' \in BOOLEAN
  BY <1>1 DEF Reject
<1>. QED  BY <1>2, <1>3, <1>4, <1>5

LEMMA AcceptIs ==
  ASSUME EvaluationTypeOK, NEW sum \in Nat \cup {None}, NEW weight \in Nat \cup {None}, Accept(sum, weight)
  PROVE  /\ verdict' \in Judgement /\ verdict' # None
         /\ verdict'.status = "unchanged" /\ verdict'.passed
         /\ verdict'.sum = sum /\ verdict'.weight = weight
         /\ stage' = "done" /\ attempt' \in 1..MaxAttempts /\ repair' \in BOOLEAN
<1>1. 1 \in 1..MaxAttempts
  BY EvaluationAssumption
<1>2. verdict' = [status |-> "unchanged", passed |-> TRUE, sum |-> sum, weight |-> weight,
                  cluster |-> cluster, borderline |-> IsBorderline(sum, weight)]
  BY DEF Accept
<1>3. IsBorderline(sum, weight) \in BOOLEAN /\ cluster \in BOOLEAN
  BY DEF IsBorderline, EvaluationTypeOK
<1>4. verdict' \in Judgement
  BY <1>2, <1>3 DEF Judgement
<1>5. verdict' # None
  BY <1>4, NoneAssumption
<1>6. stage' = "done" /\ attempt' \in 1..MaxAttempts /\ repair' \in BOOLEAN
  BY <1>1 DEF Accept
<1>. QED  BY <1>2, <1>4, <1>5, <1>6

LEMMA EvaluationInvariantInit == EvaluationInit => EvaluationInvariant
<1>. SUFFICES ASSUME EvaluationInit PROVE EvaluationInvariant
  OBVIOUS
<1>1. 1 \in 1..MaxAttempts
  BY EvaluationAssumption
<1>2. EvaluationTypeOK
  BY <1>1 DEF EvaluationInit, EvaluationTypeOK, Stages
<1>3. StageTells /\ VerdictTells
  BY DEF EvaluationInit, StageTells, VerdictTells, Question, ScoreQuestion
<1>4. CheapFiltersFirst /\ ScoreIsAMean
  BY DEF EvaluationInit, CheapFiltersFirst, ScoreIsAMean
<1>5. ScoreIsEarned
  BY <1>2 DEF EvaluationInit, ScoreIsEarned
<1>. QED  BY <1>2, <1>3, <1>4, <1>5 DEF EvaluationInvariant

(* No verdict is spoken yet: what is to show is about stage and questions.     *)
LEMMA NothingSaid ==
  ASSUME verdict' = None, EvaluationTypeOK', StageTells', CheapFiltersFirst'
  PROVE  EvaluationInvariant'
BY DEF EvaluationInvariant, VerdictTells, ScoreIsEarned, ScoreIsAMean

(* The posting is turned away. *)
LEMMA RejectKeeps ==
  ASSUME EvaluationInvariant, Reject, stage # "done", asked' \subseteq Question,
         stage = "blacklist" \/ ~job.excluded,
         confidence' \in Units \cup {None}, cluster' \in BOOLEAN,
         UNCHANGED <<weights, job, company, career>>,
         CheapFiltersFirst'
  PROVE  EvaluationInvariant'
<1>1. EvaluationTypeOK'
  BY RejectIs DEF EvaluationInvariant, ScoreIsEarned, EvaluationTypeOK, Stages
<1>2. StageTells'
  BY RejectIs DEF StageTells, Question, ScoreQuestion
<1>3. VerdictTells'
  BY RejectIs DEF VerdictTells
<1>4. ScoreIsEarned' /\ ScoreIsAMean'
  BY <1>1, RejectIs DEF ScoreIsEarned, ScoreIsAMean
<1>. QED  BY <1>1, <1>2, <1>3, <1>4 DEF EvaluationInvariant

(* "Scoring Unavailable". *)
LEMMA UnavailableKeeps ==
  ASSUME EvaluationInvariant, Unavailable, stage \in Question, asked' \subseteq Question,
         career' \in Units \cup {None},
         UNCHANGED <<weights, job, confidence, cluster, company>>,
         CheapFiltersFirst'
  PROVE  EvaluationInvariant'
<1>0. EvaluationTypeOK
  BY DEF EvaluationInvariant, ScoreIsEarned
<1>1. /\ verdict' \in Judgement /\ verdict' # None
      /\ verdict'.status = "unchanged" /\ verdict'.passed /\ verdict'.sum = None
      /\ stage' = "done" /\ attempt' \in 1..MaxAttempts /\ repair' \in BOOLEAN
  BY <1>0, AcceptIs DEF Unavailable
<1>2. EvaluationTypeOK'
  BY <1>0, <1>1 DEF EvaluationTypeOK, Stages
<1>3. StageTells'
  BY <1>1 DEF StageTells, Question, ScoreQuestion
<1>4. VerdictTells'
  BY <1>1 DEF VerdictTells, EvaluationInvariant, StageTells
<1>5. ScoreIsEarned' /\ ScoreIsAMean'
  BY <1>1, <1>2 DEF ScoreIsEarned, ScoreIsAMean
<1>. QED  BY <1>2, <1>3, <1>4, <1>5 DEF EvaluationInvariant

LEMMA EvaluationInvariantStep ==
  EvaluationInvariant /\ [EvaluationNext]_evaluationVars => EvaluationInvariant'
<1>. SUFFICES ASSUME EvaluationInvariant, [EvaluationNext]_evaluationVars
              PROVE  EvaluationInvariant'
  OBVIOUS
<1>0. EvaluationTypeOK /\ StageTells /\ VerdictTells /\ CheapFiltersFirst
  BY DEF EvaluationInvariant, ScoreIsEarned
<1>1. CASE BlacklistFilter
  <2>1. stage = "blacklist" /\ asked = {} /\ asked' = asked
    BY <1>0, <1>1 DEF BlacklistFilter, StageTells
  <2>2. CheapFiltersFirst'
    BY <2>1 DEF CheapFiltersFirst
  <2>3. CASE job.excluded
    <3>1. Reject
      BY <1>1, <2>3 DEF BlacklistFilter
    <3>. QED  BY <1>0, <1>1, <2>1, <2>2, <3>1, RejectKeeps DEF BlacklistFilter, Answers, EvaluationTypeOK
  <2>4. CASE ~job.excluded
    <3>1. GoOn("location")
      BY <1>1, <2>4 DEF BlacklistFilter
    <3>2. /\ verdict' = None /\ stage' = "location" /\ stage' \in Stages \ {"done"}
          /\ attempt' \in 1..MaxAttempts /\ repair' \in BOOLEAN
      BY <1>0, <2>1, <3>1, GoOnIs
    <3>3. EvaluationTypeOK'
      BY <1>0, <1>1, <3>2 DEF BlacklistFilter, Answers, EvaluationTypeOK
    <3>4. StageTells'
      BY <1>1, <2>1, <2>4, <3>1, <3>2 DEF BlacklistFilter, GoOn, StageTells, Question, ScoreQuestion
    <3>. QED  BY <2>2, <3>2, <3>3, <3>4, NothingSaid
  <2>. QED  BY <2>3, <2>4
<1>2. CASE Location
  <2>1. stage = "location" /\ asked = {} /\ asked' = asked /\ ~job.excluded
    BY <1>0, <1>2 DEF Location, StageTells
  <2>2. CheapFiltersFirst'
    BY <2>1 DEF CheapFiltersFirst
  <2>3. CASE ~job.inTarget
    <3>1. Reject
      BY <1>2, <2>3 DEF Location
    <3>. QED  BY <1>0, <1>2, <2>1, <2>2, <3>1, RejectKeeps DEF Location, Answers, EvaluationTypeOK
  <2>4. CASE job.inTarget
    <3>1. GoOn("experience")
      BY <1>2, <2>4 DEF Location
    <3>2. /\ verdict' = None /\ stage' = "experience" /\ stage' \in Stages \ {"done"}
          /\ attempt' \in 1..MaxAttempts /\ repair' \in BOOLEAN
      BY <1>0, <2>1, <3>1, GoOnIs DEF Question
    <3>3. EvaluationTypeOK'
      BY <1>0, <1>2, <3>2 DEF Location, Answers, EvaluationTypeOK
    <3>4. StageTells'
      BY <1>2, <2>1, <2>4, <3>2 DEF Location, StageTells, ScoreQuestion
    <3>. QED  BY <2>2, <3>2, <3>3, <3>4, NothingSaid
  <2>. QED  BY <2>3, <2>4
<1>3. CASE ExperienceByRule
  <2>1. /\ stage = "experience" /\ stage \in Question /\ asked' = asked /\ ~job.excluded /\ job.inTarget
        /\ UNCHANGED <<weights, job, Answers>>
        /\ asked \subseteq {"experience", "department"}
    BY <1>0, <1>3 DEF ExperienceByRule, StageTells, Question
  <2>2. CheapFiltersFirst'
    BY <1>0, <2>1 DEF CheapFiltersFirst, Answers
  <2>3. CASE Reject
    BY <1>0, <2>1, <2>2, <2>3, RejectKeeps DEF Answers, EvaluationTypeOK
  <2>4. CASE GoOn("department")
    <3>2. /\ verdict' = None /\ stage' = "department" /\ stage' \in Stages \ {"done"}
          /\ attempt' \in 1..MaxAttempts /\ repair' \in BOOLEAN
      BY <1>0, <2>1, <2>4, GoOnIs DEF Question
    <3>3. EvaluationTypeOK'
      BY <1>0, <2>1, <3>2 DEF Answers, EvaluationTypeOK
    <3>4. StageTells'
      BY <2>1, <3>2 DEF StageTells, ScoreQuestion
    <3>. QED  BY <2>2, <3>2, <3>3, <3>4, NothingSaid
  <2>. QED  BY <1>3, <2>3, <2>4 DEF ExperienceByRule
<1>4. CASE CompanyFromCache
  <2>1. /\ stage = "company" /\ stage \in Question /\ asked' = asked /\ ~job.excluded /\ job.inTarget
        /\ UNCHANGED <<weights, job, confidence, cluster, career>>
        /\ company' \in Units \cup {None} /\ GoOn("career")
        /\ FiltersPassed /\ "department" \in asked
    BY <1>0, <1>4 DEF CompanyFromCache, StageTells, Question, ScoreQuestion
  <2>2. CheapFiltersFirst'
    BY <1>0, <2>1 DEF CheapFiltersFirst
  <2>3. /\ verdict' = None /\ stage' = "career" /\ stage' \in Stages \ {"done"}
        /\ attempt' \in 1..MaxAttempts /\ repair' \in BOOLEAN
    BY <1>0, <2>1, GoOnIs DEF Question
  <2>4. EvaluationTypeOK'
    BY <1>0, <2>1, <2>3 DEF EvaluationTypeOK
  <2>5. StageTells'
    BY <2>1, <2>3 DEF StageTells, ScoreQuestion, FiltersPassed
  <2>. QED  BY <2>2, <2>3, <2>4, <2>5, NothingSaid
<1>5. ASSUME stage \in Question, asked' = asked \cup {stage},
             UNCHANGED <<weights, job, confidence>>
      PROVE  CheapFiltersFirst' /\ asked' \subseteq Question
  BY <1>0, <1>5 DEF CheapFiltersFirst, StageTells, Question, ScoreQuestion, FiltersPassed, EvaluationTypeOK
<1>6. CASE TransientError \/ OtherError \/ Misfit
  <2>1. /\ stage \in Question /\ asked' = asked \cup {stage} /\ UNCHANGED <<weights, job, verdict, Answers>>
        /\ stage' = stage \/ stage' = "failed"
        /\ attempt' = 1 \/ attempt' = attempt \/ (attempt < MaxAttempts /\ attempt' = attempt + 1)
        /\ repair' \in BOOLEAN
    BY <1>0, <1>6 DEF TransientError, OtherError, Misfit, Asks, EvaluationTypeOK
  <2>2. verdict' = None /\ stage' \in Stages \ {"done"}
    BY <1>0, <2>1 DEF EvaluationTypeOK, Stages, Question
  <2>3. attempt' \in 1..MaxAttempts
    BY <1>0, <2>1, EvaluationAssumption DEF EvaluationTypeOK
  <2>4. CheapFiltersFirst' /\ asked' \subseteq Question
    BY <1>5, <2>1 DEF Answers
  <2>5. EvaluationTypeOK'
    BY <1>0, <2>1, <2>2, <2>3, <2>4 DEF EvaluationTypeOK, Answers
  <2>6. StageTells'
    BY <1>0, <2>1 DEF StageTells, Question, ScoreQuestion, FiltersPassed, Answers, TotalWeight
  <2>. QED  BY <2>2, <2>4, <2>5, <2>6, NothingSaid
<1>7. CASE NoAnswer
  <2>1. stage \in Question /\ asked' = asked \cup {stage} /\ UNCHANGED <<weights, job, Answers>>
    BY <1>7 DEF NoAnswer, Asks
  <2>2. CheapFiltersFirst' /\ asked' \subseteq Question /\ ~job.excluded /\ job.inTarget
    BY <1>0, <1>5, <2>1 DEF Answers, StageTells
  <2>3. CASE Reject
    BY <1>0, <2>1, <2>2, <2>3, RejectKeeps DEF Answers, EvaluationTypeOK, Question
  <2>4. CASE stage = "company" /\ GoOn("career")
    <3>2. /\ verdict' = None /\ stage' = "career" /\ stage' \in Stages \ {"done"}
          /\ attempt' \in 1..MaxAttempts /\ repair' \in BOOLEAN
      BY <1>0, <2>1, <2>4, GoOnIs DEF Question
    <3>3. EvaluationTypeOK'
      BY <1>0, <2>1, <2>2, <3>2 DEF Answers, EvaluationTypeOK
    <3>4. StageTells'
      BY <1>0, <2>1, <2>2, <2>4, <3>2 DEF StageTells, ScoreQuestion, FiltersPassed, Answers
    <3>. QED  BY <2>2, <3>2, <3>3, <3>4, NothingSaid
  <2>5. CASE Unavailable
    BY <1>0, <2>1, <2>2, <2>5, UnavailableKeeps DEF Answers, EvaluationTypeOK
  <2>. QED  BY <1>7, <2>3, <2>4, <2>5 DEF NoAnswer
<1>8. CASE AnswerExperience
  <2>1. /\ stage = "experience" /\ stage \in Question /\ asked' = asked \cup {stage}
        /\ UNCHANGED <<weights, job, Answers>>
    BY <1>8 DEF AnswerExperience, Asks
  <2>2. CheapFiltersFirst' /\ asked' \subseteq Question /\ ~job.excluded /\ job.inTarget
    BY <1>0, <1>5, <2>1 DEF Answers, StageTells
  <2>3. CASE Reject
    BY <1>0, <2>1, <2>2, <2>3, RejectKeeps DEF Answers, EvaluationTypeOK
  <2>4. CASE GoOn("department")
    <3>2. /\ verdict' = None /\ stage' = "department" /\ stage' \in Stages \ {"done"}
          /\ attempt' \in 1..MaxAttempts /\ repair' \in BOOLEAN
      BY <1>0, <2>1, <2>4, GoOnIs DEF Question
    <3>3. EvaluationTypeOK'
      BY <1>0, <2>1, <2>2, <3>2 DEF Answers, EvaluationTypeOK
    <3>4. StageTells'
      BY <1>0, <2>1, <2>2, <3>2 DEF StageTells, ScoreQuestion
    <3>. QED  BY <2>2, <3>2, <3>3, <3>4, NothingSaid
  <2>. QED  BY <1>8, <2>3, <2>4 DEF AnswerExperience
<1>9. CASE AnswerDepartment
  <2>1. /\ stage = "department" /\ asked' = asked \cup {stage}
        /\ confidence' \in Units /\ cluster' \in BOOLEAN
        /\ UNCHANGED <<weights, job, company, career>>
    BY <1>9 DEF AnswerDepartment
  <2>2. ~job.excluded /\ job.inTarget /\ asked' \subseteq {"experience", "department"}
    BY <1>0, <2>1 DEF StageTells, Question
  <2>3. CheapFiltersFirst'
    BY <2>1, <2>2 DEF CheapFiltersFirst
  <2>4. CASE Reject
    BY <1>0, <2>1, <2>2, <2>3, <2>4, RejectKeeps DEF Question
  <2>5. CASE confidence' >= Confidence - Tolerance /\ GoOn("company")
    <3>2. /\ verdict' = None /\ stage' = "company" /\ stage' \in Stages \ {"done"}
          /\ attempt' \in 1..MaxAttempts /\ repair' \in BOOLEAN
      BY <1>0, <2>1, <2>5, GoOnIs DEF Question
    <3>3. EvaluationTypeOK'
      BY <1>0, <2>1, <2>2, <3>2 DEF EvaluationTypeOK, Question
    <3>4. confidence' # None
      BY <2>1, UnitsAre
    <3>5. StageTells'
      BY <2>1, <2>2, <2>5, <3>2, <3>4 DEF StageTells, ScoreQuestion, FiltersPassed
    <3>. QED  BY <2>3, <3>2, <3>3, <3>5, NothingSaid
  <2>. QED  BY <1>9, <2>4, <2>5 DEF AnswerDepartment
<1>10. CASE AnswerCompany
  <2>1. /\ stage = "company" /\ stage \in Question /\ asked' = asked \cup {stage}
        /\ UNCHANGED <<weights, job, confidence, cluster, career>>
        /\ company' \in Units \cup {None} /\ GoOn("career")
    BY <1>10 DEF AnswerCompany, Question
  <2>2. CheapFiltersFirst' /\ asked' \subseteq Question /\ ~job.excluded /\ job.inTarget
    BY <1>0, <1>5, <2>1 DEF StageTells
  <2>3. /\ verdict' = None /\ stage' = "career" /\ stage' \in Stages \ {"done"}
        /\ attempt' \in 1..MaxAttempts /\ repair' \in BOOLEAN
    BY <1>0, <2>1, GoOnIs DEF Question
  <2>4. EvaluationTypeOK'
    BY <1>0, <2>1, <2>2, <2>3 DEF EvaluationTypeOK
  <2>5. StageTells'
    BY <1>0, <2>1, <2>2, <2>3 DEF StageTells, ScoreQuestion, FiltersPassed
  <2>. QED  BY <2>2, <2>3, <2>4, <2>5, NothingSaid
<1>11. CASE AnswerCareer
  <2>1. /\ stage = "career" /\ stage \in Question /\ asked' = asked \cup {stage}
        /\ UNCHANGED <<weights, job, confidence, cluster, company>>
        /\ career' \in Units
    BY <1>11 DEF AnswerCareer, Question
  <2>2. CheapFiltersFirst' /\ asked' \subseteq Question /\ ~job.excluded /\ job.inTarget
    BY <1>0, <1>5, <2>1 DEF StageTells
  <2>3. CASE Unavailable
    BY <2>1, <2>2, <2>3, UnavailableKeeps
  <2>4. CASE TotalWeight # 0 /\ GoOn("rationale")
    <3>2. /\ verdict' = None /\ stage' = "rationale" /\ stage' \in Stages \ {"done"}
          /\ attempt' \in 1..MaxAttempts /\ repair' \in BOOLEAN
      BY <1>0, <2>1, <2>4, GoOnIs DEF Question
    <3>3. EvaluationTypeOK'
      BY <1>0, <2>1, <2>2, <3>2 DEF EvaluationTypeOK
    <3>4. career' # None /\ TotalWeight' = TotalWeight
      BY <2>1, UnitsAre DEF TotalWeight
    <3>5. StageTells'
      BY <1>0, <2>1, <2>2, <2>4, <3>2, <3>4 DEF StageTells, ScoreQuestion, FiltersPassed
    <3>. QED  BY <2>2, <3>2, <3>3, <3>5, NothingSaid
  <2>. QED  BY <1>11, <2>3, <2>4 DEF AnswerCareer
<1>12. CASE AnswerRationale
  <2>1. /\ stage = "rationale" /\ stage \in Question /\ asked' = asked \cup {stage}
        /\ UNCHANGED <<weights, job, confidence, cluster, company, career>>
    BY <1>12 DEF AnswerRationale, Question, Answers
  <2>2. CheapFiltersFirst' /\ asked' \subseteq Question /\ ~job.excluded /\ job.inTarget
    BY <1>0, <1>5, <2>1 DEF StageTells
  <2>3. CASE Unavailable
    BY <1>0, <2>1, <2>2, <2>3, UnavailableKeeps DEF EvaluationTypeOK
  <2>4. CASE Accept(WeightedSum, TotalWeight)
    <3>1. /\ confidence # None /\ career # None /\ TotalWeight # 0
          /\ {"department", "career"} \subseteq asked
      BY <1>0, <2>1 DEF StageTells, ScoreQuestion, FiltersPassed
    <3>2. /\ WeightedSum \in Nat /\ TotalWeight \in Nat
          /\ WeightedSum <= Scale * TotalWeight
          /\ \E worst \in {confidence, career, company} \ {None} : WeightedSum >= worst * TotalWeight
      BY <1>0, <3>1, ScoreIs
    <3>3. /\ verdict' \in Judgement /\ verdict' # None
          /\ verdict'.status = "unchanged" /\ verdict'.passed
          /\ verdict'.sum = WeightedSum /\ verdict'.weight = TotalWeight
          /\ stage' = "done" /\ attempt' \in 1..MaxAttempts /\ repair' \in BOOLEAN
      BY <1>0, <2>4, <3>2, AcceptIs
    <3>4. EvaluationTypeOK'
      BY <1>0, <2>1, <2>2, <3>3 DEF EvaluationTypeOK, Stages
    <3>5. StageTells'
      BY <3>3 DEF StageTells, Question, ScoreQuestion
    <3>6. VerdictTells'
      BY <2>1, <2>2, <3>2, <3>3, NoneIsNoNumber DEF VerdictTells
    <3>7. ScoreIsEarned'
      BY <2>1, <3>1, <3>4 DEF ScoreIsEarned
    <3>8. ScoreIsAMean'
      <4>1. TotalWeight > 0
        BY <3>1, <3>2
      <4>2. \E worst \in {confidence', career', company'} \ {None} : WeightedSum >= worst * TotalWeight
        BY <2>1, <3>2
      <4>. QED  BY <3>2, <3>3, <4>1, <4>2 DEF ScoreIsAMean
    <3>. QED  BY <2>2, <3>4, <3>5, <3>6, <3>7, <3>8 DEF EvaluationInvariant
  <2>. QED  BY <1>12, <2>3, <2>4 DEF AnswerRationale
<1>13. CASE UNCHANGED evaluationVars
  <2>1. EvaluationTypeOK' /\ StageTells' /\ VerdictTells' /\ CheapFiltersFirst'
    BY <1>0, <1>13 DEF evaluationVars, EvaluationTypeOK, StageTells, VerdictTells, CheapFiltersFirst,
                       FiltersPassed, TotalWeight
  <2>2. ScoreIsEarned' /\ ScoreIsAMean'
    BY <1>13, <2>1 DEF evaluationVars, EvaluationInvariant, ScoreIsEarned, ScoreIsAMean
  <2>. QED  BY <2>1, <2>2 DEF EvaluationInvariant
<1>. QED
  BY <1>1, <1>2, <1>3, <1>4, <1>6, <1>7, <1>8, <1>9, <1>10, <1>11, <1>12, <1>13
     DEF EvaluationNext, Rule, Answer, Error, Ended

LEMMA EvaluationInvariantAlways == EvaluationSpec => []EvaluationInvariant
BY EvaluationInvariantInit, EvaluationInvariantStep, PTL DEF EvaluationSpec

(* PRD 11.4: no question is put to the LLM about a posting that blacklist or   *)
(* location turn away, and none for a score of one that does not pass.         *)
THEOREM NobodyPaysForRejects == EvaluationSpec => []CheapFiltersFirst
BY EvaluationInvariantAlways, PTL DEF EvaluationInvariant

(* FR-7: a score has a confidence, an alignment and a rationale behind it that *)
(* have been asked for, whatever retries, repairs and missing answers came.    *)
THEOREM ScoresAreEarned == EvaluationSpec => []ScoreIsEarned
BY EvaluationInvariantAlways, PTL DEF EvaluationInvariant

(* PRD 12.3: for all weights an account may have, a score is within the scale  *)
(* and not below the worst figure in it, with a rated company and without.     *)
THEOREM ScoresAreMeans == EvaluationSpec => []ScoreIsAMean
BY EvaluationInvariantAlways, PTL DEF EvaluationInvariant

(* How often the LLM can be called for one posting, without fairness: a        *)
(* question is asked anew once at the most, each time with all its attempts.   *)
Turn == [s \in Stages |->
           IF s = "department" THEN 1 ELSE IF s = "company" THEN 2
           ELSE IF s = "career" THEN 3 ELSE IF s = "rationale" THEN 4 ELSE 0]

Tries == (IF repair THEN MaxAttempts ELSE 0) + attempt

(* The number that the next call has at the most.                              *)
CallNumber == Turn[stage] * (2 * MaxAttempts) + Tries

MaxCalls == 5 * (2 * MaxAttempts)

LEMMA TriesAre ==
  ASSUME EvaluationTypeOK
  PROVE  Tries \in 1..(2 * MaxAttempts) /\ MaxAttempts \in Nat \ {0}
<1>1. attempt \in 1..MaxAttempts /\ repair \in BOOLEAN /\ MaxAttempts \in Nat \ {0}
  BY EvaluationAssumption DEF EvaluationTypeOK
<1>2. CASE repair
  BY <1>1, <1>2 DEF Tries
<1>3. CASE ~repair
  BY <1>1, <1>3 DEF Tries
<1>. QED  BY <1>1, <1>2, <1>3

LEMMA TurnsAre == /\ Turn["department"] = 1 /\ Turn["company"] = 2 /\ Turn["career"] = 3
                  /\ Turn["rationale"] = 4
                  /\ \A s \in Stages : Turn[s] \in 0..4
                  /\ \A s \in {"blacklist", "location", "experience"} : Turn[s] = 0
BY DEF Turn, Stages, Question

LEMMA CallNumbersAre == EvaluationInvariant => CallNumber \in 1..MaxCalls
<1>. SUFFICES ASSUME EvaluationTypeOK PROVE CallNumber \in 1..MaxCalls
  BY DEF EvaluationInvariant, ScoreIsEarned
<1>1. Tries \in 1..(2 * MaxAttempts) /\ MaxAttempts \in Nat \ {0}
  BY TriesAre
<1>2. Turn[stage] \in 0..4
  BY TurnsAre DEF EvaluationTypeOK
<1>. QED  BY <1>1, <1>2 DEF CallNumber, MaxCalls

(* A later question has a higher number, however often the one before was put. *)
LEMMA LaterIsMore ==
  ASSUME EvaluationTypeOK, Tries' = 1, Turn[stage] \in 0..4, Turn[stage'] \in 0..4,
         Turn[stage] < Turn[stage']
  PROVE  CallNumber < CallNumber'
<1>1. Tries \in 1..(2 * MaxAttempts) /\ MaxAttempts \in Nat \ {0}
  BY TriesAre
<1>. DEFINE k == 2 * MaxAttempts
<1>2. k \in Nat /\ Tries \in 1..k
  BY <1>1
<1>3. CallNumber = Turn[stage] * k + Tries /\ CallNumber' = Turn[stage'] * k + 1
  BY DEF CallNumber
<1>4. k \in Nat /\ Tries \in 1..k /\ CallNumber = Turn[stage] * k + Tries
      /\ CallNumber' = Turn[stage'] * k + 1
  BY <1>2, <1>3
<1>5. Turn[stage] * k + k <= Turn[stage'] * k /\ Turn[stage] * k \in Nat /\ Turn[stage'] * k \in Nat
  <2>. HIDE DEF k
  <2>1. (Turn[stage] + 1) * k <= Turn[stage'] * k /\ (Turn[stage] + 1) * k = Turn[stage] * k + k
    BY <1>4, Monotone
  <2>. QED  BY <1>4, <2>1
<1>. HIDE DEF k
<1>. QED  BY <1>4, <1>5

(* TDD 10 and 21: one repair, bounded retries.  A posting costs no more than   *)
(* ten times llm_retry_attempts calls of the LLM: every call raises the number *)
(* of the next one or ends the evaluation, and nothing lowers it.              *)
THEOREM CallsAreBounded ==
  EvaluationSpec => [][stage' \notin {"done", "failed"} =>
                         /\ Answer \/ Error => CallNumber < CallNumber'
                         /\ CallNumber <= CallNumber'
                         /\ CallNumber' <= MaxCalls]_evaluationVars
<1>. DEFINE Rises == CallNumber < CallNumber'
            Goes  == stage' \notin {"done", "failed"}
<1>1. ASSUME EvaluationInvariant, CallNumber \in 1..MaxCalls, (CallNumber \in 1..MaxCalls)',
             EvaluationNext, Goes, evaluationVars' # evaluationVars
      PROVE  /\ Answer \/ Error => Rises
             /\ CallNumber <= CallNumber'
             /\ CallNumber' <= MaxCalls
  <2>0. EvaluationTypeOK
    BY <1>1 DEF EvaluationInvariant, ScoreIsEarned
  <2>1. /\ CallNumber \in Nat \ {0} /\ CallNumber' \in Nat /\ CallNumber' <= MaxCalls
        /\ MaxAttempts \in Nat \ {0} /\ attempt \in 1..MaxAttempts /\ Tries \in Nat
        /\ Rises => CallNumber <= CallNumber'
    <3>1. MaxCalls' = MaxCalls /\ MaxCalls \in Nat
      BY EvaluationAssumption DEF MaxCalls
    <3>2. MaxAttempts \in Nat \ {0} /\ attempt \in 1..MaxAttempts /\ Tries \in 1..(2 * MaxAttempts)
      BY <2>0, TriesAre DEF EvaluationTypeOK
    <3>. QED  BY <1>1, <3>1, <3>2
  <2>2. ASSUME Rises PROVE CallNumber <= CallNumber'
    BY <2>1, <2>2
  <2>3. CASE AnswerExperience \/ AnswerDepartment \/ AnswerCompany \/ AnswerCareer \/ NoAnswer
             \/ ExperienceByRule \/ CompanyFromCache
    <3>1. /\ attempt' = 1 /\ repair' = FALSE
          /\ \/ stage = "experience" /\ stage' = "department"
             \/ stage = "department" /\ stage' = "company"
             \/ stage = "company" /\ stage' = "career"
             \/ stage = "career" /\ stage' = "rationale"
      BY <1>1, <2>3 DEF AnswerExperience, AnswerDepartment, AnswerCompany, AnswerCareer, NoAnswer,
                        ExperienceByRule, CompanyFromCache, GoOn, Reject, Accept, Unavailable
    <3>2. Turn["experience"] = 0
      BY TurnsAre
    <3>3. Turn[stage] \in 0..4 /\ Turn[stage'] \in 0..4 /\ Turn[stage] < Turn[stage']
      BY <3>1, <3>2, TurnsAre
    <3>4. Tries' = 1
      BY <3>1 DEF Tries
    <3>5. Rises
      BY <2>0, <3>3, <3>4, LaterIsMore
    <3>. QED  BY <2>1, <3>5, Zenon
  <2>4. CASE TransientError \/ Misfit
    <3>1. stage' = stage /\ Tries' \in Nat /\ Tries < Tries'
      <4>1. CASE TransientError
        <5>1. stage' = stage /\ repair' = repair /\ attempt' = attempt + 1
          BY <1>1, <4>1 DEF TransientError
        <5>2. Tries' = (IF repair THEN MaxAttempts ELSE 0) + (attempt + 1)
          BY <5>1 DEF Tries
        <5>. QED  BY <2>1, <5>1, <5>2 DEF Tries
      <4>2. CASE Misfit
        <5>1. stage' = stage /\ ~repair /\ repair' /\ attempt' = 1
          BY <4>2 DEF Misfit
        <5>2. Tries = attempt /\ Tries' = MaxAttempts + 1
          BY <5>1, <2>1 DEF Tries
        <5>. QED  BY <2>1, <5>1, <5>2
      <4>. QED  BY <2>4, <4>1, <4>2
    <3>2. Turn[stage] * (2 * MaxAttempts) \in Nat
      <4>1. Turn[stage] \in Nat /\ 2 * MaxAttempts \in Nat
        BY <2>0, <2>1, TurnsAre DEF EvaluationTypeOK
      <4>. QED  BY <4>1, Monotone
    <3>3. CallNumber' = Turn[stage] * (2 * MaxAttempts) + Tries'
      BY <3>1 DEF CallNumber
    <3>4. Rises
      BY <2>1, <3>1, <3>2, <3>3 DEF CallNumber
    <3>. QED  BY <2>1, <3>4, Zenon
  <2>5. CASE BlacklistFilter \/ Location
    <3>1. /\ attempt' = 1 /\ repair' = FALSE
          /\ stage \in {"blacklist", "location"} /\ stage' \in {"location", "experience"}
      BY <1>1, <2>5 DEF BlacklistFilter, Location, GoOn, Reject
    <3>2. Turn[stage] = 0 /\ Turn[stage'] = 0
      BY <3>1, TurnsAre
    <3>3. Tries' = 1 /\ Tries = 1
      BY <1>1, <3>1 DEF Tries, EvaluationInvariant, StageTells
    <3>4. CallNumber' = 1 /\ CallNumber = 1
      BY <2>1, <3>2, <3>3 DEF CallNumber
    <3>5. CallNumber <= CallNumber'
      BY <3>4
    <3>6. ~(Answer \/ Error)
      BY <3>1 DEF Answer, Error, AnswerExperience, AnswerDepartment, AnswerCompany, AnswerCareer,
                  AnswerRationale, TransientError, OtherError, Misfit, NoAnswer, Asks, Question
    <3>. QED  BY <2>1, <3>5, <3>6, Zenon
  <2>6. CASE OtherError \/ AnswerRationale \/ Ended
    BY <1>1, <2>6 DEF OtherError, AnswerRationale, Ended, Accept, Unavailable, evaluationVars
  <2>. QED  BY <1>1, <2>3, <2>4, <2>5, <2>6 DEF EvaluationNext, Rule, Answer, Error
<1>2. ASSUME EvaluationInvariant, CallNumber \in 1..MaxCalls, (CallNumber \in 1..MaxCalls)',
             [EvaluationNext]_evaluationVars
      PROVE  [Goes => /\ Answer \/ Error => Rises
                      /\ CallNumber <= CallNumber'
                      /\ CallNumber' <= MaxCalls]_evaluationVars
  BY <1>1, <1>2
<1>. QED  BY <1>2, CallNumbersAre, EvaluationInvariantAlways, PTL DEF EvaluationSpec

(* What the history is given of an evaluation: the score, in whole units, and  *)
(* whether the job has a department.                                           *)
HistoryVerdict ==
  [score   |-> IF verdict.sum = None THEN NoScore ELSE verdict.sum \div verdict.weight,
   grouped |-> verdict.cluster]

LEMMA QuotientIs ==
  ASSUME NEW s \in Nat, NEW w \in Nat, w > 0, NEW S \in Nat, s <= S * w
  PROVE  s \div w \in 0..S
<1>1. PICK q \in Nat : q = s \div w /\ q * w <= s
  OBVIOUS
<1>2. ASSUME q > S PROVE FALSE
  <2>1. (S + 1) * w <= q * w /\ (S + 1) * w = S * w + w /\ S * w \in Nat /\ q * w \in Nat
    BY <1>2, Monotone
  <2>. QED  BY <1>1, <2>1
<1>. QED  BY <1>1, <1>2

(* JobHistory lets filters and model answer as they like: every verdict that   *)
(* an evaluation comes to is one it reckons with, and the row it writes has    *)
(* the status, score and department the evaluation gave the posting.           *)
THEOREM VerdictsAreTheHistorys ==
  ASSUME MaxScore = Scale, NEW j \in Job
  PROVE  EvaluationSpec =>
           [](verdict # None =>
                /\ HistoryVerdict \in Verdict
                /\ (j \in excluded <=> job.excluded) =>
                     \A status \in Status :
                       Evaluation(j, status, HistoryVerdict) =
                         Judged(j, IF verdict.status = "Excluded" THEN "Excluded" ELSE status,
                                   HistoryVerdict))
<1>1. EvaluationInvariant /\ verdict # None =>
        /\ HistoryVerdict \in Verdict
        /\ (j \in excluded <=> job.excluded) =>
             \A status \in Status :
               Evaluation(j, status, HistoryVerdict) =
                 Judged(j, IF verdict.status = "Excluded" THEN "Excluded" ELSE status,
                           HistoryVerdict)
  <2>. SUFFICES ASSUME EvaluationInvariant, verdict # None
                PROVE  /\ HistoryVerdict \in Verdict
                       /\ job.excluded => HistoryVerdict = [score |-> NoScore, grouped |-> FALSE]
    BY DEF EvaluationInvariant, VerdictTells, Evaluation
  <2>1. verdict \in Judgement
    BY DEF EvaluationInvariant, ScoreIsEarned, EvaluationTypeOK
  <2>2. verdict.cluster \in BOOLEAN /\ verdict.sum \in Nat \cup {None}
        /\ verdict.weight \in Nat \cup {None}
    BY <2>1 DEF Judgement
  <2>3. ASSUME NEW score \in Score
        PROVE  [score |-> score, grouped |-> verdict.cluster] \in Verdict
    BY <2>2 DEF Verdict
  <2>4. CASE verdict.sum = None
    <3>1. HistoryVerdict = [score |-> NoScore, grouped |-> verdict.cluster]
      BY <2>4 DEF HistoryVerdict
    <3>2. NoScore \in Score
      BY DEF Score
    <3>3. HistoryVerdict \in Verdict
      BY <2>3, <3>1, <3>2
    <3>4. job.excluded => ~verdict.cluster
      BY DEF EvaluationInvariant, VerdictTells
    <3>. QED  BY <2>2, <3>1, <3>3, <3>4
  <2>5. CASE verdict.sum # None
    <3>1. /\ verdict.sum \in Nat /\ verdict.weight \in Nat
          /\ verdict.weight > 0 /\ verdict.sum <= Scale * verdict.weight
      BY <2>2, <2>5 DEF EvaluationInvariant, ScoreIsAMean, VerdictTells
    <3>2. verdict.sum \div verdict.weight \in Score
      BY <3>1, QuotientIs, EvaluationAssumption DEF Score
    <3>3. ~job.excluded
      BY <2>5 DEF EvaluationInvariant, VerdictTells
    <3>4. HistoryVerdict = [score   |-> verdict.sum \div verdict.weight,
                            grouped |-> verdict.cluster]
      BY <2>5 DEF HistoryVerdict
    <3>. QED  BY <2>3, <3>2, <3>3, <3>4
  <2>. QED  BY <2>4, <2>5
<1>. QED  BY <1>1, EvaluationInvariantAlways, PTL
=============================================================================
