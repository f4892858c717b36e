------------------------- MODULE OrchestratorProofs -------------------------
(***************************************************************************)
(* What the runs of an account guarantee for every number of runs and jobs *)
(* and every duration of lease, run and modelled time.                     *)
(***************************************************************************)
EXTENDS Orchestrator, TLAPS

LEMMA HistoryDomain ==
  ASSUME NEW h \in Histories
  PROVE  /\ DOMAIN h \in SUBSET Job
         /\ h \in [DOMAIN h -> Row]
BY DEF Histories

(* The history a run's final transaction leaves: its domain and its rows. *)
LEMMA UpdatedHistoryType ==
  ASSUME TypeOK, PositionTells, NEW r \in Run
  PROVE  /\ UpdatedHistory(r) \in Histories
         /\ DOMAIN UpdatedHistory(r) = DOMAIN history \cup run[r].scan
<1> DEFINE previous == run[r].previous
           updated == DOMAIN history \cup run[r].scan
<1>1. history \in Histories /\ previous \in Histories /\ run[r].scan \in SUBSET Job
  BY DEF TypeOK, RunRecord
<1>2. DOMAIN history \in SUBSET Job /\ history \in [DOMAIN history -> Row]
  BY <1>1, HistoryDomain
<1>3. DOMAIN previous \subseteq DOMAIN history
  BY DEF PositionTells, RunTells
<1>4. updated \in SUBSET Job
  BY <1>1, <1>2
<1>5. ASSUME NEW j \in updated PROVE UpdatedHistory(r)[j] \in Row
  <2>1. CASE j \in run[r].scan
    <3>1. j \in DOMAIN previous => history[j] \in Row
      BY <1>2, <1>3
    <3>2. QED
      BY <2>1, <3>1 DEF UpdatedHistory, Row
  <2>2. CASE j \notin run[r].scan
    <3>1. history[j] \in Row
      BY <1>2, <2>2
    <3>2. [history[j] EXCEPT !.status = "closed"] \in Row
      BY <3>1 DEF Row
    <3>3. QED
      BY <2>2, <3>1, <3>2 DEF UpdatedHistory
  <2>3. QED
    BY <2>1, <2>2
<1>6. UpdatedHistory(r) \in [updated -> Row]
  BY <1>5 DEF UpdatedHistory
<1>7. QED
  BY <1>4, <1>6 DEF Histories

(* A run's own step leaves a record for every run. *)
LEMMA BecomesType ==
  ASSUME run \in [Run -> RunRecord], NEW r \in Run, NEW record \in RunRecord,
         Becomes(r, record)
  PROVE  run' \in [Run -> RunRecord]
BY DEF Becomes

LEMMA GotoType ==
  ASSUME run \in [Run -> RunRecord], NEW r \in Run,
         NEW where \in {"new"} \cup Active \cup Stopped, Goto(r, where)
  PROVE  run' \in [Run -> RunRecord]
BY BecomesType DEF Goto, RunRecord

LEMMA RaiseType ==
  ASSUME run \in [Run -> RunRecord], NEW r \in Run,
         Fail(r) \/ Raise(r, "session")
  PROVE  run' \in [Run -> RunRecord]
BY BecomesType DEF Fail, Raise, RunRecord, Active

(* What a commit leaves in session_status. *)
LEMMA CommittedType ==
  ASSUME TypeOK, NEW r \in Run
  PROVE  Committed(r) \in {"none", "valid", "expired"}
BY DEF Committed, TypeOK, RunRecord

LEMMA OutcomeType ==
  ASSUME NEW r PROVE Outcome(r) \in {"success", "partial"}
BY Zenon DEF Outcome

LEMMA NoHistoryType == NoHistory \in Histories /\ DOMAIN NoHistory = {}
<1>1. NoHistory \in [{} -> Row]
  BY DEF NoHistory
<1>2. QED
  BY <1>1 DEF Histories

-----------------------------------------------------------------------------
LEMMA TypeCorrectInitially == Init => TypeOK
BY NoHistoryType, RunAssumption DEF Init, TypeOK, RunRecord, NewRun, Active, Stopped, Pipeline

LEMMA TypeCorrectStep == TypeOK /\ PositionTells /\ [Next]_vars => TypeOK'
<1> SUFFICES ASSUME TypeOK, PositionTells, [Next]_vars PROVE TypeOK'
  OBVIOUS
<1> USE RunAssumption DEF dbVars
<1>0. run \in [Run -> RunRecord]
  BY DEF TypeOK
<1>1. CASE Tick
  BY <1>1 DEF Tick, TypeOK
<1>2. ASSUME NEW r \in Run, RunAccount(r) PROVE TypeOK'
  <2>1. run' \in [Run -> RunRecord]
    <3>1. (DOMAIN history = {}) \in BOOLEAN /\ run[r] \in RunRecord
      BY <1>0
    <3>2. [run[r] EXCEPT !.pc = "load", !.bootstrap = (DOMAIN history = {})] \in RunRecord
      BY <3>1 DEF RunRecord, Active
    <3>3. QED
      BY <1>2, <1>0, <3>2, BecomesType DEF RunAccount
  <2>2. QED
    BY <1>2, <2>1 DEF RunAccount, TypeOK
<1>3. ASSUME NEW r \in Run, LoadContext(r) PROVE TypeOK'
  <2>1. run' \in [Run -> RunRecord]
    BY <1>3, <1>0, BecomesType, GotoType, RaiseType
    DEF LoadContext, RunRecord, Active, Stopped, Pipeline
  <2>2. QED
    BY <1>3, <2>1 DEF LoadContext, TypeOK
<1>4. ASSUME NEW r \in Run, Acquire(r) PROVE TypeOK'
  <2>1. run' \in [Run -> RunRecord]
    <3>1. NobodyElseWorks(r) \in BOOLEAN /\ run[r] \in RunRecord
      BY <1>0 DEF NobodyElseWorks
    <3>2. [run[r] EXCEPT !.pc = "validate", !.locked = TRUE,
                         !.alone = NobodyElseWorks(r)] \in RunRecord
      BY <3>1 DEF RunRecord, Active, Pipeline
    <3>3. QED
      BY <1>4, <1>0, <3>2, BecomesType DEF Acquire
  <2>2. QED
    BY <1>4, <2>1 DEF Acquire, TypeOK, Lock!HeldRow
<1>5. ASSUME NEW r \in Run, Refuse(r) PROVE TypeOK'
  <2>1. run' \in [Run -> RunRecord]
    BY <1>5, <1>0, BecomesType, GotoType, RaiseType
    DEF Refuse, RunRecord, Active, Stopped, Pipeline
  <2>2. QED
    BY <1>5, <2>1 DEF Refuse, TypeOK
<1>6. ASSUME NEW r \in Run, Validate(r) PROVE TypeOK'
  <2>1. run' \in [Run -> RunRecord]
    BY <1>6, <1>0, BecomesType, GotoType, RaiseType
    DEF Validate, RunRecord, Active, Stopped, Pipeline
  <2>2. QED
    BY <1>6, <2>1 DEF Validate, TypeOK
<1>7. ASSUME NEW r \in Run, Collect(r) PROVE TypeOK'
  <2>1. run' \in [Run -> RunRecord]
    <3>1. history \in Histories /\ run[r] \in RunRecord
      BY <1>0 DEF TypeOK
    <3>2. ASSUME NEW seen \in SUBSET Job, NEW complete \in BOOLEAN
          PROVE  [run[r] EXCEPT !.pc = "persist", !.scan = seen,
                                !.complete = complete, !.previous = history] \in RunRecord
      BY <3>1 DEF RunRecord, Active, Stopped, Pipeline
    <3>3. QED
      BY <1>7, <1>0, <3>2, BecomesType, RaiseType DEF Collect
  <2>2. QED
    BY <1>7, <2>1 DEF Collect, TypeOK
<1>8. ASSUME NEW r \in Run, PersistPostings(r) PROVE TypeOK'
  <2>1. run' \in [Run -> RunRecord]
    BY <1>8, <1>0, BecomesType, GotoType, RaiseType
    DEF PersistPostings, RunRecord, Active, Stopped, Pipeline
  <2>2. QED
    <3>1. run[r].scan \in SUBSET Job
      BY <1>0 DEF RunRecord
    <3>2. QED
      BY <1>8, <2>1, <3>1, CommittedType DEF PersistPostings, TypeOK
<1>9. ASSUME NEW r \in Run, Evaluate(r) PROVE TypeOK'
  <2>1. run' \in [Run -> RunRecord]
    BY <1>9, <1>0, BecomesType, GotoType, RaiseType
    DEF Evaluate, RunRecord, Active, Stopped, Pipeline
  <2>2. QED
    BY <1>9, <2>1 DEF Evaluate, TypeOK
<1>10. ASSUME NEW r \in Run, CompileReport(r) PROVE TypeOK'
  <2>1. run' \in [Run -> RunRecord]
    BY <1>10, <1>0, BecomesType, GotoType, RaiseType
    DEF CompileReport, RunRecord, Active, Stopped, Pipeline
  <2>2. QED
    BY <1>10, <2>1 DEF CompileReport, TypeOK
<1>11. ASSUME NEW r \in Run, StateUpdate(r) PROVE TypeOK'
  <2>1. run' \in [Run -> RunRecord]
    BY <1>11, <1>0, BecomesType, GotoType, RaiseType
    DEF StateUpdate, RunRecord, Active, Stopped, Pipeline
  <2>2. QED
    <3>1. history' \in Histories
      <4>1. UpdatedHistory(r) \in Histories
        BY UpdatedHistoryType
      <4>2. history \in Histories
        BY DEF TypeOK
      <4>3. QED
        BY <1>11, <4>1, <4>2 DEF StateUpdate
    <3>2. runLog' \in [Run -> {"none", "success", "partial", "failed"}]
      <4>1. runLog \in [Run -> {"none", "success", "partial", "failed"}]
        BY DEF TypeOK
      <4>2. runLog' = runLog \/ runLog' = [runLog EXCEPT ![r] = Outcome(r)]
        BY <1>11 DEF StateUpdate
      <4>3. QED
        BY <4>1, <4>2, OutcomeType
    <3>3. reports' \in SUBSET Run
      BY <1>11 DEF StateUpdate, TypeOK
    <3>4. QED
      BY <1>11, <2>1, <3>1, <3>2, <3>3 DEF StateUpdate, TypeOK
<1>12. ASSUME NEW r \in Run, HandleFailure(r) PROVE TypeOK'
  <2>1. run' \in [Run -> RunRecord]
    BY <1>12, <1>0, BecomesType
    DEF HandleFailure, Cleared, RunRecord, Active, Stopped, Pipeline
  <2>2. QED
    BY <1>12, <2>1, CommittedType DEF HandleFailure, TypeOK
<1>13. ASSUME NEW r \in Run, Release(r) PROVE TypeOK'
  <2>1. run' \in [Run -> RunRecord]
    BY <1>13, <1>0, BecomesType, GotoType, RaiseType
    DEF Release, RunRecord, Active, Stopped, Pipeline
  <2>2. QED
    BY <1>13, <2>1 DEF Release, TypeOK, Lock!ReleasedRow, Lock!Free
<1>14. ASSUME NEW r \in Run, Crash(r) PROVE TypeOK'
  <2>1. run' \in [Run -> RunRecord]
    BY <1>14, <1>0, BecomesType, GotoType, RaiseType
    DEF Crash, RunRecord, Active, Stopped, Pipeline
  <2>2. QED
    BY <1>14, <2>1 DEF Crash, TypeOK
<1>15. ASSUME NEW r \in Run, LoadSession(r) PROVE TypeOK'
  <2>1. run' \in [Run -> RunRecord]
    <3>1. sessionStatus \in {"none", "valid", "expired"} /\ run[r] \in RunRecord
      BY <1>0 DEF TypeOK
    <3>2. [run[r] EXCEPT !.pc = "check", !.loaded = sessionStatus] \in RunRecord
      BY <3>1 DEF RunRecord, Active, Pipeline
    <3>3. QED
      BY <1>15, <1>0, <3>2, BecomesType, RaiseType DEF LoadSession
  <2>2. QED
    BY <1>15, <2>1 DEF LoadSession, TypeOK
<1>16. ASSUME NEW r \in Run, LogFailure(r) PROVE TypeOK'
  <2>1. run' \in [Run -> RunRecord]
    BY <1>16, <1>0, GotoType DEF LogFailure, Active, Stopped
  <2>2. QED
    BY <1>16, <2>1 DEF LogFailure, TypeOK
<1>17. CASE UNCHANGED vars
  BY <1>17 DEF vars, TypeOK
<1>18. QED
  BY <1>1, <1>2, <1>3, <1>4, <1>5, <1>6, <1>7, <1>8, <1>9, <1>10, <1>11,
     <1>12, <1>13, <1>14, <1>15, <1>16, <1>17 DEF Next, Step

-----------------------------------------------------------------------------
LEMMA BecomesChanges ==
  ASSUME run \in [Run -> RunRecord], NEW r \in Run, NEW record, Becomes(r, record)
  PROVE  /\ run'[r] = record
         /\ \A s \in Run \ {r} : run'[s] = run[s]
BY DEF Becomes

(* What Goto and Fail leave of the record of the run. *)
Keeps(r) == /\ run'[r].scan = run[r].scan
            /\ run'[r].previous = run[r].previous
            /\ run'[r].locked = run[r].locked

LEMMA GotoRecord ==
  ASSUME run \in [Run -> RunRecord], NEW r \in Run, NEW where, Goto(r, where)
  PROVE  run'[r].pc = where /\ run'[r].raised = run[r].raised /\ Keeps(r)
BY BecomesChanges DEF Goto, RunRecord, Keeps

LEMMA RaiseRecord ==
  ASSUME run \in [Run -> RunRecord], NEW r \in Run, Fail(r) \/ Raise(r, "session")
  PROVE  run'[r].pc = "failing" /\ run'[r].raised # "none" /\ Keeps(r)
<1>1. PICK kind \in {"session", "other", "mute"} : Raise(r, kind)
  BY DEF Fail
<1>2. run'[r] = [run[r] EXCEPT !.pc = "failing", !.raised = kind]
  BY <1>1, BecomesChanges DEF Raise
<1>3. run[r] \in RunRecord
  OBVIOUS
<1>4. QED
  BY <1>2, <1>3 DEF RunRecord, Keeps

LEMMA ClearedRecord ==
  ASSUME run \in [Run -> RunRecord], NEW r \in Run, Cleared(r)
  PROVE  /\ run'[r].pc = "logging" /\ run'[r].raised = run[r].raised /\ Keeps(r)
         /\ run'[r].loaded = "none" /\ run'[r].found = "none"
         /\ run'[r].alone = run[r].alone
<1>1. run'[r] = [run[r] EXCEPT !.pc = "logging", !.loaded = "none", !.found = "none"]
  BY BecomesChanges DEF Cleared
<1>2. run[r] \in RunRecord
  OBVIOUS
<1>3. QED
  BY <1>1, <1>2 DEF RunRecord, Keeps

OwnStep(r) == RunAccount(r) \/ Step(r) \/ Crash(r)

(* Only Acquire takes the lock. *)
LEMMA LockedKept ==
  ASSUME run \in [Run -> RunRecord], NEW r \in Run, OwnStep(r), ~Acquire(r)
  PROVE  run'[r].locked = run[r].locked
<1>0. run[r] \in RunRecord
  OBVIOUS
<1>1. CASE RunAccount(r)
  <2>1. run'[r] = [run[r] EXCEPT !.pc = "load", !.bootstrap = (DOMAIN history = {})]
    BY <1>1, BecomesChanges DEF RunAccount
  <2>2. QED
    BY <1>0, <2>1 DEF RunRecord
<1>2. CASE LoadSession(r) \/ Validate(r)
  <2>1. \/ Fail(r) \/ Raise(r, "session")
        \/ run'[r] = [run[r] EXCEPT !.pc = "check", !.loaded = sessionStatus]
        \/ run'[r] = [run[r] EXCEPT !.pc = "collect", !.found = "valid"]
        \/ run'[r] = [run[r] EXCEPT !.pc = "failing", !.found = "expired", !.raised = "session"]
    BY <1>2, BecomesChanges DEF LoadSession, Validate
  <2>2. QED
    BY <1>0, <2>1, RaiseRecord DEF RunRecord, Keeps
<1>3. CASE Collect(r)
  <2>1. \/ Fail(r) \/ Raise(r, "session")
        \/ \E seen \in SUBSET Job, complete \in BOOLEAN :
             run'[r] = [run[r] EXCEPT !.pc = "persist", !.scan = seen,
                                      !.complete = complete, !.previous = history]
    BY <1>3, BecomesChanges DEF Collect
  <2>2. QED
    BY <1>0, <2>1, RaiseRecord DEF RunRecord, Keeps
<1>4. CASE PersistPostings(r)
  <2>1. \/ Fail(r)
        \/ run'[r] = [run[r] EXCEPT !.pc = "evaluate", !.loaded = "none", !.found = "none"]
    BY <1>4, BecomesChanges DEF PersistPostings
  <2>2. QED
    BY <1>0, <2>1, RaiseRecord DEF RunRecord, Keeps
<1>5. CASE HandleFailure(r)
  BY <1>5, ClearedRecord DEF HandleFailure, Keeps
<1>6. CASE \/ LoadContext(r) \/ Refuse(r) \/ Evaluate(r) \/ CompileReport(r)
           \/ StateUpdate(r) \/ LogFailure(r) \/ Release(r) \/ Crash(r)
  <2>1. Fail(r) \/ \E where : Goto(r, where)
    BY <1>6 DEF LoadContext, Refuse, Evaluate, CompileReport, StateUpdate, LogFailure,
                Release, Crash
  <2>2. QED
    BY <2>1, GotoRecord, RaiseRecord DEF Keeps
<1>7. QED
  BY <1>1, <1>2, <1>3, <1>4, <1>5, <1>6 DEF OwnStep, Step

(* A step of one run leaves the others their record, log, file and clock      *)
(* reading, never gives them the lock, and never deletes a row.               *)
LEMMA OthersKeep ==
  ASSUME TypeOK, PositionTells, NEW r \in Run, OwnStep(r), NEW s \in Run \ {r}
  PROVE  /\ run'[s] = run[s] /\ runLog'[s] = runLog[s] /\ now'[s] = now[s]
         /\ s \in files' <=> s \in files
         /\ s \in reports' <=> s \in reports
         /\ lock'.owner = s => lock.owner = s
<1>0. /\ run \in [Run -> RunRecord] /\ now \in [Run -> Nat]
      /\ runLog \in [Run -> {"none", "success", "partial", "failed"}]
  BY DEF TypeOK
<1>1. run'[s] = run[s]
  BY <1>0, BecomesChanges
  DEF OwnStep, Step, RunAccount, LoadContext, Acquire, Refuse, LoadSession, Validate, Collect,
      PersistPostings, Evaluate, CompileReport, StateUpdate, HandleFailure, LogFailure, Release,
      Crash, Goto, Fail, Raise, Cleared
<1>2. runLog'[s] = runLog[s] /\ now'[s] = now[s]
  BY <1>0
  DEF OwnStep, Step, RunAccount, LoadContext, Acquire, Refuse, LoadSession, Validate, Collect,
      PersistPostings, Evaluate, CompileReport, StateUpdate, HandleFailure, LogFailure, Release,
      Crash, dbVars
<1>3. (s \in files' <=> s \in files) /\ (s \in reports' <=> s \in reports)
  BY DEF OwnStep, Step, RunAccount, LoadContext, Acquire, Refuse, LoadSession, Validate, Collect,
      PersistPostings, Evaluate, CompileReport, StateUpdate, HandleFailure, LogFailure, Release,
      Crash, dbVars
<1>4. lock'.owner = s => lock.owner = s
  <2>1. Lock!HeldRow(r, now[r]).owner # s
    BY DEF Lock!HeldRow
  <2>2. Lock!ReleasedRow(lock, r).owner = s => lock.owner = s
    BY RunAssumption DEF Lock!ReleasedRow, Lock!Free
  <2>3. lock' \in {lock, Lock!HeldRow(r, now[r]), Lock!ReleasedRow(lock, r)}
    BY DEF OwnStep, Step, RunAccount, LoadContext, Acquire, Refuse, LoadSession, Validate, Collect,
      PersistPostings, Evaluate, CompileReport, StateUpdate, HandleFailure, LogFailure, Release,
      Crash
  <2>4. QED
    BY <2>1, <2>2, <2>3
<1>5. QED
  BY <1>1, <1>2, <1>3, <1>4

(* Rows are never deleted. *)
LEMMA RowsStay ==
  ASSUME TypeOK, PositionTells, NEW r \in Run, OwnStep(r)
  PROVE  postings \subseteq postings' /\ DOMAIN history \subseteq DOMAIN history'
BY UpdatedHistoryType
DEF OwnStep, Step, RunAccount, LoadContext, Acquire, Refuse, LoadSession, Validate, Collect,
    PersistPostings, Evaluate, CompileReport, StateUpdate, HandleFailure, LogFailure, Release,
    Crash, dbVars

LEMMA PositionTellsStep == TypeOK /\ PositionTells /\ [Next]_vars => PositionTells'
<1> SUFFICES ASSUME TypeOK, PositionTells, [Next]_vars PROVE PositionTells'
  OBVIOUS
<1>0. run \in [Run -> RunRecord]
  BY DEF TypeOK
<1>1. CASE Tick
  BY <1>1 DEF Tick, PositionTells, RunTells, dbVars
<1>2. CASE UNCHANGED vars
  BY <1>2 DEF vars, PositionTells, RunTells, dbVars
<1>3. ASSUME NEW r \in Run, OwnStep(r) PROVE PositionTells'
  <2>1. ASSUME NEW s \in Run \ {r} PROVE RunTells(s)'
    BY <1>3, <2>1, OthersKeep, RowsStay DEF PositionTells, RunTells
  <2>2. RunTells(r)'
    <3>0. /\ RunTells(r) /\ run[r] \in RunRecord
          /\ runLog \in [Run -> {"none", "success", "partial", "failed"}]
      BY <1>0 DEF PositionTells, TypeOK
    <3>1. CASE RunAccount(r)
      <4>1. run'[r].pc = "load" /\ Keeps(r)
        <5>1. run'[r] = [run[r] EXCEPT !.pc = "load", !.bootstrap = (DOMAIN history = {})]
          BY <3>1, <1>0, BecomesChanges DEF RunAccount
        <5>2. QED
          BY <5>1, <3>0, <1>0 DEF RunRecord, Keeps
      <4>2. QED
        BY <3>1, <3>0, <4>1
        DEF RunAccount, RunTells, Unlogged, Unwritten, Pipeline, Keeps, dbVars
    <3>2. CASE LoadContext(r)
      <4>1. /\ run'[r].pc = "acquire" \/ (run'[r].pc = "failing" /\ run'[r].raised # "none")
            /\ Keeps(r)
        BY <3>2, <1>0, GotoRecord, RaiseRecord DEF LoadContext
      <4>2. QED
        BY <3>2, <3>0, <4>1
        DEF LoadContext, RunTells, Unlogged, Unwritten, Pipeline, Keeps, dbVars
    <3>3. CASE Acquire(r)
      <4>1. /\ run'[r].pc = "validate" /\ run'[r].locked
            /\ run'[r].scan = run[r].scan /\ run'[r].previous = run[r].previous
        <5>1. run'[r] = [run[r] EXCEPT !.pc = "validate", !.locked = TRUE,
                                       !.alone = NobodyElseWorks(r)]
          BY <3>3, <1>0, BecomesChanges DEF Acquire
        <5>2. QED
          BY <5>1, <3>0, <1>0 DEF RunRecord, Keeps
      <4>2. QED
        BY <3>3, <3>0, <4>1
        DEF Acquire, RunTells, Unlogged, Unwritten, Pipeline, Keeps, dbVars
    <3>4. CASE Refuse(r)
      <4>1. run'[r].pc = "refused" /\ Keeps(r)
        BY <3>4, <1>0, GotoRecord, RaiseRecord DEF Refuse
      <4>2. QED
        BY <3>4, <3>0, <4>1
        DEF Refuse, RunTells, Unlogged, Unwritten, Pipeline, Keeps, dbVars
    <3>5. CASE Validate(r)
      <4>1. /\ run'[r].pc = "collect" \/ (run'[r].pc = "failing" /\ run'[r].raised # "none")
            /\ Keeps(r)
        <5>1. \/ Fail(r) \/ Raise(r, "session")
              \/ run'[r] = [run[r] EXCEPT !.pc = "collect", !.found = "valid"]
              \/ run'[r] = [run[r] EXCEPT !.pc = "failing", !.found = "expired", !.raised = "session"]
          BY <3>5, <1>0, BecomesChanges DEF Validate
        <5>2. QED
          BY <5>1, <3>0, <1>0, RaiseRecord DEF RunRecord, Keeps
      <4>2. QED
        BY <3>5, <3>0, <4>1
        DEF Validate, RunTells, Unlogged, Unwritten, Pipeline, Keeps, dbVars
    <3>6. CASE Collect(r)
      <4>1. /\ run'[r].pc = "persist" \/ (run'[r].pc = "failing" /\ run'[r].raised # "none")
            /\ run'[r].previous \in {run[r].previous, history}
            /\ run'[r].locked = run[r].locked
        <5>1. \/ Fail(r) \/ Raise(r, "session")
              \/ \E seen \in SUBSET Job, complete \in BOOLEAN :
                   run'[r] = [run[r] EXCEPT !.pc = "persist", !.scan = seen,
                                            !.complete = complete, !.previous = history]
          BY <3>6, <1>0, BecomesChanges DEF Collect
        <5>2. QED
          BY <5>1, <3>0, <1>0, RaiseRecord DEF RunRecord, Keeps
      <4>2. QED
        BY <3>6, <3>0, <4>1
        DEF Collect, RunTells, Unlogged, Unwritten, Pipeline, Keeps, dbVars
    <3>7. CASE PersistPostings(r)
      <4>1. /\ \/ run'[r].pc = "evaluate" /\ postings' = postings \cup run[r].scan
               \/ run'[r].pc = "failing" /\ run'[r].raised # "none"
            /\ Keeps(r)
        <5>1. \/ Fail(r) \/ Raise(r, "session")
              \/ /\ run'[r] = [run[r] EXCEPT !.pc = "evaluate", !.loaded = "none", !.found = "none"]
                 /\ postings' = postings \cup run[r].scan
          BY <3>7, <1>0, BecomesChanges DEF PersistPostings
        <5>2. QED
          BY <5>1, <3>0, <1>0, RaiseRecord DEF RunRecord, Keeps
      <4>2. QED
        BY <3>7, <3>0, <4>1
        DEF PersistPostings, RunTells, Unlogged, Unwritten, Pipeline, Keeps, dbVars
    <3>8. CASE Evaluate(r)
      <4>1. /\ run'[r].pc = "compile" \/ (run'[r].pc = "failing" /\ run'[r].raised # "none")
            /\ Keeps(r)
        BY <3>8, <1>0, GotoRecord, RaiseRecord DEF Evaluate
      <4>2. QED
        BY <3>8, <3>0, <4>1
        DEF Evaluate, RunTells, Unlogged, Unwritten, Pipeline, Keeps, dbVars
    <3>9. CASE CompileReport(r)
      <4>1. /\ \/ run'[r].pc = "update" /\ r \in files'
               \/ run'[r].pc = "failing" /\ run'[r].raised # "none"
            /\ Keeps(r)
        BY <3>9, <1>0, GotoRecord, RaiseRecord DEF CompileReport
      <4>2. QED
        BY <3>9, <3>0, <4>1
        DEF CompileReport, RunTells, Unlogged, Unwritten, Pipeline, Keeps, dbVars
    <3>10. CASE StateUpdate(r)
      <4>1. /\ \/ run'[r].pc = "release" /\ runLog' = [runLog EXCEPT ![r] = Outcome(r)]
               \/ run'[r].pc = "failing" /\ run'[r].raised # "none" /\ runLog' = runLog
            /\ Keeps(r)
        BY <3>10, <1>0, GotoRecord, RaiseRecord DEF StateUpdate
      <4>2. QED
        BY <3>10, <3>0, <4>1, OutcomeType, <1>3, RowsStay
        DEF StateUpdate, RunTells, Unlogged, Unwritten, Pipeline, Keeps, dbVars
    <3>11. CASE HandleFailure(r)
      <4>1. run'[r].pc = "logging" /\ run'[r].raised = run[r].raised /\ Keeps(r)
        BY <3>11, <1>0, ClearedRecord DEF HandleFailure
      <4>2. QED
        BY <3>11, <3>0, <4>1
        DEF HandleFailure, RunTells, Unlogged, Unwritten, Pipeline, Keeps, dbVars
    <3>12. CASE Release(r)
      <4>1. run'[r].pc = "done" /\ run'[r].raised = run[r].raised /\ Keeps(r)
        BY <3>12, <1>0, GotoRecord, RaiseRecord DEF Release
      <4>2. QED
        BY <3>12, <3>0, <4>1, RunAssumption
        DEF Release, RunTells, Unlogged, Unwritten, Pipeline, Keeps, dbVars, Lock!ReleasedRow, Lock!Free
    <3>13. CASE Crash(r)
      <4>1. run'[r].pc = "crashed" /\ Keeps(r)
        BY <3>13, <1>0, GotoRecord, RaiseRecord DEF Crash
      <4>2. QED
        BY <3>13, <3>0, <4>1
        DEF Crash, RunTells, Unlogged, Unwritten, Pipeline, Keeps, dbVars
    <3>14. CASE LoadSession(r)
      <4>1. /\ run'[r].pc = "check" \/ (run'[r].pc = "failing" /\ run'[r].raised # "none")
            /\ Keeps(r)
        <5>1. \/ Raise(r, "session")
              \/ run'[r] = [run[r] EXCEPT !.pc = "check", !.loaded = sessionStatus]
          BY <3>14, <1>0, BecomesChanges DEF LoadSession
        <5>2. QED
          BY <5>1, <3>0, <1>0, RaiseRecord DEF RunRecord, Keeps
      <4>2. QED
        BY <3>14, <3>0, <4>1
        DEF LoadSession, RunTells, Unlogged, Unwritten, Pipeline, Keeps, dbVars
    <3>15. CASE LogFailure(r)
      <4>1. /\ run'[r].pc = (IF run[r].locked THEN "release" ELSE "done")
            /\ run'[r].raised = run[r].raised /\ Keeps(r)
        BY <3>15, <1>0, GotoRecord DEF LogFailure
      <4>2. QED
        BY <3>15, <3>0, <4>1
        DEF LogFailure, RunTells, Unlogged, Unwritten, Pipeline, Keeps, dbVars
    <3>16. QED
      BY <1>3, <3>1, <3>2, <3>3, <3>4, <3>5, <3>6, <3>7, <3>8, <3>9, <3>10, <3>11,
         <3>12, <3>13, <3>14, <3>15 DEF OwnStep, Step
  <2>3. QED
    BY <2>1, <2>2 DEF PositionTells
<1>4. QED
  BY <1>1, <1>2, <1>3 DEF Next, OwnStep

-----------------------------------------------------------------------------
LEMMA PositionTellsInitially == Init => PositionTells
<1> SUFFICES ASSUME Init, NEW r \in Run PROVE RunTells(r)
  BY DEF PositionTells
<1>1. /\ run[r] = NewRun /\ runLog[r] = "none" /\ r \notin files
      /\ lock.owner # r /\ history = NoHistory
  BY RunAssumption DEF Init
<1>2. QED
  BY <1>1 DEF RunTells, NewRun, Unlogged, Unwritten, Pipeline

LEMMA InductiveInvariant == Spec => [](TypeOK /\ PositionTells)
BY TypeCorrectInitially, PositionTellsInitially, TypeCorrectStep, PositionTellsStep, PTL
DEF Spec

(* Every table and every run's own state keeps its type. *)
THEOREM TypeCorrect == Spec => []TypeOK
BY InductiveInvariant, PTL

(* What a run has reached tells what it has written, and where. *)
THEOREM PositionTellsAlways == Spec => []PositionTells
BY InductiveInvariant, PTL

(* A run that has come to its end does not keep the account locked. *)
THEOREM LockGivenBackAlways == Spec => []LockGivenBack
<1>1. PositionTells => LockGivenBack
  BY DEF PositionTells, RunTells, LockGivenBack
<1>2. QED
  BY <1>1, PositionTellsAlways, PTL

(* The history only names jobs whose posting is stored. *)
THEOREM HistoryHasPostingsAlways == Spec => []HistoryHasPostings
<1>1. Init => HistoryHasPostings
  BY NoHistoryType DEF Init, HistoryHasPostings
<1>2. TypeOK /\ PositionTells /\ HistoryHasPostings /\ [Next]_vars => HistoryHasPostings'
  <2> SUFFICES ASSUME TypeOK, PositionTells, HistoryHasPostings, [Next]_vars
               PROVE  HistoryHasPostings'
    OBVIOUS
  <2>1. CASE Tick \/ UNCHANGED vars
    BY <2>1 DEF Tick, vars, dbVars, HistoryHasPostings
  <2>2. ASSUME NEW r \in Run, OwnStep(r) PROVE HistoryHasPostings'
    <3>1. postings \subseteq postings'
      BY <2>2, RowsStay
    <3>2. CASE history' = history
      BY <3>1, <3>2 DEF HistoryHasPostings
    <3>3. CASE history' # history
      <4>1. StateUpdate(r) /\ history' = UpdatedHistory(r)
        BY <2>2, <3>3
        DEF OwnStep, Step, RunAccount, LoadContext, Acquire, Refuse, LoadSession, Validate, Collect,
            PersistPostings, Evaluate, CompileReport, StateUpdate, HandleFailure, LogFailure, Release,
            Crash, dbVars
      <4>2. run[r].scan \subseteq postings
        BY <4>1 DEF StateUpdate, PositionTells, RunTells
      <4>3. DOMAIN history' = DOMAIN history \cup run[r].scan
        BY <4>1, UpdatedHistoryType
      <4>4. QED
        BY <3>1, <4>2, <4>3 DEF HistoryHasPostings
    <3>4. QED
      BY <3>2, <3>3
  <2>3. QED
    BY <2>1, <2>2 DEF Next, OwnStep
<1>3. QED
  BY <1>1, <1>2, InductiveInvariant, PTL DEF Spec

(* A report row exists exactly for the runs whose log says Success or        *)
(* Partial, and its file is there.                                           *)
THEOREM OutcomeIsRecordedAlways == Spec => []OutcomeIsRecorded
<1> DEFINE Told(r) == /\ r \in reports <=> runLog[r] \in {"success", "partial"}
                      /\ r \in reports => r \in files
<1>1. Init => \A r \in Run : Told(r)
  BY DEF Init
<1>2. /\ TypeOK /\ PositionTells /\ (\A r \in Run : Told(r)) /\ [Next]_vars
      => (\A r \in Run : Told(r))'
  <2> SUFFICES ASSUME TypeOK, PositionTells, \A r \in Run : Told(r), [Next]_vars,
                      NEW s \in Run
               PROVE  Told(s)'
    OBVIOUS
  <2>1. CASE Tick \/ UNCHANGED vars
    BY <2>1 DEF Tick, vars, dbVars
  <2>2. ASSUME NEW r \in Run, OwnStep(r) PROVE Told(s)'
    <3>1. CASE s # r
      BY <2>2, <3>1, OthersKeep
    <3>2. CASE s = r
      <4>0. /\ runLog \in [Run -> {"none", "success", "partial", "failed"}]
            /\ RunTells(r)
        BY DEF TypeOK, PositionTells
      <4>1. CASE StateUpdate(r)
        BY <3>2, <4>0, <4>1, OutcomeType DEF StateUpdate, RunTells
      <4>2. CASE LogFailure(r)
        BY <3>2, <4>0, <4>2 DEF LogFailure, RunTells, Unlogged
      <4>3. CASE ~StateUpdate(r) /\ ~LogFailure(r)
        BY <2>2, <3>2, <4>3
        DEF OwnStep, Step, RunAccount, LoadContext, Acquire, Refuse, LoadSession, Validate, Collect,
            PersistPostings, Evaluate, CompileReport, HandleFailure, Release, Crash, dbVars
      <4>4. QED
        BY <4>1, <4>2, <4>3
    <3>3. QED
      BY <3>1, <3>2
  <2>3. QED
    BY <2>1, <2>2 DEF Next, OwnStep
<1>3. PositionTells /\ (\A r \in Run : Told(r)) => OutcomeIsRecorded
  BY DEF PositionTells, RunTells, OutcomeIsRecorded, Unlogged, Unwritten
<1>4. QED
  BY <1>1, <1>2, <1>3, InductiveInvariant, PTL DEF Spec

-----------------------------------------------------------------------------
(* History and reports change in one step, the one that makes the outcome of *)
(* the run known.                                                            *)
THEOREM FinalStateIsAtomic == Spec => AtomicFinalState
<1> DEFINE Atomic == history' # history \/ reports' # reports
       => \E r \in Run : /\ r \notin reports /\ reports' = reports \cup {r}
                         /\ runLog[r] = "none" /\ runLog'[r] \in {"success", "partial"}
<1>1. TypeOK /\ PositionTells /\ OutcomeIsRecorded /\ [Next]_vars => [Atomic]_vars
  <2> SUFFICES ASSUME TypeOK, PositionTells, OutcomeIsRecorded, Next,
                      history' # history \/ reports' # reports
               PROVE  \E r \in Run : /\ r \notin reports /\ reports' = reports \cup {r}
                                     /\ runLog[r] = "none"
                                     /\ runLog'[r] \in {"success", "partial"}
    BY DEF vars
  <2>1. PICK r \in Run : /\ StateUpdate(r)
                         /\ reports' = reports \cup {r}
                         /\ runLog' = [runLog EXCEPT ![r] = Outcome(r)]
    BY DEF Next, Tick, Step, RunAccount, LoadContext, Acquire, Refuse, LoadSession, Validate, Collect,
           PersistPostings, Evaluate, CompileReport, StateUpdate, HandleFailure, LogFailure, Release,
           Crash, dbVars
  <2>2. runLog[r] = "none"
    BY <2>1 DEF StateUpdate, PositionTells, RunTells, Unlogged, Pipeline
  <2>3. r \notin reports
    BY <2>2 DEF OutcomeIsRecorded
  <2>4. runLog'[r] \in {"success", "partial"}
    BY <2>1, OutcomeType DEF TypeOK
  <2>5. QED
    BY <2>1, <2>2, <2>3, <2>4
<1>2. QED
  BY <1>1, InductiveInvariant, OutcomeIsRecordedAlways, PTL DEF Spec, AtomicFinalState

(* A job's row keeps the run that first saw it. *)
THEOREM FirstSeenKept == Spec => FirstSeenIsKept
<1> DEFINE Kept == \A j \in DOMAIN history :
       j \in DOMAIN history' /\ history'[j].firstSeenBy = history[j].firstSeenBy
<1>1. TypeOK /\ PositionTells /\ [Next]_vars => [Kept]_vars
  <2> SUFFICES ASSUME TypeOK, PositionTells, Next, NEW j \in DOMAIN history
               PROVE  /\ j \in DOMAIN history'
                      /\ history'[j].firstSeenBy = history[j].firstSeenBy
    BY DEF vars
  <2>1. CASE history' = history
    BY <2>1
  <2>2. CASE history' # history
    <3>1. PICK r \in Run : CreatesOnlyNewRows(r) /\ history' = UpdatedHistory(r)
      BY <2>2 DEF Next, Tick, Step, RunAccount, LoadContext, Acquire, Refuse, LoadSession, Validate,
             Collect, PersistPostings, Evaluate, CompileReport, StateUpdate, HandleFailure, LogFailure,
             Release, Crash, dbVars
    <3>2. history \in [DOMAIN history -> Row]
      BY HistoryDomain DEF TypeOK
    <3>3. j \in run[r].scan => j \in DOMAIN run[r].previous
      BY <3>1 DEF CreatesOnlyNewRows
    <3>4. UpdatedHistory(r)[j].firstSeenBy = history[j].firstSeenBy
      BY <3>2, <3>3 DEF UpdatedHistory, Row
    <3>5. QED
      BY <3>1, <3>4, UpdatedHistoryType
  <2>3. QED
    BY <2>1, <2>2
<1>2. QED
  BY <1>1, InductiveInvariant, PTL DEF Spec, FirstSeenIsKept

-----------------------------------------------------------------------------
(* The lock row is that of the run that works within its lease.              *)
LEMMA WorkingRunHoldsRowStep ==
  TypeOK /\ PositionTells /\ WorkingRunHoldsRow /\ [Next]_vars => WorkingRunHoldsRow'
<1> DEFINE Holds(s) == /\ now[s] <= clock
                       /\ run[s].pc \in Active => clock <= now[s] + MaxRunTime
                       /\ Working(s) /\ InLease(s) => lock = Lock!HeldRow(s, now[s])
<1> SUFFICES ASSUME TypeOK, PositionTells, \A s \in Run : Holds(s), [Next]_vars,
                    NEW s \in Run
             PROVE  Holds(s)'
  BY DEF WorkingRunHoldsRow
<1>0. /\ run \in [Run -> RunRecord] /\ now \in [Run -> Nat] /\ clock \in Nat
      /\ \A r \in Run : RunTells(r)
  BY DEF TypeOK, PositionTells
<1>1. CASE Tick
  BY <1>0, <1>1, RunAssumption DEF Tick, Working, InLease, Lock!HeldRow
<1>2. CASE UNCHANGED vars
  BY <1>2 DEF vars, Working, InLease, Lock!HeldRow
<1>3. ASSUME NEW r \in Run, OwnStep(r) PROVE Holds(s)'
  <2>1. clock' = clock
    BY <1>3
    DEF OwnStep, Step, RunAccount, LoadContext, Acquire, Refuse, LoadSession, Validate, Collect,
        PersistPostings, Evaluate, CompileReport, StateUpdate, HandleFailure, LogFailure, Release, Crash
  <2>2. CASE s # r
    <3>1. run'[s] = run[s] /\ now'[s] = now[s]
      BY <1>3, <2>2, OthersKeep
    <3>2. ASSUME Working(s), InLease(s) PROVE lock' = lock
      <4>1. lock = Lock!HeldRow(s, now[s]) /\ clock <= now[s] + LockDuration
        BY <3>2 DEF InLease
      <4>2. ~Acquire(r)
        BY <4>1, <1>0, RunAssumption DEF Acquire, Lock!Acquirable, Lock!HeldRow
      <4>3. Release(r) => lock' = lock
        BY <4>1, <2>2 DEF Release, Lock!ReleasedRow, Lock!HeldRow
      <4>4. QED
        BY <1>3, <4>2, <4>3
        DEF OwnStep, Step, RunAccount, LoadContext, Refuse, LoadSession, Validate, Collect,
            PersistPostings, Evaluate, CompileReport, StateUpdate, HandleFailure, LogFailure, Crash
    <3>3. QED
      BY <2>1, <3>1, <3>2 DEF Working, InLease, Lock!HeldRow
  <2>3. CASE s = r
    <3>1. CASE RunAccount(r)
      <4>1. run'[r].locked = run[r].locked /\ ~run[r].locked
        <5>1. run'[r] = [run[r] EXCEPT !.pc = "load", !.bootstrap = (DOMAIN history = {})]
          BY <3>1, <1>0, BecomesChanges DEF RunAccount
        <5>2. QED
          BY <3>1, <5>1, <1>0 DEF RunAccount, RunRecord, RunTells
      <4>2. now'[r] = clock
        BY <3>1, <1>0 DEF RunAccount
      <4>3. QED
        BY <2>1, <2>3, <4>1, <4>2, <1>0, RunAssumption DEF Working
    <3>2. CASE Acquire(r)
      <4>1. now' = now /\ lock' = Lock!HeldRow(r, now[r]) /\ run[r].pc \in Active
        BY <3>2 DEF Acquire, Active
      <4>2. QED
        BY <2>1, <2>3, <4>1 DEF Lock!HeldRow
    <3>3. CASE Release(r)
      <4>1. run'[r].pc = "done" /\ now' = now
        BY <3>3, <1>0, GotoRecord DEF Release
      <4>2. QED
        BY <2>1, <2>3, <4>1 DEF Working, Active, Pipeline
    <3>4. CASE ~RunAccount(r) /\ ~Acquire(r) /\ ~Release(r)
      <4>1. now' = now /\ lock' = lock
        BY <1>3, <3>4
        DEF OwnStep, Step, LoadContext, Refuse, LoadSession, Validate, Collect, PersistPostings,
            Evaluate, CompileReport, StateUpdate, HandleFailure, LogFailure, Crash
      <4>2. run[r].pc \in Active
        BY <1>3, <3>4
        DEF OwnStep, Step, LoadContext, Refuse, LoadSession, Validate, Collect, PersistPostings,
            Evaluate, CompileReport, StateUpdate, HandleFailure, LogFailure, Crash, Active, Pipeline
      <4>3. run'[r].locked = run[r].locked
        BY <1>3, <3>4, <1>0, LockedKept
      <4>4. QED
        BY <2>1, <2>3, <4>1, <4>2, <4>3 DEF Working, InLease, Lock!HeldRow
    <3>5. QED
      BY <3>1, <3>2, <3>3, <3>4
  <2>4. QED
    BY <2>2, <2>3
<1>4. QED
  BY <1>1, <1>2, <1>3 DEF Next, OwnStep

(* The lease keeps the runs of an account apart: whenever two of them work,  *)
(* one has outlived its lease.                                               *)
THEOREM OneRunWithinLeaseAlways == Spec => [](WorkingRunHoldsRow /\ OneRunWithinLease)
<1>1. Init => WorkingRunHoldsRow
  <2> SUFFICES ASSUME Init PROVE WorkingRunHoldsRow
    OBVIOUS
  <2>1. \A r \in Run : run[r].pc = "new" /\ ~run[r].locked /\ now[r] = clock
    BY DEF Init, NewRun
  <2>2. QED
    BY <2>1 DEF Init, WorkingRunHoldsRow, Working, Active, Pipeline
<1>2. WorkingRunHoldsRow => OneRunWithinLease
  BY DEF WorkingRunHoldsRow, OneRunWithinLease, Lock!HeldRow
<1>3. QED
  BY <1>1, <1>2, WorkingRunHoldsRowStep, InductiveInvariant, PTL DEF Spec

(* FR-12 without a condition on the state, when LOCK_DURATION is chosen as   *)
(* its comment says: above the time a run takes.                             *)
THEOREM OneRunAtATimeWithLongLease ==
  ASSUME MaxRunTime <= LockDuration
  PROVE  Spec => []OneRunAtATime
<1>1. TypeOK /\ WorkingRunHoldsRow => OneRunAtATime
  <2> SUFFICES ASSUME TypeOK, WorkingRunHoldsRow,
                      NEW r \in Run, NEW s \in Run, Working(r), Working(s)
               PROVE  r = s
    BY DEF OneRunAtATime
  <2>1. InLease(r) /\ InLease(s)
    BY RunAssumption DEF TypeOK, WorkingRunHoldsRow, Working, InLease
  <2>2. QED
    BY <2>1 DEF WorkingRunHoldsRow, Lock!HeldRow
<1>2. QED
  BY <1>1, OneRunWithinLeaseAlways, InductiveInvariant, PTL

-----------------------------------------------------------------------------
(* A step of a run, seen by the lock's owners: only its own position changes. *)
LEMMA OwnLockUse ==
  ASSUME TypeOK, PositionTells, NEW r \in Run, OwnStep(r)
  PROVE  [q \in Run |-> LockUse(q)]'
           = [[q \in Run |-> LockUse(q)] EXCEPT ![r] = LockUse(r)']
<1>1. \A s \in Run \ {r} : LockUse(s)' = LockUse(s)
  BY OthersKeep DEF LockUse
<1>2. QED
  BY <1>1

(* The runs use the lock as the owners of RunLock do. *)
THEOREM RunsUseRunLock == Spec => UsesRunLock
<1> DEFINE use == [q \in Run |-> LockUse(q)]
<1>1. Init => Lock!Init
  BY DEF Init, Lock!Init, Lock!Free, LockUse, NewRun
<1>2. TypeOK /\ PositionTells /\ [Next]_vars => [Lock!Next]_(Lock!vars)
  <2> SUFFICES ASSUME TypeOK, PositionTells, [Next]_vars PROVE [Lock!Next]_(Lock!vars)
    OBVIOUS
  <2>0. /\ run \in [Run -> RunRecord]
        /\ \A r \in Run : RunTells(r)
    BY DEF TypeOK, PositionTells
  <2>1. CASE Tick
    <3>1. use' = use
      BY <2>1 DEF Tick, LockUse
    <3>2. QED
      BY <2>1, <3>1 DEF Tick, Lock!Next, Lock!Tick
  <2>2. CASE UNCHANGED vars
    <3>1. use' = use
      BY <2>2 DEF vars, LockUse
    <3>2. QED
      BY <2>2, <3>1 DEF vars, Lock!vars
  <2>3. ASSUME NEW r \in Run, OwnStep(r) PROVE [Lock!Next]_(Lock!vars)
    <3>0. use' = [use EXCEPT ![r] = LockUse(r)'] /\ use[r] = LockUse(r)
      BY <2>3, OwnLockUse
    <3> HIDE DEF use
    <3>1. CASE RunAccount(r)
      <4>1. run'[r] = [run[r] EXCEPT !.pc = "load", !.bootstrap = (DOMAIN history = {})]
        BY <2>0, <3>1, BecomesChanges DEF RunAccount
      <4>2. LockUse(r) = "new" /\ LockUse(r)' = "ready"
        BY <2>0, <3>1, <4>1 DEF RunAccount, RunTells, RunRecord, LockUse
      <4>3. Lock!ReadClock(r)
        BY <3>0, <3>1, <4>2 DEF RunAccount, Lock!ReadClock, use
      <4>4. QED
        BY <4>3 DEF Lock!Next
    <3>2. CASE Acquire(r)
      <4>1. run'[r] = [run[r] EXCEPT !.pc = "validate", !.locked = TRUE,
                                     !.alone = NobodyElseWorks(r)]
        BY <2>0, <3>2, BecomesChanges DEF Acquire
      <4>2. LockUse(r) = "ready" /\ LockUse(r)' = "holding"
        BY <2>0, <3>2, <4>1 DEF Acquire, RunTells, RunRecord, LockUse
      <4>3. Lock!Acquire(r)
        BY <3>0, <3>2, <4>2 DEF Acquire, Lock!Acquire, use
      <4>4. QED
        BY <4>3 DEF Lock!Next
    <3>3. CASE Refuse(r)
      <4>1. run'[r].pc = "refused"
        BY <2>0, <3>3, GotoRecord DEF Refuse
      <4>2. LockUse(r) = "ready" /\ LockUse(r)' = "refused"
        BY <2>0, <3>3, <4>1 DEF Refuse, RunTells, LockUse
      <4>3. Lock!Refuse(r)
        BY <3>0, <3>3, <4>2 DEF Refuse, Lock!Refuse, use
      <4>4. QED
        BY <4>3 DEF Lock!Next
    <3>4. CASE Release(r)
      <4>1. run'[r].pc = "done" /\ run'[r].locked = run[r].locked
        BY <2>0, <3>4, GotoRecord DEF Release, Keeps
      <4>2. LockUse(r) = "holding" /\ LockUse(r)' = "released"
        BY <2>0, <3>4, <4>1 DEF Release, RunTells, LockUse
      <4>3. Lock!Release(r)
        BY <3>0, <3>4, <4>2 DEF Release, Lock!Release, use
      <4>4. QED
        BY <4>3 DEF Lock!Next
    <3>5. CASE Crash(r)
      <4>1. run'[r].pc = "crashed"
        BY <2>0, <3>5, GotoRecord DEF Crash
      <4>2. LockUse(r) \in {"ready", "holding"} /\ LockUse(r)' = "crashed"
        BY <3>5, <4>1 DEF Crash, Active, Pipeline, LockUse
      <4>3. Lock!Crash(r)
        BY <3>0, <3>5, <4>2 DEF Crash, Lock!Crash, use
      <4>4. QED
        BY <4>3 DEF Lock!Next
    <3>6. CASE /\ ~RunAccount(r) /\ ~Acquire(r) /\ ~Refuse(r)
               /\ ~Release(r) /\ ~Crash(r)
      <4>1. run'[r].locked = run[r].locked
        BY <2>0, <2>3, <3>6, LockedKept
      <4>2. LockUse(r)' = LockUse(r)
        <5>1. CASE HandleFailure(r)
          <6>1. run[r].pc = "failing" /\ run'[r].pc = "logging"
            BY <2>0, <5>1, ClearedRecord DEF HandleFailure
          <6>2. QED
            BY <4>1, <6>1 DEF LockUse
        <5>2. CASE LoadSession(r) \/ Validate(r) \/ Collect(r) \/ PersistPostings(r)
          <6>1. /\ run[r].pc \in {"validate", "check", "collect", "persist"} /\ run[r].locked
                /\ run[r] \in RunRecord
            BY <2>0, <5>2 DEF LoadSession, Validate, Collect, PersistPostings, RunTells, Pipeline
          <6>2. run'[r].pc \in {"check", "collect", "persist", "evaluate", "failing"}
            <7>1. \/ Fail(r) \/ Raise(r, "session")
                  \/ run'[r] = [run[r] EXCEPT !.pc = "check", !.loaded = sessionStatus]
                  \/ run'[r] = [run[r] EXCEPT !.pc = "collect", !.found = "valid"]
                  \/ run'[r] = [run[r] EXCEPT !.pc = "failing", !.found = "expired",
                                             !.raised = "session"]
                  \/ \E seen \in SUBSET Job, complete \in BOOLEAN :
                       run'[r] = [run[r] EXCEPT !.pc = "persist", !.scan = seen,
                                                !.complete = complete, !.previous = history]
                  \/ run'[r] = [run[r] EXCEPT !.pc = "evaluate", !.loaded = "none", !.found = "none"]
              BY <2>0, <5>2, BecomesChanges DEF LoadSession, Validate, Collect, PersistPostings
            <7>2. QED
              BY <2>0, <6>1, <7>1, RaiseRecord DEF RunRecord
          <6>3. QED
            BY <4>1, <6>1, <6>2 DEF LockUse
        <5>3. CASE LoadContext(r) \/ Evaluate(r) \/ CompileReport(r) \/ StateUpdate(r)
          <6>1. /\ run[r].pc \notin {"new", "refused", "crashed", "done"}
                /\ run'[r].pc \notin {"new", "refused", "crashed", "done"}
            BY <2>0, <5>3, GotoRecord, RaiseRecord
            DEF LoadContext, Evaluate, CompileReport, StateUpdate
          <6>2. QED
            BY <4>1, <6>1 DEF LockUse
        <5>4. CASE LogFailure(r)
          <6>1. /\ run[r].pc = "logging"
                /\ run'[r].pc = IF run[r].locked THEN "release" ELSE "done"
            BY <2>0, <5>4, GotoRecord DEF LogFailure
          <6>2. QED
            BY <4>1, <6>1 DEF LockUse
        <5>5. QED
          BY <2>3, <3>6, <5>1, <5>2, <5>3, <5>4 DEF OwnStep, Step
      <4>3. use' = use
        BY <3>0, <4>2 DEF use
      <4>4. <<clock, lock, now>>' = <<clock, lock, now>>
        BY <2>3, <3>6
        DEF OwnStep, Step, LoadContext, LoadSession, Validate, Collect, PersistPostings,
            Evaluate, CompileReport, StateUpdate, HandleFailure, LogFailure
      <4>5. QED
        BY <4>3, <4>4 DEF Lock!vars, use
    <3>7. QED
      BY <3>1, <3>2, <3>3, <3>4, <3>5, <3>6
  <2>4. QED
    BY <2>1, <2>2, <2>3 DEF Next, OwnStep
<1>3. QED
  BY <1>1, <1>2, InductiveInvariant, PTL DEF Spec, UsesRunLock, Lock!Spec

-----------------------------------------------------------------------------
(* What one step does with what the run knows of the session, and with the row. *)
LEMMA SessionStep ==
  ASSUME TypeOK, NEW r \in Run, OwnStep(r)
  PROVE  /\ ~Acquire(r) => run'[r].alone = run[r].alone
         /\ Acquire(r) => /\ run'[r].alone = NobodyElseWorks(r)
                          /\ run'[r].locked
                          /\ run'[r].loaded = run[r].loaded
         /\ \/ run'[r].loaded \in {run[r].loaded, "none"}
            \/ LoadSession(r) /\ run'[r].loaded = sessionStatus
         /\ \/ run'[r].found \in {run[r].found, "none"}
            \/ Validate(r) /\ run'[r].found = "valid"
            \/ /\ Validate(r) /\ run'[r].found = "expired"
               /\ run'[r].pc = "failing" /\ run'[r].raised = "session"
         /\ HandleFailure(r) => run'[r].found = "none"
         /\ sessionStatus' # sessionStatus
              => /\ PersistPostings(r) \/ HandleFailure(r)
                 /\ run'[r].loaded = "none"
<1>0. run \in [Run -> RunRecord] /\ run[r] \in RunRecord
  BY DEF TypeOK
<1>1. CASE RunAccount(r)
  <2>1. run'[r] = [run[r] EXCEPT !.pc = "load", !.bootstrap = (DOMAIN history = {})]
    BY <1>0, <1>1, BecomesChanges DEF RunAccount
  <2>2. run[r].pc = "new" /\ sessionStatus' = sessionStatus
    BY <1>1 DEF RunAccount, dbVars
  <2>. QED  BY <1>0, <2>1, <2>2 DEF RunRecord, Acquire, HandleFailure
<1>2. CASE Acquire(r)
  <2>1. run'[r] = [run[r] EXCEPT !.pc = "validate", !.locked = TRUE,
                                 !.alone = NobodyElseWorks(r)]
    BY <1>0, <1>2, BecomesChanges DEF Acquire
  <2>2. run[r].pc = "acquire" /\ sessionStatus' = sessionStatus
    BY <1>2 DEF Acquire, dbVars
  <2>. QED  BY <1>0, <1>2, <2>1, <2>2 DEF RunRecord, HandleFailure
<1>3. CASE LoadSession(r)
  <2>1. \/ \E kind : run'[r] = [run[r] EXCEPT !.pc = "failing", !.raised = kind]
        \/ run'[r] = [run[r] EXCEPT !.pc = "check", !.loaded = sessionStatus]
    BY <1>0, <1>3, BecomesChanges DEF LoadSession, Raise
  <2>2. run[r].pc = "validate" /\ sessionStatus' = sessionStatus
    BY <1>3 DEF LoadSession, dbVars
  <2>. QED  BY <1>0, <1>3, <2>1, <2>2 DEF RunRecord, Acquire, HandleFailure
<1>4. CASE Validate(r)
  <2>1. \/ \E kind : run'[r] = [run[r] EXCEPT !.pc = "failing", !.raised = kind]
        \/ run'[r] = [run[r] EXCEPT !.pc = "collect", !.found = "valid"]
        \/ run'[r] = [run[r] EXCEPT !.pc = "failing", !.found = "expired", !.raised = "session"]
    BY <1>0, <1>4, BecomesChanges DEF Validate, Fail, Raise
  <2>2. run[r].pc = "check" /\ sessionStatus' = sessionStatus
    BY <1>4 DEF Validate, dbVars
  <2>. QED  BY <1>0, <1>4, <2>1, <2>2 DEF RunRecord, Acquire, HandleFailure
<1>5. CASE Collect(r)
  <2>1. \/ \E kind : run'[r] = [run[r] EXCEPT !.pc = "failing", !.raised = kind]
        \/ \E seen \in SUBSET Job, complete \in BOOLEAN :
             run'[r] = [run[r] EXCEPT !.pc = "persist", !.scan = seen,
                                      !.complete = complete, !.previous = history]
    BY <1>0, <1>5, BecomesChanges DEF Collect, Fail, Raise
  <2>2. run[r].pc = "collect" /\ sessionStatus' = sessionStatus
    BY <1>5 DEF Collect, dbVars
  <2>. QED  BY <1>0, <2>1, <2>2 DEF RunRecord, Acquire, HandleFailure
<1>6. CASE PersistPostings(r)
  <2>1. \/ /\ \E kind : run'[r] = [run[r] EXCEPT !.pc = "failing", !.raised = kind]
           /\ sessionStatus' = sessionStatus
        \/ run'[r] = [run[r] EXCEPT !.pc = "evaluate", !.loaded = "none", !.found = "none"]
    BY <1>0, <1>6, BecomesChanges DEF PersistPostings, Fail, Raise
  <2>2. run[r].pc = "persist"
    BY <1>6 DEF PersistPostings
  <2>. QED  BY <1>0, <1>6, <2>1, <2>2 DEF RunRecord, Acquire, HandleFailure
<1>7. CASE HandleFailure(r)
  <2>1. Cleared(r) /\ run[r].pc = "failing"
    BY <1>7 DEF HandleFailure
  <2>. QED  BY <1>0, <1>7, <2>1, ClearedRecord DEF Acquire
<1>8. CASE \/ LoadContext(r) \/ Refuse(r) \/ Evaluate(r) \/ CompileReport(r) \/ StateUpdate(r)
           \/ LogFailure(r) \/ Release(r) \/ Crash(r)
  <2>1. \/ \E where : run'[r] = [run[r] EXCEPT !.pc = where]
        \/ \E kind : run'[r] = [run[r] EXCEPT !.pc = "failing", !.raised = kind]
    BY <1>0, <1>8, BecomesChanges
    DEF LoadContext, Refuse, Evaluate, CompileReport, StateUpdate, LogFailure, Release, Crash,
        Goto, Fail, Raise
  <2>2. /\ run'[r].alone = run[r].alone /\ run'[r].loaded = run[r].loaded
        /\ run'[r].found = run[r].found
    BY <1>0, <2>1 DEF RunRecord
  <2>3. sessionStatus' = sessionStatus
    BY <1>8 DEF LoadContext, Refuse, Evaluate, CompileReport, StateUpdate, LogFailure,
                Release, Crash, dbVars
  <2>. QED
    BY <1>2, <1>7, <2>2, <2>3
<1>. QED
  BY <1>1, <1>2, <1>3, <1>4, <1>5, <1>6, <1>7, <1>8 DEF OwnStep, Step

(* A run knows of the session from validate() on, with the lock taken, and it  *)
(* holds a flushed EXPIRED only until the except clause that the live check's  *)
(* SessionInvalidError takes it to.                                            *)
FoundTells(r) ==
  /\ run[r].found = "expired" /\ run[r].pc # "crashed"
       => run[r].pc = "failing" /\ run[r].raised = "session"
  /\ ~run[r].locked => run[r].loaded = "none" /\ run[r].found = "none"

(* Undisturbed in its lease, a run works alone and on the committed row.       *)
LoadedTells(r) ==
  Working(r) /\ Undisturbed(r)
    => /\ NobodyElseWorks(r)
       /\ run[r].loaded \in {"none", sessionStatus}

LEMMA FoundTellsStep ==
  ASSUME TypeOK, PositionTells, NEW r \in Run, FoundTells(r), OwnStep(r)
  PROVE  FoundTells(r)'
<1>0. run \in [Run -> RunRecord] /\ RunTells(r)
  BY DEF TypeOK, PositionTells
<1>1. run[r].pc # "crashed"
  BY DEF OwnStep, Step, RunAccount, LoadContext, Acquire, Refuse, LoadSession, Validate,
         Collect, PersistPostings, Evaluate, CompileReport, StateUpdate, HandleFailure,
         LogFailure, Release, Crash, Active, Pipeline
<1>2. ASSUME run[r].pc = "failing"
      PROVE  HandleFailure(r) \/ Crash(r)
  BY <1>2
  DEF OwnStep, Step, RunAccount, LoadContext, Acquire, Refuse, LoadSession, Validate, Collect,
      PersistPostings, Evaluate, CompileReport, StateUpdate, LogFailure, Release
<1>3. Crash(r) => run'[r].pc = "crashed"
  BY <1>0, GotoRecord DEF Crash
<1>4. ASSUME run'[r].found = "expired", run'[r].pc # "crashed"
      PROVE  run'[r].pc = "failing" /\ run'[r].raised = "session"
  <2>1. CASE run[r].found = "expired"
    BY <1>1, <1>2, <1>3, <1>4, <2>1, SessionStep DEF FoundTells
  <2>2. CASE run[r].found # "expired"
    BY <1>4, <2>2, SessionStep
  <2>. QED  BY <2>1, <2>2
<1>5. ASSUME ~run'[r].locked
      PROVE  run'[r].loaded = "none" /\ run'[r].found = "none"
  <2>1. ~Acquire(r)
    BY <1>5, SessionStep
  <2>2. ~run[r].locked
    BY <1>0, <1>5, <2>1, LockedKept
  <2>3. ~LoadSession(r) /\ ~Validate(r)
    BY <1>0, <2>2 DEF LoadSession, Validate, RunTells, Pipeline
  <2>. QED  BY <2>2, <2>3, SessionStep DEF FoundTells
<1>. QED  BY <1>4, <1>5 DEF FoundTells

(* Whoever works after a step worked before it, or has just taken the lock. *)
LEMMA WorkedBefore ==
  ASSUME TypeOK, PositionTells, NEW r \in Run, OwnStep(r), ~Acquire(r), Working(r)'
  PROVE  Working(r) /\ now' = now
<1>0. run \in [Run -> RunRecord] /\ RunTells(r)
  BY DEF TypeOK, PositionTells
<1>1. run[r].locked
  BY <1>0, LockedKept DEF Working
<1>2. ~RunAccount(r)
  BY <1>0, <1>1 DEF RunAccount, RunTells
<1>3. run[r].pc \in Active /\ now' = now
  BY <1>2
  DEF OwnStep, Step, LoadContext, Refuse, LoadSession, Validate, Collect, PersistPostings,
      Evaluate, CompileReport, StateUpdate, HandleFailure, LogFailure, Release, Crash,
      Active, Pipeline
<1>. QED  BY <1>1, <1>3 DEF Working

(* Nobody takes the lock from a run in its lease. *)
LEMMA LeaseIsRespected ==
  ASSUME TypeOK, WorkingRunHoldsRow, NEW r \in Run, NEW s \in Run,
         Working(s), InLease(s)
  PROVE  ~Acquire(r)
<1>1. lock = Lock!HeldRow(s, now[s]) /\ clock <= now[s] + LockDuration /\ now[r] <= clock
  BY DEF WorkingRunHoldsRow, InLease
<1>2. s # NoOwner /\ now \in [Run -> Nat] /\ clock \in Nat
  BY RunAssumption DEF TypeOK
<1>. QED
  BY <1>1, <1>2, RunAssumption DEF Acquire, Lock!Acquirable, Lock!HeldRow

LEMMA LoadedTellsStep ==
  ASSUME TypeOK, PositionTells, WorkingRunHoldsRow, NEW s \in Run,
         \A q \in Run : FoundTells(q), LoadedTells(s), NEW r \in Run, OwnStep(r)
  PROVE  LoadedTells(s)'
<1>. SUFFICES ASSUME Working(s)', Undisturbed(s)'
              PROVE  /\ NobodyElseWorks(s)'
                     /\ run'[s].loaded \in {"none", sessionStatus'}
  BY DEF LoadedTells
<1>0. /\ run \in [Run -> RunRecord] /\ \A q \in Run : RunTells(q)
      /\ \A q \in Run \ {r} : run'[q] = run[q] /\ now'[q] = now[q]
  BY OthersKeep DEF TypeOK, PositionTells
<1>1. clock' = clock
  BY DEF OwnStep, Step, RunAccount, LoadContext, Acquire, Refuse, LoadSession, Validate,
         Collect, PersistPostings, Evaluate, CompileReport, StateUpdate, HandleFailure,
         LogFailure, Release, Crash
<1>2. CASE s = r /\ Acquire(r)
  <2>1. NobodyElseWorks(r)
    BY <1>2, SessionStep DEF Undisturbed
  <2>2. NobodyElseWorks(r)'
    BY <1>0, <2>1 DEF NobodyElseWorks, Working
  <2>3. ~run[r].locked
    BY <1>0, <1>2 DEF Acquire, RunTells
  <2>4. run'[r].loaded = "none"
    BY <1>2, <2>3, SessionStep DEF FoundTells
  <2>. QED  BY <1>2, <2>2, <2>4
<1>3. CASE s = r /\ ~Acquire(r)
  <2>1. Working(r) /\ now' = now
    BY <1>3, WorkedBefore
  <2>2. Undisturbed(r)
    BY <1>1, <1>3, <2>1, SessionStep DEF Undisturbed, InLease
  <2>3. NobodyElseWorks(r) /\ run[r].loaded \in {"none", sessionStatus}
    BY <1>3, <2>1, <2>2 DEF LoadedTells
  <2>4. NobodyElseWorks(r)'
    BY <1>0, <2>3 DEF NobodyElseWorks, Working
  <2>5. run'[r].loaded \in {"none", sessionStatus'}
    BY <2>3, SessionStep
  <2>. QED  BY <1>3, <2>4, <2>5
<1>4. CASE s # r
  <2>1. Working(s) /\ Undisturbed(s)
    BY <1>0, <1>1, <1>4 DEF Working, Undisturbed, InLease
  <2>2. NobodyElseWorks(s) /\ run[s].loaded \in {"none", sessionStatus}
    BY <2>1 DEF LoadedTells
  <2>3. ~Acquire(r) /\ ~Working(r)
    BY <1>4, <2>1, <2>2, LeaseIsRespected DEF Undisturbed, NobodyElseWorks
  <2>4. ~Working(r)'
    BY <2>3, WorkedBefore
  <2>5. NobodyElseWorks(s)'
    BY <1>0, <2>2, <2>4 DEF NobodyElseWorks, Working
  <2>6. sessionStatus' = sessionStatus
    <3>1. ~PersistPostings(r)
      BY <1>0, <2>3 DEF PersistPostings, RunTells, Working, Active, Pipeline
    <3>2. ASSUME HandleFailure(r) PROVE sessionStatus' = sessionStatus
      <4>1. ~run[r].locked
        BY <2>3, <3>2 DEF HandleFailure, Working, Active
      <4>2. run[r].found = "none"
        BY <4>1 DEF FoundTells
      <4>. QED  BY <3>2, <4>2 DEF HandleFailure, Committed
    <3>. QED  BY <3>1, <3>2, SessionStep
  <2>. QED  BY <1>0, <1>4, <2>2, <2>5, <2>6
<1>. QED  BY <1>2, <1>3, <1>4

(* run()'s except clause: when the live check has found the session dead, the  *)
(* database says EXPIRED once the failure is committed, unless the run loaded  *)
(* EXPIRED in an overlap of two runs; and any other failure leaves the status  *)
(* as it was, whatever was flushed, and whatever another run does.             *)
THEOREM FailedRunTellsTheSession == Spec => FailureKeepsSessionTruth
<1>. DEFINE Told == \A r \in Run : FoundTells(r) /\ LoadedTells(r)
<1>1. Init => Told
  BY DEF Init, NewRun, FoundTells, LoadedTells, Working
<1>2. TypeOK /\ PositionTells /\ WorkingRunHoldsRow /\ Told /\ [Next]_vars => Told'
  <2>. SUFFICES ASSUME TypeOK, PositionTells, WorkingRunHoldsRow, Told, [Next]_vars,
                       NEW s \in Run
                PROVE  FoundTells(s)' /\ LoadedTells(s)'
    OBVIOUS
  <2>1. CASE Tick
    <3>1. run' = run /\ now' = now /\ sessionStatus' = sessionStatus /\ clock' = clock + 1
      BY <2>1 DEF Tick, dbVars
    <3>2. InLease(s)' => InLease(s)
      BY <3>1, RunAssumption DEF InLease, TypeOK
    <3>. QED
      BY <3>1, <3>2 DEF FoundTells, LoadedTells, Undisturbed, Working, NobodyElseWorks
  <2>2. CASE UNCHANGED vars
    BY <2>2 DEF vars, dbVars, FoundTells, LoadedTells, Undisturbed, InLease, Working,
                NobodyElseWorks
  <2>3. ASSUME NEW r \in Run, OwnStep(r)
        PROVE  FoundTells(s)' /\ LoadedTells(s)'
    <3>1. FoundTells(s)'
      <4>1. CASE s = r
        BY <2>3, <4>1, FoundTellsStep
      <4>2. CASE s # r
        BY <2>3, <4>2, OthersKeep DEF FoundTells
      <4>. QED  BY <4>1, <4>2
    <3>2. LoadedTells(s)'
      BY <2>3, LoadedTellsStep
    <3>. QED  BY <3>1, <3>2
  <2>. QED  BY <2>1, <2>2, <2>3 DEF Next, OwnStep
<1>3. TypeOK /\ PositionTells /\ Told /\ [Next]_vars
        => [\A r \in Run :
              run[r].pc = "failing" /\ run'[r].pc = "logging"
                => /\ run[r].found = "expired" /\ (Undisturbed(r) \/ run[r].loaded # "expired")
                        => sessionStatus' = "expired"
                   /\ run[r].raised # "session" => sessionStatus' = sessionStatus]_vars
  <2>. SUFFICES ASSUME TypeOK, PositionTells, Told, Next,
                       NEW r \in Run, run[r].pc = "failing", run'[r].pc = "logging"
                PROVE  /\ run[r].found = "expired" /\ (Undisturbed(r) \/ run[r].loaded # "expired")
                            => sessionStatus' = "expired"
                       /\ run[r].raised # "session" => sessionStatus' = sessionStatus
    OBVIOUS
  <2>1. HandleFailure(r)
    <3>1. PICK s \in Run : OwnStep(s)
      BY DEF Next, OwnStep, Tick
    <3>2. s = r
      BY <3>1, OthersKeep
    <3>3. ~Crash(r)
      BY GotoRecord DEF Crash, TypeOK
    <3>. QED
      BY <3>1, <3>2, <3>3
      DEF OwnStep, Step, RunAccount, LoadContext, Acquire, Refuse, LoadSession, Validate,
          Collect, PersistPostings, Evaluate, CompileReport, StateUpdate, LogFailure, Release
  <2>2. ASSUME run[r].found = "expired", Undisturbed(r) \/ run[r].loaded # "expired"
        PROVE  sessionStatus' = "expired"
    <3>1. run[r].raised = "session" /\ Working(r)
      BY <2>2 DEF FoundTells, Working, Active
    <3>2. sessionStatus' = Committed(r)
      BY <2>1, <3>1 DEF HandleFailure
    <3>3. CASE run[r].loaded # "expired"
      BY <2>2, <3>2, <3>3 DEF Committed
    <3>4. CASE run[r].loaded = "expired"
      <4>1. sessionStatus = "expired"
        BY <2>2, <3>1, <3>4 DEF LoadedTells
      <4>. QED  BY <2>2, <3>2, <3>4, <4>1 DEF Committed
    <3>. QED  BY <3>3, <3>4
  <2>. QED  BY <2>1, <2>2 DEF HandleFailure
<1>. QED
  BY <1>1, <1>2, <1>3, InductiveInvariant, OneRunWithinLeaseAlways, PTL
  DEF Spec, FailureKeepsSessionTruth
=============================================================================
