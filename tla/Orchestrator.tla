---------------------------- MODULE Orchestrator ----------------------------
(***************************************************************************)
(* bootstrap.run_account() and run/orchestrator.py: the runs of one        *)
(* account, each in a process and a database session of its own, sharing   *)
(* the database (READ COMMITTED) and the reports directory.                *)
(*                                                                         *)
(* A step of a run ends where the code commits, rolls back or touches      *)
(* something outside its transaction, so that other runs, the clock and a  *)
(* crash can come between any two of them.  What a run has flushed but not *)
(* committed is kept in the run's own record.  Which jobs a scan finds, and *)
(* which calls fail, is any choice; what is computed about a job is the    *)
(* subject of JobHistory.                                                  *)
(***************************************************************************)
EXTENDS Naturals, FiniteSets

CONSTANTS
  Run,            \* run ids
  Job,            \* job ids
  NoOwner,        \* NULL in run_locks.lock_owner
  LockDuration,   \* bootstrap.LOCK_DURATION
  MaxRunTime,     \* bound on the time a run takes: LOCK_DURATION is meant to be above it
  MaxClock        \* bound on modelled time

ASSUME RunAssumption ==
  /\ NoOwner \notin Run
  /\ LockDuration \in Nat
  /\ MaxRunTime \in Nat
  /\ MaxClock \in Nat

VARIABLES
  clock,          \* real time
  lock,           \* run_locks: the account's row
  now,            \* the `now` parameter of each run
  history,        \* evaluated_jobs: the rows, a function on the jobs that have one
  postings,       \* job_postings: the jobs that have a row
  sessionStatus,  \* linkedin_sessions.session_status, "none" without a row
  runLog,         \* run_logs: the status written for each run, "none" without a row
  reports,        \* reports: the runs that have a row
  files,          \* reports directory: the runs whose file was written
  run             \* local state of each run

dbVars == <<history, postings, sessionStatus, runLog, reports>>
vars == <<clock, lock, now, dbVars, files, run>>

(* The pipeline: what the try block of run() executes once it has the lock. *)
Pipeline == {"validate", "check", "collect", "persist", "evaluate", "compile", "update"}
Active == {"load", "acquire", "failing", "logging", "release"} \cup Pipeline
Stopped == {"done", "refused", "crashed"}

(* What is kept here of an evaluated_jobs row: the run that created it       *)
(* (first_seen_at) and whether the job is closed.                            *)
Row == [firstSeenBy : Run, status : {"open", "closed"}]
Histories == UNION {[jobs -> Row] : jobs \in SUBSET Job}
NoHistory == [j \in {} |-> NoOwner]

(* What a run keeps to itself; in quotes, the names the code gives it. *)
RunRecord ==
  [pc        : {"new"} \cup Active \cup Stopped,
   bootstrap : BOOLEAN,                       \* "is_bootstrap"
   locked    : BOOLEAN,                       \* "lock_acquired"
   alone     : BOOLEAN,                       \* no other run worked when it took the lock
   loaded    : {"none", "valid", "expired"},  \* session_status as validate() loaded it
   found     : {"none", "valid", "expired"},  \* ... and as it set and flushed it
   scan      : SUBSET Job,                    \* "current_scan"
   complete  : BOOLEAN,                       \* "collection_result.is_complete"
   previous  : Histories,                     \* "previous_by_job_id"
   raised    : {"none", "session", "other", "mute"}]

TypeOK ==
  /\ clock \in Nat
  /\ lock \in [owner : Run \cup {NoOwner}, expires : Nat]
  /\ now \in [Run -> Nat]
  /\ history \in Histories
  /\ postings \in SUBSET Job
  /\ sessionStatus \in {"none", "valid", "expired"}
  /\ runLog \in [Run -> {"none", "success", "partial", "failed"}]
  /\ reports \in SUBSET Run
  /\ files \in SUBSET Run
  /\ run \in [Run -> RunRecord]

NewRun == [pc |-> "new", bootstrap |-> FALSE, locked |-> FALSE, alone |-> FALSE,
           loaded |-> "none", found |-> "none",
           scan |-> {}, complete |-> FALSE, previous |-> NoHistory, raised |-> "none"]

(* A freshly seeded account, or one somebody logged in to, maybe long ago. *)
Init ==
  /\ clock = 0
  /\ lock = [owner |-> NoOwner, expires |-> 0]
  /\ now = [r \in Run |-> 0]
  /\ history = NoHistory
  /\ postings = {}
  /\ sessionStatus \in {"none", "valid", "expired"}
  /\ runLog = [r \in Run |-> "none"]
  /\ reports = {}
  /\ files = {}
  /\ run = [r \in Run |-> NewRun]

(* The program position of each run, seen as a user of the lock. *)
LockUse(r) ==
  IF run[r].pc \in {"new", "refused", "crashed"} THEN run[r].pc
  ELSE IF ~run[r].locked THEN "ready"
  ELSE IF run[r].pc = "done" THEN "released" ELSE "holding"

Lock == INSTANCE RunLock
          WITH Owner <- Run, pc <- [r \in Run |-> LockUse(r)]

-----------------------------------------------------------------------------
Becomes(r, record) == run' = [run EXCEPT ![r] = record]
Goto(r, where) == Becomes(r, [run[r] EXCEPT !.pc = where])

(* The rest of the try block is skipped: run()'s except clause comes next.  *)
(* It tells SessionInvalidError ("session") from the rest; an exception     *)
(* whose str() is empty is "mute".                                          *)
Raise(r, kind) == Becomes(r, [run[r] EXCEPT !.pc = "failing", !.raised = kind])
Fail(r) == Raise(r, "other") \/ Raise(r, "mute")

(* run_account(): is_bootstrap is computed here, before the lock is asked for. *)
RunAccount(r) ==
  /\ run[r].pc = "new"
  /\ clock + LockDuration < MaxClock
  /\ now' = [now EXCEPT ![r] = clock]
  /\ Becomes(r, [run[r] EXCEPT !.pc = "load", !.bootstrap = (DOMAIN history = {})])
  /\ UNCHANGED <<clock, lock, dbVars, files>>

(* r is past its acquire and has not released. *)
Working(r) == run[r].locked /\ run[r].pc \in Active

(* r's lease, which it took by the `now` it was given, has not run out. *)
InLease(r) == clock <= now[r] + LockDuration

(* load_account_context(): raises without a user profile or active config. *)
LoadContext(r) ==
  /\ run[r].pc = "load"
  /\ Goto(r, "acquire") \/ Fail(r)
  /\ UNCHANGED <<clock, lock, now, dbVars, files>>

NobodyElseWorks(r) == \A s \in Run \ {r} : ~Working(s)

(* A slip: the answer of acquire() is not looked at. *)
AcquireUnchecked(r) ==
  /\ run[r].pc = "acquire"
  /\ lock' = IF Lock!Acquirable(lock, now[r]) THEN Lock!HeldRow(r, now[r]) ELSE lock
  /\ Becomes(r, [run[r] EXCEPT !.pc = "validate", !.locked = TRUE, !.alone = NobodyElseWorks(r)])
  /\ UNCHANGED <<clock, now, dbVars, files>>

Acquire(r) ==
  /\ run[r].pc = "acquire"
  /\ Lock!Acquirable(lock, now[r])
  /\ lock' = Lock!HeldRow(r, now[r])
  /\ Becomes(r, [run[r] EXCEPT !.pc = "validate", !.locked = TRUE, !.alone = NobodyElseWorks(r)])
  /\ UNCHANGED <<clock, now, dbVars, files>>

(* RunAlreadyInProgressError leaves run() without a log row. *)
Refuse(r) ==
  /\ run[r].pc = "acquire"
  /\ ~Lock!Acquirable(lock, now[r])
  /\ Goto(r, "refused")
  /\ UNCHANGED <<clock, lock, now, dbVars, files>>

(* SessionManager.validate(): without a row or a profile it raises at once. *)
LoadSession(r) ==
  /\ run[r].pc = "validate"
  /\ \/ Raise(r, "session")
     \/ /\ sessionStatus # "none"
        /\ Becomes(r, [run[r] EXCEPT !.pc = "check", !.loaded = sessionStatus])
  /\ UNCHANGED <<clock, lock, now, dbVars, files>>

(* The row as a transaction of r sees it and would commit it: an UPDATE writes *)
(* the columns whose value differs from the one loaded, and no other.          *)
Committed(r) ==
  IF run[r].found \in {"none", run[r].loaded} THEN sessionStatus ELSE run[r].found

(* last_validated_at changes in any case: what is flushed is an UPDATE that   *)
(* makes another's wait until it is committed or rolled back.                 *)
RowIsLocked(r) ==
  \E s \in Run \ {r} : run[s].found # "none" /\ run[s].pc # "crashed"

(* Then comes the live check.  Whatever it says is flushed, and raises when   *)
(* the session is dead; or the check itself fails.                            *)
Validate(r) ==
  /\ run[r].pc = "check"
  /\ \/ /\ ~RowIsLocked(r)
        /\ \/ Becomes(r, [run[r] EXCEPT !.pc = "collect", !.found = "valid"])
           \/ Becomes(r, [run[r] EXCEPT !.pc = "failing", !.found = "expired",
                            !.raised = "session"])
     \/ Fail(r)
  /\ UNCHANGED <<clock, lock, now, dbVars, files>>

(* Collection, which reads the row again before every page, normalisation, and *)
(* the reading of the account's history that the rest of the run works from.   *)
Collect(r) ==
  /\ run[r].pc = "collect"
  /\ \/ /\ Committed(r) # "expired"
        /\ \E seen \in SUBSET Job, complete \in BOOLEAN :
             Becomes(r, [run[r] EXCEPT !.pc = "persist", !.scan = seen,
                               !.complete = complete, !.previous = history])
     \/ Raise(r, "session")
     \/ Fail(r)
  /\ UNCHANGED <<clock, lock, now, dbVars, files>>

(* Eager write of companies and job_postings, then commit. *)
PersistPostings(r) ==
  /\ run[r].pc = "persist"
  /\ \/ /\ postings' = postings \cup run[r].scan
        /\ sessionStatus' = Committed(r)
        /\ Becomes(r, [run[r] EXCEPT !.pc = "evaluate", !.loaded = "none", !.found = "none"])
     \/ Fail(r) /\ UNCHANGED <<postings, sessionStatus>>
  /\ UNCHANGED <<clock, lock, now, history, runLog, reports, files>>

(* The evaluation of every job of the scan; only company scores are committed. *)
Evaluate(r) ==
  /\ run[r].pc = "evaluate"
  /\ Goto(r, "compile") \/ Fail(r)
  /\ UNCHANGED <<clock, lock, now, dbVars, files>>

(* The run log row is only flushed; the report file is written for good. *)
CompileReport(r) ==
  /\ run[r].pc = "compile"
  /\ \/ Goto(r, "update") /\ files' = files \cup {r}
     \/ Fail(r) /\ UNCHANGED files
  /\ UNCHANGED <<clock, lock, now, dbVars>>

(* A complete scan closes the open jobs of the snapshot it has missed. *)
NewlyClosed(r) ==
  LET previous == run[r].previous
  IN {j \in DOMAIN previous \ run[r].scan : run[r].complete /\ previous[j].status # "closed"}

(* The history the final transaction leaves: jobs the run did not know of    *)
(* are created, known ones updated (first_seen_at stays), missed ones closed. *)
UpdatedHistory(r) ==
  [j \in DOMAIN history \cup run[r].scan |->
     IF j \in run[r].scan
       THEN [firstSeenBy |-> IF j \in DOMAIN run[r].previous
                               THEN history[j].firstSeenBy ELSE r,
             status |-> "open"]
     ELSE IF j \in NewlyClosed(r) THEN [history[j] EXCEPT !.status = "closed"]
     ELSE history[j]]

(* A slip: there is no unique constraint on (account_id, job_id). *)
NoConstraint(r) == TRUE

(* uq_evaluated_jobs_account_id_job_id: no row the run is about to create is *)
(* there by now.                                                             *)
CreatesOnlyNewRows(r) ==
  (run[r].scan \ DOMAIN run[r].previous) \cap DOMAIN history = {}

(* A slip: the report row is committed on its own, before the rest. *)
StateUpdateReportFirst(r) ==
  /\ run[r].pc = "update"
  /\ IF r \notin reports
       THEN reports' = reports \cup {r} /\ UNCHANGED <<history, runLog, run>>
       ELSE /\ CreatesOnlyNewRows(r)
            /\ history' = UpdatedHistory(r)
            /\ runLog' = [runLog EXCEPT ![r] = "success"]
            /\ Goto(r, "release")
            /\ UNCHANGED reports
  /\ UNCHANGED <<clock, lock, now, postings, sessionStatus, files>>

(* run_status: what the run log says of a run that came to its end. *)
Outcome(r) == IF run[r].complete THEN "success" ELSE "partial"

(* The final commit: run log, report row and every evaluated job, all or     *)
(* nothing; a create() that meets a row another run has put there meanwhile  *)
(* is an IntegrityError.                                                     *)
StateUpdate(r) ==
  /\ run[r].pc = "update"
  /\ \/ /\ CreatesOnlyNewRows(r)
        /\ history' = UpdatedHistory(r)
        /\ runLog' = [runLog EXCEPT ![r] = Outcome(r)]
        /\ reports' = reports \cup {r}
        /\ Goto(r, "release")
     \/ Fail(r) /\ UNCHANGED <<history, runLog, reports>>
  /\ UNCHANGED <<clock, lock, now, postings, sessionStatus, files>>

(* The session is committed or rolled back: what it had loaded and flushed is over. *)
Cleared(r) == Becomes(r, [run[r] EXCEPT !.pc = "logging", !.loaded = "none", !.found = "none"])

(* A slip: every failure is rolled back, the mark of a dead session included. *)
HandleFailureAlwaysRollback(r) ==
  /\ run[r].pc = "failing"
  /\ Cleared(r)
  /\ UNCHANGED <<clock, lock, now, dbVars, files>>

(* except Exception: a SessionInvalidError commits what is flushed, anything *)
(* else is rolled back.                                                      *)
HandleFailure(r) ==
  /\ run[r].pc = "failing"
  /\ sessionStatus' = IF run[r].raised = "session" THEN Committed(r) ELSE sessionStatus
  /\ Cleared(r)
  /\ UNCHANGED <<clock, lock, now, history, postings, runLog, reports, files>>

(* Then a Failed row is committed.  RunLog's own validator refuses an empty    *)
(* error_detail: a mute exception leaves no row, and the ValidationError goes  *)
(* on to the caller.  The finally block only frees a lock that was taken.      *)
LogFailure(r) ==
  /\ run[r].pc = "logging"
  /\ runLog' = [runLog EXCEPT ![r] = IF run[r].raised = "mute" THEN "none" ELSE "failed"]
  /\ Goto(r, IF run[r].locked THEN "release" ELSE "done")
  /\ UNCHANGED <<clock, lock, now, history, postings, sessionStatus, reports, files>>

(* A slip: the row is freed whoever owns it. *)
ReleaseAnyOwner(r) ==
  /\ run[r].pc = "release"
  /\ lock' = Lock!Free
  /\ Goto(r, "done")
  /\ UNCHANGED <<clock, now, dbVars, files>>

(* finally: release and commit. *)
Release(r) ==
  /\ run[r].pc = "release"
  /\ lock' = Lock!ReleasedRow(lock, r)
  /\ Goto(r, "done")
  /\ UNCHANGED <<clock, now, dbVars, files>>

(* The process is killed: what it had not committed is gone.  It is no other   *)
(* when the database fails the except or finally clause: the broken session    *)
(* takes no release() either.                                                  *)
Crash(r) ==
  /\ run[r].pc \in Active
  /\ Goto(r, "crashed")
  /\ UNCHANGED <<clock, lock, now, dbVars, files>>

Tick ==
  /\ clock < MaxClock
  /\ \A r \in Run : run[r].pc \in Active => clock < now[r] + MaxRunTime
  /\ clock' = clock + 1
  /\ UNCHANGED <<lock, now, dbVars, files, run>>

Step(r) ==
  \/ LoadContext(r) \/ Acquire(r) \/ Refuse(r) \/ LoadSession(r) \/ Validate(r)
  \/ Collect(r) \/ PersistPostings(r) \/ Evaluate(r) \/ CompileReport(r)
  \/ StateUpdate(r) \/ HandleFailure(r) \/ LogFailure(r) \/ Release(r)

Next == Tick \/ \E r \in Run : RunAccount(r) \/ Step(r) \/ Crash(r)

Spec == Init /\ [][Next]_vars
-----------------------------------------------------------------------------
(* FR-12, as far as the lease carries it: when two runs of the account work  *)
(* at the same time, one of them has outlived its lease.                     *)
OneRunWithinLease ==
  \A r, s \in Run : Working(r) /\ Working(s) /\ InLease(r) /\ InLease(s) => r = s

(* FR-12 itself: no two runs of the account work at the same time.  It needs *)
(* runs that take no longer than LOCK_DURATION.                              *)
OneRunAtATime == \A r, s \in Run : Working(r) /\ Working(s) => r = s

(* The inductive form: the lock row names the run that works in its lease.   *)
WorkingRunHoldsRow ==
  \A r \in Run :
    /\ now[r] <= clock
    /\ run[r].pc \in Active => clock <= now[r] + MaxRunTime
    /\ Working(r) /\ InLease(r) => lock = Lock!HeldRow(r, now[r])

(* A run that has come to its end does not keep the account locked. *)
LockGivenBack == \A r \in Run : run[r].pc \in {"done", "refused"} => lock.owner # r

(* Every run that worked or tried to has exactly the outcome its log tells:  *)
(* a report row exists for Success and Partial and for nothing else          *)
(* (PRD 15.7), its file exists, a refused run left nothing, and a run that   *)
(* ended in silence had nothing to say.                                      *)
OutcomeIsRecorded ==
  \A r \in Run :
    /\ r \in reports <=> runLog[r] \in {"success", "partial"}
    /\ r \in reports => r \in files
    /\ run[r].pc = "refused" => runLog[r] = "none" /\ r \notin files
    /\ run[r].pc = "done" /\ runLog[r] = "none" => run[r].raised = "mute"

(* evaluated_jobs.job_id is a foreign key on job_postings: the eager commit  *)
(* of the postings comes before every history row that needs it.             *)
HistoryHasPostings == DOMAIN history \subseteq postings

(* What the position of a run tells of its log, its files and the lock, and  *)
(* the scan of its postings: the inductive form of the invariants above.     *)
Unlogged == {"new", "load", "acquire", "refused", "failing", "logging"} \cup Pipeline
Unwritten == Unlogged \ {"failing", "logging", "update"}

RunTells(r) ==
  /\ run[r].pc \in Unlogged => runLog[r] = "none"
  /\ run[r].pc \in Unwritten => r \notin files
  /\ run[r].pc = "update" => r \in files
  /\ run[r].pc \in {"release", "done"} /\ runLog[r] = "none" => run[r].raised = "mute"
  /\ run[r].pc \in {"evaluate", "compile", "update"} => run[r].scan \subseteq postings
  /\ DOMAIN run[r].previous \subseteq DOMAIN history
  /\ run[r].pc \in Pipeline \cup {"release"} => run[r].locked
  /\ run[r].pc \in {"new", "load", "acquire", "refused"} => ~run[r].locked
  /\ ~run[r].locked \/ run[r].pc = "done" => lock.owner # r
  /\ run[r].pc \in {"failing", "logging"} => run[r].raised # "none"

PositionTells == \A r \in Run : RunTells(r)

(* NFR-13, EDGE-14: history and reports change in one step, the one that     *)
(* makes the run's outcome known, whatever crashes or fails before or after. *)
AtomicFinalState ==
  [][history' # history \/ reports' # reports
       => \E r \in Run : /\ r \notin reports /\ reports' = reports \cup {r}
                         /\ runLog[r] = "none" /\ runLog'[r] \in {"success", "partial"}]_vars

(* A job's row keeps the run that first saw it, also when two runs overlap   *)
(* and both hold the job for new.                                            *)
FirstSeenIsKept ==
  [][\A j \in DOMAIN history :
       j \in DOMAIN history' /\ history'[j].firstSeenBy = history[j].firstSeenBy]_vars

(* No other run of the account has worked since r took the lock. *)
Undisturbed(r) == run[r].alone /\ InLease(r)

(* When the live check has found the session dead, the commit of the except   *)
(* clause leaves EXPIRED behind, be it that the run has set it or that it was  *)
(* there.  (Of two runs that overlap, the one that loaded EXPIRED writes no    *)
(* status, and the other's VALID can stay.)  A failure that has nothing to do  *)
(* with the session leaves the status as it was, a flushed VALID included (the *)
(* defect of M12 that run()'s except clause tells of).                         *)
FailureKeepsSessionTruth ==
  [][\A r \in Run :
       run[r].pc = "failing" /\ run'[r].pc = "logging"
         => /\ run[r].found = "expired" /\ (Undisturbed(r) \/ run[r].loaded # "expired")
                 => sessionStatus' = "expired"
            /\ run[r].raised # "session" => sessionStatus' = sessionStatus]_vars

(* The runs use the lock as RunLock's owners do. *)
UsesRunLock == Lock!Spec
=============================================================================
