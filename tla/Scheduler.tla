----------------------------- MODULE Scheduler -----------------------------
(***************************************************************************)
(* The schedule of one account: APSchedulerAdapter (its calls run in the   *)
(* caller's thread, _fire() in a worker thread of APScheduler, with a lock *)
(* for each account) and the process around it, run_forever() of main.py,  *)
(* with its one long database session and its commit listeners.  Times are *)
(* counted from now, a time gone by is Past.                               *)
(***************************************************************************)
EXTENDS Integers

CONSTANTS
  Interval,       \* schedule.interval_days
  JitterWindow,   \* schedule.jitter_minutes
  None,
  FaultSets       \* sets of what can happen besides: see ASSUME

ASSUME SchedulerAssumption ==
  /\ Interval \in Nat /\ JitterWindow \in Nat /\ JitterWindow < Interval
  /\ None \notin Int
  /\ FaultSets \subseteq
       SUBSET {"late",      \* the scheduler's thread wakes too late
               "dbError",   \* the database fails _fire() after the run
               "commitError",  \* ... or a commit of the shared session
               "crash",
               "calls"}     \* cancel() and schedule_next_run() are called

VARIABLES
  faults,      \* what can happen besides, in this behaviour
  up,          \* the process runs
  stored,      \* accounts.next_run_at, committed
  row,         \* the same as scheduler_session sees it
  job,         \* run_date of the job in APScheduler's memory
  cancelled,   \* _cancelled_account_ids has the account
  fire,        \* where _fire() is
  owes,        \* the caller has yet to commit
  wanted,      \* the last call was schedule_next_run()
  undone,      \* a rollback or a failed commit has taken it back
  broken,      \* the shared session raises until it is rolled back
  since        \* time since on_trigger was called, up to Interval

vars == <<faults, up, stored, row, job, cancelled, fire, owes, wanted, undone, broken, since>>

Past == -1
Time == Past..(Interval + JitterWindow)

TypeOK ==
  /\ faults \in FaultSets
  /\ up \in BOOLEAN /\ owes \in BOOLEAN /\ wanted \in BOOLEAN
  /\ cancelled \in BOOLEAN /\ undone \in BOOLEAN /\ broken \in BOOLEAN
  /\ stored \in Time \cup {None}
  /\ row \in Time \cup {None}
  /\ job \in Time \cup {None}
  /\ fire \in {"none", "on_trigger", "rearm", "executed", "error"}
  /\ since \in 0..Interval

Init ==
  /\ faults \in FaultSets
  /\ up = FALSE /\ stored = None /\ row = None /\ job = None
  /\ cancelled = FALSE /\ fire = "none" /\ owes = FALSE /\ wanted = FALSE
  /\ undone = FALSE /\ broken = FALSE /\ since = Interval

(* _compute_next_run_at() *)
FreshTime == (Interval - JitterWindow)..(Interval + JitterWindow)

(* A slip: a run that is due now is honoured too. *)
NextRunAtOrNow(nextRunAt) ==
  IF nextRunAt # None /\ nextRunAt >= 0 THEN {nextRunAt} ELSE FreshTime

(* A time in the future is honoured, any other replaced. *)
NextRunAt(nextRunAt) ==
  IF nextRunAt # None /\ nextRunAt > 0 THEN {nextRunAt} ELSE FreshTime

-----------------------------------------------------------------------------
(* run_forever(): the first thing done is schedule_next_run(). *)
Start ==
  /\ ~up
  /\ \E t \in NextRunAt(stored) : row' = t /\ job' = t
  /\ up' = TRUE /\ owes' = TRUE /\ wanted' = TRUE /\ undone' = FALSE
  /\ UNCHANGED <<faults, stored, cancelled, fire, broken, since>>

(* A slip: a cancellation of before stays noted. *)
ScheduleKeepingFlag ==
  /\ "calls" \in faults /\ up /\ ~owes /\ ~broken
  /\ \E t \in NextRunAt(row) : row' = t /\ job' = t
  /\ owes' = TRUE /\ wanted' = TRUE /\ undone' = FALSE
  /\ UNCHANGED <<faults, up, stored, cancelled, fire, broken, since>>

ScheduleNextRun ==
  /\ "calls" \in faults /\ up /\ ~owes /\ ~broken
  /\ cancelled' = FALSE
  /\ \E t \in NextRunAt(row) : row' = t /\ job' = t
  /\ owes' = TRUE /\ wanted' = TRUE /\ undone' = FALSE
  /\ UNCHANGED <<faults, up, stored, fire, broken, since>>

Cancel ==
  /\ "calls" \in faults /\ up /\ ~owes /\ ~broken
  /\ cancelled' = TRUE /\ job' = None /\ row' = None
  /\ owes' = TRUE /\ wanted' = FALSE /\ undone' = FALSE
  /\ UNCHANGED <<faults, up, stored, fire, broken, since>>

(* The process ends, wherever it is, and its memory with it. *)
ProcessEnds ==
  /\ up' = FALSE /\ row' = stored' /\ job' = None
  /\ cancelled' = FALSE /\ fire' = "none" /\ owes' = FALSE /\ wanted' = FALSE
  /\ undone' = FALSE /\ broken' = FALSE
  /\ UNCHANGED <<faults, since>>

Crash ==
  /\ "crash" \in faults /\ up
  /\ stored' = stored /\ ProcessEnds

(* The caller of either, as run_forever(), commits the session. *)
CallerCommits ==
  /\ owes /\ ~broken
  /\ owes' = FALSE /\ stored' = row
  /\ UNCHANGED <<faults, up, row, job, cancelled, fire, wanted, undone, broken, since>>

(* In the transaction a failed statement has left behind, PostgreSQL takes a   *)
(* COMMIT for a ROLLBACK, and says nothing.                                     *)
CallerCommitsNothing ==
  /\ owes /\ fire = "error"
  /\ owes' = FALSE /\ row' = stored /\ undone' = TRUE /\ broken' = FALSE
  /\ UNCHANGED <<faults, up, stored, job, cancelled, fire, wanted, since>>

(* An exception here, or in the call itself when it meets a broken session,    *)
(* ends run_forever().  A commit that raises may have reached the database all *)
(* the same.                                                                   *)
CallerFails ==
  /\ owes /\ ("commitError" \in faults \/ broken)
  /\ stored' \in IF broken THEN {stored} ELSE {stored, row}
  /\ ProcessEnds

CallFails ==
  /\ "calls" \in faults /\ up /\ ~owes /\ broken
  /\ stored' = stored /\ ProcessEnds

-----------------------------------------------------------------------------
Running == fire \in {"on_trigger", "rearm"}

(* APScheduler takes a job whose time has come out of its memory and has a    *)
(* worker call _fire().                                                       *)
Dispatch ==
  /\ up /\ job = 0 /\ fire = "none"
  /\ fire' = "on_trigger" /\ job' = None /\ since' = 0
  /\ UNCHANGED <<faults, up, stored, row, cancelled, owes, wanted, undone, broken>>

(* max_instances = 1: the job is dropped when it comes due while one runs.   *)
(* misfire_grace_time = 1: it is when it is found too late.                  *)
Drop ==
  /\ up /\ job # None /\ ((job = 0 /\ Running) \/ job = Past)
  /\ job' = None
  /\ UNCHANGED <<faults, up, stored, row, cancelled, fire, owes, wanted, undone, broken, since>>

(* on_trigger() is back, or has raised an exception, which is logged. *)
TriggerEnds ==
  /\ fire = "on_trigger"
  /\ fire' = "rearm"
  /\ UNCHANGED <<faults, up, stored, row, job, cancelled, owes, wanted, undone, broken, since>>

(* A slip, once made: a cancellation during the run is overwritten. *)
RearmAnyhow ==
  /\ fire = "rearm" /\ ~broken
  /\ fire' = "executed"
  /\ \E t \in FreshTime : row' = t /\ job' = t
  /\ undone' = FALSE
  /\ UNCHANGED <<faults, up, stored, cancelled, owes, wanted, broken, since>>

(* The end of _fire(), under the account's lock. *)
Rearm ==
  /\ fire = "rearm"
  /\ fire' = "executed"
  /\ IF cancelled
       THEN cancelled' = FALSE /\ UNCHANGED <<row, job, undone>>
       ELSE /\ ~broken
            /\ \E t \in FreshTime : row' = t /\ job' = t
            /\ undone' = FALSE /\ UNCHANGED cancelled
  /\ UNCHANGED <<faults, up, stored, owes, wanted, broken, since>>

(* Or get_by_id() or update() raises in it. *)
RearmFails ==
  /\ fire = "rearm" /\ ~cancelled /\ ("dbError" \in faults \/ broken)
  /\ fire' = "error" /\ broken' = TRUE
  /\ UNCHANGED <<faults, up, stored, row, job, cancelled, owes, wanted, undone, since>>

(* A slip: after _fire() nothing is committed. *)
OnJobExecutedUncommitted ==
  /\ fire = "executed" /\ ~broken
  /\ fire' = "none"
  /\ UNCHANGED <<faults, up, stored, row, job, cancelled, owes, wanted, undone, broken, since>>

OnJobExecuted ==
  /\ fire = "executed" /\ ~broken
  /\ fire' = "none" /\ stored' = row
  /\ UNCHANGED <<faults, up, row, job, cancelled, owes, wanted, undone, broken, since>>

(* session.commit() raises in the listener, which APScheduler only logs: what is *)
(* armed stays armed, whatever has reached the database, and nobody rolls back.  *)
OnJobExecutedFails ==
  /\ fire = "executed" /\ ("commitError" \in faults \/ broken)
  /\ fire' = "none" /\ broken' = TRUE
  /\ stored' \in {stored, row} /\ row' = stored'
  /\ undone' = (undone \/ stored' # row)
  /\ UNCHANGED <<faults, up, job, cancelled, owes, wanted, since>>

(* The session is shared: what a call has not committed yet is rolled back too. *)
OnJobError ==
  /\ fire = "error"
  /\ fire' = "none" /\ row' = stored /\ broken' = FALSE
  /\ undone' = (undone \/ owes)
  /\ UNCHANGED <<faults, up, stored, job, cancelled, owes, wanted, since>>

Later(t) == IF t = None \/ t = Past THEN t ELSE t - 1

(* A unit of time is far longer than a commit or a listener takes, but not    *)
(* than a run; without "late" the scheduler is awake whenever a job is due.   *)
Tick ==
  /\ ~owes /\ fire \notin {"executed", "error"}
  /\ job = 0 => "late" \in faults
  /\ stored' = Later(stored) /\ row' = Later(row) /\ job' = Later(job)
  /\ since' = IF since < Interval THEN since + 1 ELSE since
  /\ UNCHANGED <<faults, up, cancelled, fire, owes, wanted, undone, broken>>

SchedulerStep == Dispatch \/ Drop
WorkerStep ==
  TriggerEnds \/ Rearm \/ RearmFails \/ OnJobExecuted \/ OnJobExecutedFails \/ OnJobError
CallerStep == Start \/ ScheduleNextRun \/ Cancel
CallerEnds == CallerCommits \/ CallerCommitsNothing \/ CallerFails

Next ==
  CallerStep \/ CallerEnds \/ CallFails \/ SchedulerStep \/ WorkerStep \/ Crash \/ Tick

Spec == Init /\ [][Next]_vars

(* Threads are scheduled, runs end (the subject of Orchestrator), time goes on, *)
(* and the container is started again (restart: unless-stopped).  Callers do not *)
(* stop time, and the scheduler gets its turn between them, however often they  *)
(* call: strong fairness.                                                       *)
FairSpec ==
  /\ Spec
  /\ WF_vars(Start) /\ WF_vars(CallerEnds) /\ WF_vars(WorkerStep)
  /\ SF_vars(SchedulerStep) /\ SF_vars(Tick)
-----------------------------------------------------------------------------
Quiet == up /\ ~owes /\ fire = "none"

(* TDD 12, Persistence: what a restart would find is what memory has, whenever *)
(* no call or _fire() is under way, and unless the database has refused what   *)
(* armed it: the error listener has rolled the call back, or a listener's own  *)
(* commit has failed.  (The first conjunct types the state.)                   *)
ArmedIsStored ==
  /\ TypeOK
  /\ Quiet /\ ~undone /\ job # None => stored = job

(* SchedulerPort.cancel(): no run is pending and next_run_at is None, until    *)
(* schedule_next_run() is called, whatever _fire() was doing meanwhile; but a  *)
(* rollback or a failed commit can leave the column as it was.                 *)
CancelIsKept ==
  up /\ ~wanted /\ ~owes =>
    /\ job = None
    /\ ~undone => row = None /\ (Quiet => stored = None)

(* NFR-14: runs are an interval apart, jitter allowed for, over crashes, calls *)
(* and failures too; but not when a call stores a time during a run and the     *)
(* commit of the re-arming that replaces it fails: the time it stored is then   *)
(* honoured by a later call or restart, right after the run that was armed.     *)
RunsAreSpaced ==
  [][fire = "none" /\ fire' = "on_trigger" => since >= Interval - JitterWindow]_vars

T == INSTANCE Timetable WITH running <- fire # "none"

(* With its rows, threads, listeners and restarts, the scheduler keeps the      *)
(* timetable, under the same condition: no run after a cancel(), beside another *)
(* or too soon.                                                                 *)
KeepsTimetable == T!Spec

(* FR-12, and "skip a missed occurrence, take the next" of SchedulerPort: an   *)
(* account that is scheduled runs again.                                       *)
ScheduleIsKept == wanted ~> (fire = "on_trigger" \/ ~wanted)

(* The same of a scheduler that is never late and a database that fails neither *)
(* _fire() nor a commit: whatever crashes and calls come between, the account   *)
(* runs again.  (After a commit that failed the next re-arming fails too, and   *)
(* the account drops out until the process is started again.)                   *)
ScheduleIsKeptInTime ==
  wanted /\ faults \cap {"late", "dbError", "commitError"} = {}
    ~> (fire = "on_trigger" \/ ~wanted)
=============================================================================
