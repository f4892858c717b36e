----------------------------- MODULE Catalogue -----------------------------
(***************************************************************************)
(* What the runs of several accounts share: companies, job_postings and    *)
(* company_scores have no account_id, and each run writes them as it goes  *)
(* along (orchestrator.py, "eager" commits).  RunLock keeps the runs of    *)
(* one account apart, not those of two.  Each run reads, decides between   *)
(* INSERT and UPDATE, and writes; PostgreSQL makes it wait while another   *)
(* transaction has written the same key, refuses an INSERT of a key that   *)
(* is there by then, and breaks a circle of waiting runs.                  *)
(* A posting's content and a score's value are left out: a score is whose  *)
(* weights it was computed with, and when.                                 *)
(***************************************************************************)
EXTENDS Naturals, FiniteSets

CONSTANTS
  Accounts, Companies, Jobs,
  CompanyOf,      \* the company of each job
  WeightsOf,      \* weights_company_quality of each account
  Window,         \* company_score_reevaluation_window_days
  None,
  MaxTime,        \* bound on the days that pass
  MaxFaults       \* bound on runs that fail of themselves

ASSUME CatalogueAssumption ==
  /\ CompanyOf \in [Jobs -> Companies] /\ Jobs \cap Companies = {}
  /\ Accounts \subseteq DOMAIN WeightsOf
  /\ Window \in Nat /\ MaxTime \in Nat /\ MaxFaults \in Nat

Day     == 0..MaxTime
Score   == [weights : {WeightsOf[a] : a \in Accounts}, at : Day]
NoScore == [c \in Companies |-> None]
Key     == ({"company", "score"} \X Companies) \cup ({"posting"} \X Jobs)
Op      == [key : Key, insert : BOOLEAN]

ASSUME NoneAssumption == None \notin Op \cup Score

VARIABLES
  today,
  rows,       \* keys of the rows that are committed
  scores,     \* company_scores, committed
  phase,      \* where the run of each account is
  now,        \* the run's now
  todo,       \* what it has still to do in this phase
  op,         \* the statement it is about to send
  written,    \* keys its transaction has written
  cache,      \* company_scores_this_run
  ended,      \* how the last run of each account ended
  faults

vars == <<today, rows, scores, phase, now, todo, op, written, cache, ended, faults>>

Phases == {"idle", "companies", "postings", "scores", "backfill"}

TypeOK ==
  /\ today \in Day /\ faults \in 0..MaxFaults
  /\ rows \subseteq Key
  /\ scores \in [Companies -> Score \cup {None}]
  /\ phase \in [Accounts -> Phases]
  /\ now \in [Accounts -> Day]
  /\ todo \in [Accounts -> SUBSET (Companies \cup Jobs)]
  /\ op \in [Accounts -> Op \cup {None}]
  /\ written \in [Accounts -> SUBSET Key]
  /\ cache \in [Accounts -> [Companies -> Score \cup {None}]]
  /\ ended \in [Accounts -> {"none", "done", "fault", "integrity", "deadlock"}]
  /\ \A a \in Accounts : phase[a] = "idle" =>        \* nothing is left open
       todo[a] = {} /\ op[a] = None /\ written[a] = {} /\ cache[a] = NoScore

Init ==
  /\ today = 0 /\ faults = 0 /\ rows = {} /\ scores = NoScore
  /\ phase = [a \in Accounts |-> "idle"]
  /\ now = [a \in Accounts |-> 0]
  /\ todo = [a \in Accounts |-> {}]
  /\ op = [a \in Accounts |-> None]
  /\ written = [a \in Accounts |-> {}]
  /\ cache = [a \in Accounts |-> NoScore]
  /\ ended = [a \in Accounts |-> "none"]

-----------------------------------------------------------------------------
(* The database: a query sees what is committed and what is the run's own. *)
Visible(a, key) == key \in rows \cup written[a]
Waits(a, b) == op[a] # None /\ op[a].key \in written[b]
Blocked(a)  == \E b \in Accounts \ {a} : Waits(a, b)

(* The score a run reads: its own are in its cache. *)
Stored(a, c) == IF <<"score", c>> \in written[a] THEN cache[a][c] ELSE scores[c]

(* The companies whose scores a run may need. *)
Collected(a) == {CompanyOf[j] : j \in Jobs}

-----------------------------------------------------------------------------
(* A run begins with the postings it has collected. *)
Begin(a) ==
  /\ phase[a] = "idle"
  /\ \E jobs \in SUBSET Jobs \ {{}} :
       todo' = [todo EXCEPT ![a] = {CompanyOf[j] : j \in jobs} \cup jobs]
  /\ phase' = [phase EXCEPT ![a] = "companies"]
  /\ now' = [now EXCEPT ![a] = today]
  /\ UNCHANGED <<today, rows, scores, op, written, cache, ended, faults>>

(* A slip: a posting is written whether or not its company has been. *)
NextWriteInAnyOrder(a) ==
  /\ op[a] = None /\ phase[a] = "companies"
  /\ \E x \in todo[a] :
       LET key == <<IF x \in Jobs THEN "posting" ELSE "company", x>>
       IN /\ todo' = [todo EXCEPT ![a] = @ \ {x}]
          /\ op' = [op EXCEPT ![a] = IF Visible(a, key) /\ x \notin Jobs THEN None
                                     ELSE [key |-> key, insert |-> ~Visible(a, key)]]
  /\ UNCHANGED <<today, rows, scores, phase, now, written, cache, ended, faults>>

(* The companies, in the order of a set, are created if they are not       *)
(* there; then the postings, as they were collected, created or updated.   *)
NextWrite(a) ==
  /\ op[a] = None /\ phase[a] = "companies"
  /\ \E x \in todo[a] :
       LET key == <<IF x \in Jobs THEN "posting" ELSE "company", x>>
       IN /\ x \in Jobs => todo[a] \subseteq Jobs
          /\ todo' = [todo EXCEPT ![a] = @ \ {x}]
          /\ op' = [op EXCEPT ![a] = IF Visible(a, key) /\ x \notin Jobs THEN None
                                     ELSE [key |-> key, insert |-> ~Visible(a, key)]]
  /\ UNCHANGED <<today, rows, scores, phase, now, written, cache, ended, faults>>

(* A slip: the score in the database is good whatever its age. *)
IsFreshAtAnyAge(a, score) == score # None

(* age <= timedelta(days=reevaluation_window_days) *)
IsFresh(a, score) == score # None /\ now[a] <= score.at + Window

(* _get_or_score_company(): the cache of the run, a score that is fresh,   *)
(* or the answer of the LLM, which is written after a while.               *)
NextScore(a) ==
  /\ op[a] = None /\ phase[a] \in {"scores", "backfill"}
  /\ \E c \in todo[a] :
       LET fresh == IsFresh(a, Stored(a, c))
       IN /\ todo' = [todo EXCEPT ![a] = @ \ {c}]
          /\ cache' = [cache EXCEPT ![a][c] =
                        IF fresh THEN Stored(a, c) ELSE [weights |-> WeightsOf[a], at |-> now[a]]]
          /\ op' = [op EXCEPT ![a] =
                     IF fresh THEN None
                     ELSE [key |-> <<"score", c>>, insert |-> Stored(a, c) = None]]
  /\ UNCHANGED <<today, rows, scores, phase, now, written, ended, faults>>

(* The statement is carried out when no other transaction has the key. *)
Write(a) ==
  /\ op[a] # None /\ ~Blocked(a)
  /\ ~(op[a].insert /\ op[a].key \in rows)
  /\ written' = [written EXCEPT ![a] = @ \cup {op[a].key}]
  /\ op' = [op EXCEPT ![a] = None]
  /\ UNCHANGED <<today, rows, scores, phase, now, todo, cache, ended, faults>>

(* A slip: the backfill asks for every company again. *)
BackfillAll(a) == Collected(a)

(* Backfill: companies of reported jobs that have not been scored yet. *)
Backfill(a) == {c \in Collected(a) : cache[a][c] = None}

(* session.commit() after the postings, the evaluation and the backfill.   *)
(* Which companies are asked for next depends on the filters and on the    *)
(* report; all of them have been created in this run or in an earlier one. *)
Commit(a) ==
  /\ phase[a] # "idle" /\ todo[a] = {} /\ op[a] = None
  /\ rows' = rows \cup written[a]
  /\ scores' = [c \in Companies |-> Stored(a, c)]
  /\ written' = [written EXCEPT ![a] = {}]
  /\ LET known == {c \in Companies : <<"company", c>> \in rows'}
     IN \/ /\ phase[a] = "companies"
           /\ phase' = [phase EXCEPT ![a] = "scores"]
           /\ \E cs \in SUBSET known : todo' = [todo EXCEPT ![a] = cs]
           /\ UNCHANGED <<cache, ended>>
        \/ /\ phase[a] = "scores"
           /\ phase' = [phase EXCEPT ![a] = "backfill"]
           /\ \E cs \in SUBSET (known \cap Backfill(a)) : todo' = [todo EXCEPT ![a] = cs]
           /\ UNCHANGED <<cache, ended>>
        \/ /\ phase[a] = "backfill"
           /\ phase' = [phase EXCEPT ![a] = "idle"]
           /\ cache' = [cache EXCEPT ![a] = NoScore]
           /\ ended' = [ended EXCEPT ![a] = "done"]
           /\ UNCHANGED todo
  /\ UNCHANGED <<today, now, op, faults>>

-----------------------------------------------------------------------------
(* run() on an exception: rollback, and a FAILED run. *)
Fails(a, why) ==
  /\ phase' = [phase EXCEPT ![a] = "idle"]
  /\ todo' = [todo EXCEPT ![a] = {}]
  /\ op' = [op EXCEPT ![a] = None]
  /\ written' = [written EXCEPT ![a] = {}]
  /\ cache' = [cache EXCEPT ![a] = NoScore]
  /\ ended' = [ended EXCEPT ![a] = why]
  /\ UNCHANGED <<today, rows, scores, now>>

(* Somebody else has created the row since the run looked. *)
IntegrityError(a) ==
  /\ op[a] # None /\ ~Blocked(a)
  /\ op[a].insert /\ op[a].key \in rows
  /\ Fails(a, "integrity") /\ UNCHANGED faults

(* Two runs wait for each other: one of them is cancelled. *)
DeadlockDetected(a) ==
  /\ \E b \in Accounts \ {a} : Waits(a, b) /\ Waits(b, a)
  /\ Fails(a, "deadlock") /\ UNCHANGED faults

(* A run fails for reasons of its own: the LLM, a crash. *)
Fault(a) ==
  /\ phase[a] # "idle" /\ faults < MaxFaults
  /\ Fails(a, "fault") /\ faults' = faults + 1

DayPasses ==
  /\ today < MaxTime /\ today' = today + 1
  /\ UNCHANGED <<rows, scores, phase, now, todo, op, written, cache, ended, faults>>

Step(a) == NextWrite(a) \/ NextScore(a) \/ Write(a) \/ Commit(a)
             \/ IntegrityError(a) \/ DeadlockDetected(a)

Next == (\E a \in Accounts : Begin(a) \/ Step(a) \/ Fault(a)) \/ DayPasses

Spec == Init /\ [][Next]_vars

-----------------------------------------------------------------------------
(* Properties                                                              *)

(* No statement of a run can break a foreign key: what it refers to is     *)
(* committed or its own, also after other runs have failed (orchestrator.py*)
(* writes the companies before the postings).  (The first conjunct types   *)
(* the state.)                                                             *)
NothingDangles ==
  /\ TypeOK
  /\ \A a \in Accounts : \A key \in rows \cup written[a] \cup (IF op[a] = None THEN {} ELSE {op[a].key}) :
       key[1] = "company"
         \/ <<"company", IF key[1] = "posting" THEN CompanyOf[key[2]] ELSE key[2]>>
              \in rows \cup written[a]

(* A run uses no score older than the window, even if others write the     *)
(* scores it has looked at (PRD 12.4, _get_or_score_company()).            *)
UsedScoreIsFresh ==
  \A a \in Accounts : phase[a] # "idle" =>
    \A c \in Companies : cache[a][c] # None => now[a] <= cache[a][c].at + Window

(* In one run a company has one score, from the first job to the report,   *)
(* while another run may replace the one in the database (NFR-12).         *)
OneScorePerRun ==
  [][\A a \in Accounts : phase[a] # "idle" /\ phase'[a] # "idle" =>
       \A c \in Companies : cache[a][c] # None => cache'[a][c] = cache[a][c]]_vars
=============================================================================
