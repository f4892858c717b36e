-------------------------- MODULE LinkedInSession --------------------------
(***************************************************************************)
(* The LinkedIn session of one account and everyone who touches it: the    *)
(* scheduled trigger (main.py) and manual runs (cli.py), the interactive   *)
(* login (cli.py), and the check _on_trigger() makes after a failed run,   *)
(* which SessionManager.validate() answers outside of the run lock.  They  *)
(* share the row in linkedin_sessions, the Chromium profile, and the file  *)
(* NEEDS_LOGIN.txt.  Each works in a database session of its own, READ     *)
(* COMMITTED: an UPDATE not yet committed makes other writers wait, and    *)
(* only columns whose value differs from the one loaded are written.       *)
(*                                                                         *)
(* The lock is the one of RunLock, whose lease is taken to outlast a run   *)
(* and a login; what a run does besides is in Orchestrator.                *)
(***************************************************************************)
EXTENDS Naturals

CONSTANTS
  Manual,      \* `linkedinbot run` commands
  Logins,      \* `linkedinbot login` commands
  Scheduled,   \* the run of the scheduled trigger
  Recheck,     \* the same trigger after its run failed
  Nobody,
  MaxFaults    \* bound on crashes, errors and refusals of a good session

ASSUME SessionAssumption ==
  /\ MaxFaults \in Nat
  /\ Scheduled # Recheck /\ Manual \cap Logins = {}
  /\ {Scheduled, Recheck} \cap (Manual \cup Logins) = {}
  /\ Nobody \notin Manual \cup Logins \cup {Scheduled, Recheck}

Runs     == Manual \cup {Scheduled}
Checkers == Runs \cup {Recheck}
Locked   == Runs \cup Logins           \* those who work under the lock
Actors   == Locked \cup {Recheck}

VARIABLES
  holder,     \* whose run lock it is
  loggedIn,   \* LinkedIn accepts the cookies of the profile
  profile,    \* the directory of the profile exists
  row,        \* session_status, committed
  writer,     \* who has an UPDATE of the row that is not committed
  pending,    \* ... and the value it leaves
  pc,         \* where each is
  loaded,     \* session_status as each loaded it
  opened,     \* who has a browser on the profile
  alert,      \* NEEDS_LOGIN.txt exists
  faults

vars == <<holder, loggedIn, profile, row, writer, pending, pc, loaded, opened,
          alert, faults>>

Status == {"none", "VALID", "EXPIRED"}
Places == {"idle", "ready", "launch", "open", "signedIn", "accepted", "refused",
           "valid", "page", "fetching", "committed", "invalid", "error",
           "succeeded", "failed", "announce"}

TypeOK ==
  /\ holder \in Locked \cup {Nobody}
  /\ loggedIn \in BOOLEAN /\ profile \in BOOLEAN /\ alert \in BOOLEAN
  /\ row \in Status /\ pending \in Status
  /\ writer \in Actors \cup {Nobody}
  /\ pc \in [Actors -> Places]
  /\ loaded \in [Actors -> Status]
  /\ opened \subseteq Actors
  /\ faults \in 0..MaxFaults

Init ==
  /\ holder = Nobody /\ writer = Nobody /\ pending = "none" /\ row = "none"
  /\ loggedIn = FALSE /\ profile = FALSE /\ alert = FALSE /\ opened = {}
  /\ pc = [a \in Actors |-> "idle"]
  /\ loaded = [a \in Actors |-> "none"]
  /\ faults = 0

(* What a query of `a` returns. *)
Read(a) == IF writer = a THEN pending ELSE row

Goto(a, place) == pc' = [pc EXCEPT ![a] = place]
Fault == faults < MaxFaults /\ faults' = faults + 1

(* The end of a transaction. *)
TransactionEnds(a) ==
  /\ IF writer = a THEN writer' = Nobody /\ pending' = "none"
                   ELSE UNCHANGED <<writer, pending>>
  /\ loaded' = [loaded EXCEPT ![a] = "none"]
Committed(a)  == row' = Read(a) /\ TransactionEnds(a)
RolledBack(a) == UNCHANGED row /\ TransactionEnds(a)

-----------------------------------------------------------------------------
(* run() and _run_login_command() take the lock first; who is refused goes *)
(* away and has changed nothing.  A trigger waits for the one before.      *)
StartUnlocked(a) ==
  /\ pc[a] = "idle"
  /\ a = Scheduled => pc[Recheck] = "idle"
  /\ holder' = a
  /\ Goto(a, IF a \in Logins THEN "launch" ELSE "ready")
  /\ profile' = (profile \/ a \in Logins)
  /\ UNCHANGED <<loggedIn, row, writer, pending, loaded, opened, alert, faults>>

Start(a) ==
  /\ pc[a] = "idle"
  /\ a = Scheduled => pc[Recheck] = "idle"
  /\ holder = Nobody
  /\ holder' = a
  /\ Goto(a, IF a \in Logins THEN "launch" ELSE "ready")
  /\ profile' = (profile \/ a \in Logins)       \* user_data_dir.mkdir()
  /\ UNCHANGED <<loggedIn, row, writer, pending, loaded, opened, alert, faults>>

(* A slip: validate() trusts the row that says EXPIRED. *)
LoadTrusting(a) ==
  /\ pc[a] = "ready"
  /\ loaded' = [loaded EXCEPT ![a] = Read(a)]
  /\ Goto(a, IF profile /\ Read(a) = "VALID" THEN "launch" ELSE "invalid")
  /\ UNCHANGED <<holder, loggedIn, profile, row, writer, pending, opened, alert, faults>>

(* validate(): without a row or a profile there is nothing to ask LinkedIn. *)
Load(a) ==
  /\ pc[a] = "ready"
  /\ loaded' = [loaded EXCEPT ![a] = Read(a)]
  /\ Goto(a, IF profile /\ Read(a) # "none" THEN "launch" ELSE "invalid")
  /\ UNCHANGED <<holder, loggedIn, profile, row, writer, pending, opened, alert, faults>>

(* launch_persistent_context(): Chromium refuses a profile that is in use. *)
Launch(a) ==
  /\ pc[a] = "launch"
  /\ IF opened = {} THEN opened' = {a} /\ Goto(a, "open")
                    ELSE UNCHANGED opened /\ Goto(a, "error")
  /\ UNCHANGED <<holder, loggedIn, profile, row, writer, pending, loaded, alert, faults>>

(* check_session_is_valid(): the browser is closed whatever the answer.   *)
(* A good session may be turned away, and the page may not load.          *)
Answer(a) ==
  /\ a \in Checkers /\ pc[a] = "open"
  /\ opened' = opened \ {a}
  /\ \/ Goto(a, IF loggedIn THEN "accepted" ELSE "refused") /\ UNCHANGED faults
     \/ loggedIn /\ Fault /\ Goto(a, "refused")
     \/ Fault /\ Goto(a, "error")
  /\ UNCHANGED <<holder, loggedIn, profile, row, writer, pending, loaded, alert>>

(* A slip: an answer that is no news writes nothing. *)
FlushNews(a) ==
  /\ pc[a] \in {"accepted", "refused"}
  /\ LET status == IF pc[a] = "accepted" THEN "VALID" ELSE "EXPIRED"
     IN IF status = loaded[a] THEN UNCHANGED <<writer, pending>>
        ELSE writer \in {Nobody, a} /\ writer' = a /\ pending' = status
  /\ Goto(a, IF pc[a] = "accepted" THEN "valid" ELSE "invalid")
  /\ UNCHANGED <<holder, loggedIn, profile, row, loaded, opened, alert, faults>>

(* flush(): last_validated_at changes in any case, so the row is written,  *)
(* and another's UPDATE waited for.                                        *)
Flush(a) ==
  /\ pc[a] \in {"accepted", "refused"}
  /\ writer \in {Nobody, a}
  /\ writer' = a
  /\ LET status == IF pc[a] = "accepted" THEN "VALID" ELSE "EXPIRED"
     IN pending' = IF status = loaded[a] THEN Read(a) ELSE status
  /\ Goto(a, IF pc[a] = "accepted" THEN "valid" ELSE "invalid")
  /\ UNCHANGED <<holder, loggedIn, profile, row, loaded, opened, alert, faults>>

-----------------------------------------------------------------------------
(* Collection: search_jobs_page() before each page reads the row again. *)
NextPage(a) ==
  /\ a \in Runs /\ pc[a] = "valid"
  /\ Goto(a, IF Read(a) = "EXPIRED" THEN "invalid" ELSE "page")
  /\ UNCHANGED <<holder, loggedIn, profile, row, writer, pending, loaded, opened, alert, faults>>

(* A launch that fails is one failed attempt at the page. *)
LaunchPage(a) ==
  /\ pc[a] = "page"
  /\ IF opened = {} THEN opened' = {a} /\ Goto(a, "fetching")
                    ELSE UNCHANGED opened /\ Goto(a, "valid")
  /\ UNCHANGED <<holder, loggedIn, profile, row, writer, pending, loaded, alert, faults>>

PageDone(a) ==
  /\ pc[a] = "fetching"
  /\ opened' = opened \ {a} /\ Goto(a, "valid")
  /\ UNCHANGED <<holder, loggedIn, profile, row, writer, pending, loaded, alert, faults>>

(* The commit after the postings, with what validate() wrote. *)
CommitPostings(a) ==
  /\ a \in Runs /\ pc[a] = "valid"
  /\ Committed(a) /\ Goto(a, "committed")
  /\ UNCHANGED <<holder, loggedIn, profile, opened, alert, faults>>

(* Where a run ends: a manual one is over, a scheduled one goes on. *)
After(a, place) == Goto(a, IF a = Scheduled THEN place ELSE "idle")

Succeed(a) ==
  /\ a \in Runs /\ pc[a] = "committed"
  /\ holder' = Nobody /\ After(a, "succeeded")
  /\ UNCHANGED <<loggedIn, profile, row, writer, pending, loaded, opened, alert, faults>>

(* run() on SessionInvalidError: a commit, which keeps the EXPIRED. *)
EndRefused(a) ==
  /\ a \in Runs /\ pc[a] = "invalid"
  /\ Committed(a) /\ holder' = Nobody /\ After(a, "failed")
  /\ UNCHANGED <<loggedIn, profile, opened, alert, faults>>

(* run() on another exception: a rollback. *)
EndFailed(a) ==
  /\ a \in Runs
  /\ \/ pc[a] = "error" /\ UNCHANGED faults
     \/ pc[a] \in {"valid", "committed"} /\ Fault
  /\ RolledBack(a) /\ holder' = Nobody /\ After(a, "failed")
  /\ UNCHANGED <<loggedIn, profile, opened, alert>>

-----------------------------------------------------------------------------
(* _on_trigger() after its run: a success removes the alert, a failure     *)
(* is followed by another validate().                                      *)
Succeeded ==
  /\ pc[Scheduled] = "succeeded"
  /\ alert' = FALSE /\ Goto(Scheduled, "idle")
  /\ UNCHANGED <<holder, loggedIn, profile, row, writer, pending, loaded, opened, faults>>

(* A slip: the status in the row is taken for the answer. *)
RecheckByRow ==
  /\ pc[Scheduled] = "failed"
  /\ pc' = [pc EXCEPT ![Scheduled] = "idle"]
  /\ alert' = (row = "EXPIRED")
  /\ UNCHANGED <<holder, loggedIn, profile, row, writer, pending, loaded, opened, faults>>

Failed ==
  /\ pc[Scheduled] = "failed"
  /\ pc' = [pc EXCEPT ![Scheduled] = "idle", ![Recheck] = "ready"]
  /\ UNCHANGED <<holder, loggedIn, profile, row, writer, pending, loaded, opened, alert, faults>>

(* _session_is_currently_invalid(): a refusal is committed ... *)
Refused ==
  /\ pc[Recheck] = "invalid"
  /\ Committed(Recheck) /\ Goto(Recheck, "announce")
  /\ UNCHANGED <<holder, loggedIn, profile, opened, alert, faults>>

(* ... and announced.  A failed write of the file is suppressed. *)
WriteAlert ==
  /\ pc[Recheck] = "announce"
  /\ \/ alert' = TRUE /\ UNCHANGED faults
     \/ UNCHANGED alert /\ Fault
  /\ Goto(Recheck, "idle")
  /\ UNCHANGED <<holder, loggedIn, profile, row, writer, pending, loaded, opened>>

(* A good session removes the alert; close() discards what validate() wrote. *)
Reassured ==
  /\ pc[Recheck] = "valid"
  /\ RolledBack(Recheck) /\ alert' = FALSE /\ Goto(Recheck, "idle")
  /\ UNCHANGED <<holder, loggedIn, profile, opened, faults>>

(* Another exception leaves _on_trigger() with the alert as it was. *)
Unanswered ==
  /\ pc[Recheck] = "error"
  /\ RolledBack(Recheck) /\ Goto(Recheck, "idle")
  /\ UNCHANGED <<holder, loggedIn, profile, opened, alert, faults>>

-----------------------------------------------------------------------------
(* perform_interactive_login() returns when the feed has been reached. *)
SignIn(a) ==
  /\ a \in Logins /\ pc[a] = "open"
  /\ loggedIn' = TRUE /\ opened' = opened \ {a} /\ Goto(a, "signedIn")
  /\ UNCHANGED <<holder, profile, row, writer, pending, loaded, alert, faults>>

LoginTimeout(a) ==
  /\ a \in Logins /\ pc[a] = "open"
  /\ opened' = opened \ {a} /\ Goto(a, "error")
  /\ UNCHANGED <<holder, loggedIn, profile, row, writer, pending, loaded, alert, faults>>

(* mark_session_valid(): the read; the flush is Flush. *)
Mark(a) ==
  /\ pc[a] = "signedIn"
  /\ loaded' = [loaded EXCEPT ![a] = Read(a)]
  /\ Goto(a, "accepted")
  /\ UNCHANGED <<holder, loggedIn, profile, row, writer, pending, opened, alert, faults>>

(* The lock is released in the transaction of the mark. *)
EndLogin(a) ==
  /\ a \in Logins /\ pc[a] \in {"valid", "error"}
  /\ Committed(a) /\ holder' = Nobody /\ Goto(a, "idle")
  /\ UNCHANGED <<loggedIn, profile, opened, alert, faults>>

-----------------------------------------------------------------------------
(* LinkedIn ends the session, at any time. *)
SessionEnds ==
  /\ loggedIn /\ loggedIn' = FALSE
  /\ UNCHANGED <<holder, profile, row, writer, pending, pc, loaded, opened, alert, faults>>

(* The container is restarted: all processes are gone, and what they had   *)
(* not committed.  The lock stays behind ...                               *)
Crash ==
  /\ Fault
  /\ pc' = [a \in Actors |-> "idle"]
  /\ opened' = {} /\ writer' = Nobody /\ pending' = "none"
  /\ loaded' = [a \in Actors |-> "none"]
  /\ UNCHANGED <<holder, loggedIn, profile, row, alert>>

(* ... until its lease ends. *)
LeaseEnds ==
  /\ holder # Nobody /\ pc[holder] = "idle"
  /\ holder' = Nobody
  /\ UNCHANGED <<loggedIn, profile, row, writer, pending, pc, loaded, opened, alert, faults>>

Check(a)  == Load(a) \/ Launch(a) \/ Answer(a) \/ Flush(a)
Run(a)    == Check(a) \/ NextPage(a) \/ LaunchPage(a) \/ PageDone(a)
               \/ CommitPostings(a) \/ Succeed(a) \/ EndRefused(a) \/ EndFailed(a)
Trigger   == Succeeded \/ Failed \/ Check(Recheck) \/ Refused \/ WriteAlert
               \/ Reassured \/ Unanswered
Login(a)  == Launch(a) \/ SignIn(a) \/ LoginTimeout(a) \/ Mark(a) \/ Flush(a) \/ EndLogin(a)

Next ==
  \/ \E a \in Locked : Start(a)
  \/ \E a \in Runs : Run(a)
  \/ \E a \in Logins : Login(a)
  \/ Trigger \/ SessionEnds \/ Crash \/ LeaseEnds

Spec == Init /\ [][Next]_vars

(* Whatever has begun goes on, a login has its timeout and a lease its end. *)
(* The trigger fires again and again, and finds the lock free at times; a  *)
(* collection comes to the end of its pages.  Waiting for a row is a queue *)
(* of the database, so whoever waits gets it.                              *)
Fairness ==
  /\ \A a \in Actors : SF_vars(Flush(a))
  /\ \A a \in Runs : WF_vars(Run(a)) /\ SF_vars(CommitPostings(a))
  /\ \A a \in Logins : WF_vars(Login(a))
  /\ WF_vars(Trigger) /\ WF_vars(LeaseEnds)
  /\ SF_vars(Start(Scheduled))

FairSpec == Spec /\ Fairness

-----------------------------------------------------------------------------
(* Properties                                                              *)

AtProfile(a) == pc[a] \in {"launch", "open", "page", "fetching"}
Quiet == \A a \in Manual \cup Logins : pc[a] = "idle"

(* Of the runs and the logins of an account one at a time works, and it is *)
(* the one the lock names: two of them never come to the profile together, *)
(* whatever failed or crashed before (RunLock around _run_pipeline() and   *)
(* around perform_interactive_login()).  Only the re-check of a failed     *)
(* trigger, which has no lock, can be there at the same time.  (The first  *)
(* conjunct types the state.)                                              *)
WorkIsUnderLock ==
  /\ TypeOK
  /\ \A a \in Locked :
       /\ pc[a] \notin {"idle", "succeeded", "failed"} => holder = a
       /\ AtProfile(a) => opened \subseteq {a, Recheck}

(* A run collects only on the word of LinkedIn: it has written VALID, or   *)
(* loaded it and left it out of its UPDATE, and until it commits nobody    *)
(* else can change the row (validate() before search_jobs_page()).         *)
CollectsOnlyWhenAccepted ==
  \A a \in Runs : pc[a] \in {"valid", "page", "fetching"} =>
    /\ profile /\ writer = a
    /\ pending = "VALID" \/ loaded[a] = "VALID"

(* An account whose session is good is not locked out for ever by what the *)
(* row said: the next validate() asks LinkedIn and heals it (the failures  *)
(* of M10.2 and of the first login, session_manager.py 92-107).            *)
NotLockedOut ==
  <>[](loggedIn /\ row # "none") => []<>(\E a \in Runs : pc[a] = "valid")

(* Left alone, the trigger says what is the case: a lost session ends in   *)
(* an alert that stays, a good one in none (_on_trigger(), M11.3).         *)
AlertFollowsSession ==
  /\ <>[](Quiet /\ ~loggedIn) => <>[]alert
  /\ <>[](Quiet /\ loggedIn /\ row # "none") => <>[]~alert
=============================================================================
