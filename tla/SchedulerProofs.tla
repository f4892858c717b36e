-------------------------- MODULE SchedulerProofs ---------------------------
(***************************************************************************)
(* Proofs about Scheduler, for any interval and jitter and any faults.     *)
(***************************************************************************)
EXTENDS Scheduler, TLAPS

(* What there is of the process: nothing while it is down. *)
DownIsEmpty == ~up => fire = "none" /\ ~owes /\ job = None /\ ~broken

(* The row the shared session sees is the one committed, but for a call that is *)
(* not committed yet and for the time _fire() has just set.                     *)
RowIsStored ==
  /\ ~owes /\ stored # row => fire = "executed" /\ row # None /\ row > 0
  /\ broken /\ fire # "error" => row = stored /\ "commitError" \in faults

(* What is armed is what the session sees, until the database refuses it.       *)
ArmedIsRow == job # None /\ ~undone => row = job

(* Calls and failing commits do not come together: the rest of the invariant    *)
(* holds of this case only.                                                     *)
Plain == ~("calls" \in faults /\ "commitError" \in faults)

(* Without calls, the process commits before anything is due, and no time to    *)
(* come is stored while _fire() is under way.                                   *)
NobodyCalls ==
  "calls" \notin faults =>
    /\ owes => fire = "none" /\ job # None /\ job > 0
    /\ fire # "none" => ~(stored # None /\ stored > 0)

(* A time to come, wherever it stands, is the one that is armed.                *)
OneTimeToCome ==
  Plain /\ job # None =>
    /\ row # None /\ row > 0 => row = job
    /\ fire # "executed" /\ stored # None /\ stored > 0 => stored = job

(* What a cancellation leaves: nothing armed, and a flag for a _fire() that     *)
(* has still to look at it.                                                     *)
CancelledStays ==
  up /\ ~wanted => /\ job = None
                   /\ Running => cancelled
                   /\ ~undone => row = None

(* Any time to come lies far enough from the last trigger.                      *)
Apart(t) == since + t >= Interval - JitterWindow
TimesAreApart ==
  Plain => /\ job # None /\ job >= 0 => Apart(job)
           /\ row # None /\ row > 0 => Apart(row)
           /\ stored # None /\ stored > 0 => Apart(stored)

Invariant ==
  /\ TypeOK /\ DownIsEmpty /\ RowIsStored /\ ArmedIsRow /\ NobodyCalls
  /\ OneTimeToCome /\ CancelledStays /\ TimesAreApart

(* Times are cited by these facts: neither Time nor None \notin Int is expanded     *)
(* where a variable is a time or None, which tlapm would take for an integer.      *)
LEMMA BoundsAre ==
  /\ Interval \in Nat /\ JitterWindow \in Nat /\ JitterWindow < Interval
  /\ None # 0
BY SchedulerAssumption

LEMMA TimesAre == \A t \in Time : t \in Int /\ t >= Past /\ t # None
BY SchedulerAssumption DEF Time, Past

LEMMA EarlierIsATime == \A t \in Time : t >= 0 => t - 1 \in Time
BY SchedulerAssumption DEF Time, Past

(* _compute_next_run_at(), and which time is armed for a given next_run_at.      *)
LEMMA FreshTimeIs ==
  \A t \in FreshTime :
    t \in Time /\ t \in Int /\ t # None /\ t > 0 /\ t >= Interval - JitterWindow
BY SchedulerAssumption DEF FreshTime, Time, Past

LEMMA NextRunAtIs ==
  ASSUME NEW nextRunAt \in Time \cup {None}, NEW t \in NextRunAt(nextRunAt)
  PROVE  /\ t \in Time /\ t \in Int /\ t # None /\ t > 0
         /\ nextRunAt # None /\ nextRunAt > 0 => t = nextRunAt
         /\ t = nextRunAt \/ t >= Interval - JitterWindow
<1>1. CASE nextRunAt # None /\ nextRunAt > 0
  <2>1. t = nextRunAt
    BY <1>1 DEF NextRunAt
  <2>. QED  BY <1>1, <2>1, TimesAre
<1>2. CASE ~(nextRunAt # None /\ nextRunAt > 0)
  <2>1. t \in FreshTime
    BY <1>2 DEF NextRunAt
  <2>. QED  BY <1>2, <2>1, FreshTimeIs
<1>. QED  BY <1>1, <1>2

LEMMA LaterIs ==
  ASSUME NEW t \in Time \cup {None}
  PROVE  /\ Later(t) \in Time \cup {None}
         /\ Later(t) = None <=> t = None
         /\ t # None /\ t >= 0 => Later(t) = t - 1
         /\ t = Past => Later(t) = t
<1>1. CASE t = None \/ t = Past
  BY <1>1, TimesAre DEF Later, Past
<1>2. CASE t # None /\ t # Past
  <2>1. t \in Time /\ t \in Int /\ t >= 0
    BY <1>2, TimesAre DEF Past
  <2>2. Later(t) = t - 1 /\ t - 1 \in Time
    BY <1>2, <2>1, EarlierIsATime DEF Later
  <2>. QED  BY <1>2, <2>1, <2>2, TimesAre
<1>. QED  BY <1>1, <1>2

LEMMA InvariantInit == Init => Invariant
<1>. SUFFICES ASSUME Init
              PROVE  Invariant
  OBVIOUS
<1>1. TypeOK
  <2>1. Interval \in 0..Interval
    BY BoundsAre
  <2>. QED  BY <2>1 DEF Init, TypeOK
<1>2. /\ DownIsEmpty /\ RowIsStored /\ ArmedIsRow /\ NobodyCalls
      /\ OneTimeToCome /\ CancelledStays /\ TimesAreApart
  BY DEF Init, DownIsEmpty, RowIsStored, ArmedIsRow, NobodyCalls, OneTimeToCome, CancelledStays,
         TimesAreApart
<1>. QED  BY <1>1, <1>2 DEF Invariant

(* The end of the process, whatever was on its way to the database. *)
LEMMA InvariantAtEnd ==
  ASSUME Invariant, ProcessEnds, stored' \in {stored, row}
  PROVE  Invariant'
<1>. USE DEF Invariant, Plain
<1>1. TypeOK'
  BY DEF ProcessEnds, TypeOK
<1>2. DownIsEmpty' /\ RowIsStored' /\ ArmedIsRow' /\ NobodyCalls' /\ OneTimeToCome' /\ CancelledStays'
  BY DEF ProcessEnds, DownIsEmpty, RowIsStored, ArmedIsRow, NobodyCalls, OneTimeToCome,
         CancelledStays
<1>3. TimesAreApart'
  BY DEF ProcessEnds, TimesAreApart, Apart
<1>. QED  BY <1>1, <1>2, <1>3

LEMMA InvariantStep == Invariant /\ [Next]_vars => Invariant'
<1>. SUFFICES ASSUME Invariant, [Next]_vars
              PROVE  Invariant'
  OBVIOUS
<1>. USE DEF Invariant, Plain
<1>1. CASE Start
  <2>1. PICK t \in NextRunAt(stored) : row' = t /\ job' = t
    BY <1>1 DEF Start
  <2>2. stored \in Time \cup {None}
    BY DEF TypeOK
  <2>3. /\ t \in Time /\ t \in Int /\ t # None /\ t > 0
        /\ stored # None /\ stored > 0 => t = stored
        /\ t = stored \/ t >= Interval - JitterWindow
    BY <2>2, NextRunAtIs
  <2>4. TypeOK'
    BY <1>1, <2>1, <2>3 DEF Start, TypeOK
  <2>5. DownIsEmpty'
    BY <1>1 DEF Start, DownIsEmpty
  <2>6. RowIsStored'
    BY <1>1 DEF Start, DownIsEmpty, RowIsStored
  <2>7. OneTimeToCome'
    BY <1>1, <2>1, <2>3 DEF Start, OneTimeToCome, DownIsEmpty, RowIsStored
  <2>8. CancelledStays'
    BY <1>1 DEF Start, CancelledStays
  <2>9. TimesAreApart'
    BY <1>1, <2>1, <2>2, <2>3, TimesAre, BoundsAre
       DEF Start, TypeOK, DownIsEmpty, RowIsStored, TimesAreApart, Apart
  <2>10. ArmedIsRow'
    BY <1>1, <2>1 DEF Start, ArmedIsRow
  <2>11. NobodyCalls'
    BY <1>1, <2>1, <2>3 DEF Start, NobodyCalls, DownIsEmpty
  <2>. QED  BY <2>4, <2>5, <2>6, <2>7, <2>8, <2>9, <2>10, <2>11
<1>2. CASE ScheduleNextRun
  <2>1. PICK t \in NextRunAt(row) : row' = t /\ job' = t
    BY <1>2 DEF ScheduleNextRun
  <2>2. row \in Time \cup {None}
    BY DEF TypeOK
  <2>3. /\ t \in Time /\ t \in Int /\ t # None /\ t > 0
        /\ row # None /\ row > 0 => t = row
        /\ t = row \/ t >= Interval - JitterWindow
    BY <2>2, NextRunAtIs
  <2>4. TypeOK'
    BY <1>2, <2>1, <2>3 DEF ScheduleNextRun, TypeOK
  <2>5. DownIsEmpty'
    BY <1>2 DEF ScheduleNextRun, DownIsEmpty
  <2>6. RowIsStored'
    BY <1>2 DEF ScheduleNextRun, RowIsStored
  <2>7. OneTimeToCome'
    BY <1>2, <2>1, <2>3 DEF ScheduleNextRun, OneTimeToCome, RowIsStored
  <2>8. CancelledStays'
    BY <1>2 DEF ScheduleNextRun, CancelledStays
  <2>9. TimesAreApart'
    BY <1>2, <2>1, <2>3, BoundsAre DEF ScheduleNextRun, TypeOK, TimesAreApart, Apart
  <2>10. ArmedIsRow'
    BY <1>2, <2>1 DEF ScheduleNextRun, ArmedIsRow
  <2>11. NobodyCalls'
    BY <1>2 DEF ScheduleNextRun, NobodyCalls
  <2>. QED  BY <2>4, <2>5, <2>6, <2>7, <2>8, <2>9, <2>10, <2>11
<1>3. CASE Cancel
  <2>1. TypeOK'
    BY <1>3 DEF Cancel, TypeOK
  <2>2. DownIsEmpty'
    BY <1>3 DEF Cancel, DownIsEmpty
  <2>3. RowIsStored'
    BY <1>3 DEF Cancel, RowIsStored
  <2>4. OneTimeToCome'
    BY <1>3 DEF Cancel, OneTimeToCome
  <2>5. CancelledStays'
    BY <1>3 DEF Cancel, CancelledStays
  <2>6. TimesAreApart'
    BY <1>3 DEF Cancel, TimesAreApart, Apart
  <2>7. ArmedIsRow'
    BY <1>3 DEF Cancel, ArmedIsRow
  <2>8. NobodyCalls'
    BY <1>3 DEF Cancel, NobodyCalls
  <2>. QED  BY <2>1, <2>2, <2>3, <2>4, <2>5, <2>6, <2>7, <2>8
<1>4. CASE CallerCommits
  <2>1. TypeOK'
    BY <1>4 DEF CallerCommits, TypeOK
  <2>2. DownIsEmpty'
    BY <1>4 DEF CallerCommits, DownIsEmpty
  <2>3. RowIsStored'
    BY <1>4 DEF CallerCommits, RowIsStored
  <2>4. OneTimeToCome'
    BY <1>4 DEF CallerCommits, OneTimeToCome
  <2>5. CancelledStays'
    BY <1>4 DEF CallerCommits, CancelledStays, Running
  <2>6. TimesAreApart'
    BY <1>4 DEF CallerCommits, TimesAreApart, Apart
  <2>7. ArmedIsRow'
    BY <1>4 DEF CallerCommits, ArmedIsRow
  <2>8. NobodyCalls'
    BY <1>4 DEF CallerCommits, NobodyCalls
  <2>. QED  BY <2>1, <2>2, <2>3, <2>4, <2>5, <2>6, <2>7, <2>8
<1>5. CASE Dispatch
  <2>1. TypeOK'
    BY <1>5, BoundsAre DEF Dispatch, TypeOK
  <2>2. DownIsEmpty'
    BY <1>5 DEF Dispatch, DownIsEmpty
  <2>3. RowIsStored'
    BY <1>5 DEF Dispatch, RowIsStored
  <2>4. OneTimeToCome'
    BY <1>5 DEF Dispatch, OneTimeToCome
  <2>5. CancelledStays'
    BY <1>5, BoundsAre DEF Dispatch, CancelledStays
  <2>6. TimesAreApart'
    BY <1>5, BoundsAre DEF Dispatch, OneTimeToCome, TimesAreApart
  <2>7. ArmedIsRow'
    BY <1>5 DEF Dispatch, ArmedIsRow
  <2>8. NobodyCalls'
    BY <1>5, BoundsAre DEF Dispatch, NobodyCalls, OneTimeToCome
  <2>. QED  BY <2>1, <2>2, <2>3, <2>4, <2>5, <2>6, <2>7, <2>8
<1>6. CASE Drop
  <2>1. TypeOK'
    BY <1>6 DEF Drop, TypeOK
  <2>2. DownIsEmpty'
    BY <1>6 DEF Drop, DownIsEmpty
  <2>3. RowIsStored'
    BY <1>6 DEF Drop, RowIsStored
  <2>4. OneTimeToCome'
    BY <1>6 DEF Drop, OneTimeToCome
  <2>5. CancelledStays'
    BY <1>6 DEF Drop, CancelledStays
  <2>6. TimesAreApart'
    BY <1>6 DEF Drop, TimesAreApart, Apart
  <2>7. ArmedIsRow'
    BY <1>6 DEF Drop, ArmedIsRow
  <2>8. NobodyCalls'
    BY <1>6 DEF Drop, NobodyCalls, Past
  <2>. QED  BY <2>1, <2>2, <2>3, <2>4, <2>5, <2>6, <2>7, <2>8
<1>7. CASE TriggerEnds
  <2>1. TypeOK'
    BY <1>7 DEF TriggerEnds, TypeOK
  <2>2. DownIsEmpty'
    BY <1>7 DEF TriggerEnds, DownIsEmpty
  <2>3. RowIsStored'
    BY <1>7 DEF TriggerEnds, RowIsStored
  <2>4. OneTimeToCome'
    BY <1>7 DEF TriggerEnds, OneTimeToCome
  <2>5. CancelledStays'
    BY <1>7 DEF TriggerEnds, CancelledStays, Running
  <2>6. TimesAreApart'
    BY <1>7 DEF TriggerEnds, TimesAreApart, Apart
  <2>7. ArmedIsRow'
    BY <1>7 DEF TriggerEnds, ArmedIsRow
  <2>8. NobodyCalls'
    BY <1>7 DEF TriggerEnds, NobodyCalls
  <2>. QED  BY <2>1, <2>2, <2>3, <2>4, <2>5, <2>6, <2>7, <2>8
<1>8. CASE Rearm
  <2>1. TypeOK'
    <3>1. CASE cancelled
      BY <1>8, <3>1 DEF Rearm, TypeOK
    <3>2. CASE ~cancelled
      BY <1>8, FreshTimeIs DEF Rearm, TypeOK
    <3>. QED  BY <3>1, <3>2
  <2>2. DownIsEmpty'
    BY <1>8 DEF Rearm, DownIsEmpty
  <2>3. RowIsStored'
    BY <1>8, FreshTimeIs DEF Rearm, RowIsStored
  <2>4. OneTimeToCome'
    BY <1>8 DEF Rearm, OneTimeToCome
  <2>5. CancelledStays'
    BY <1>8 DEF Rearm, CancelledStays, Running
  <2>6. TimesAreApart'
    BY <1>8, FreshTimeIs, BoundsAre DEF Rearm, TypeOK, TimesAreApart, Apart
  <2>7. ArmedIsRow'
    BY <1>8 DEF Rearm, ArmedIsRow
  <2>8. NobodyCalls'
    BY <1>8 DEF Rearm, NobodyCalls
  <2>. QED  BY <2>1, <2>2, <2>3, <2>4, <2>5, <2>6, <2>7, <2>8
<1>9. CASE RearmFails
  <2>1. TypeOK'
    BY <1>9 DEF RearmFails, TypeOK
  <2>2. DownIsEmpty'
    BY <1>9 DEF RearmFails, DownIsEmpty
  <2>3. RowIsStored'
    BY <1>9 DEF RearmFails, RowIsStored
  <2>4. OneTimeToCome'
    BY <1>9 DEF RearmFails, OneTimeToCome
  <2>5. CancelledStays'
    BY <1>9 DEF RearmFails, CancelledStays, Running
  <2>6. TimesAreApart'
    BY <1>9 DEF RearmFails, TimesAreApart, Apart
  <2>7. ArmedIsRow'
    BY <1>9 DEF RearmFails, ArmedIsRow
  <2>8. NobodyCalls'
    BY <1>9 DEF RearmFails, NobodyCalls
  <2>. QED  BY <2>1, <2>2, <2>3, <2>4, <2>5, <2>6, <2>7, <2>8
<1>10. CASE OnJobExecuted
  <2>1. TypeOK'
    BY <1>10 DEF OnJobExecuted, TypeOK
  <2>2. DownIsEmpty'
    BY <1>10 DEF OnJobExecuted, DownIsEmpty
  <2>3. RowIsStored'
    BY <1>10 DEF OnJobExecuted, RowIsStored
  <2>4. OneTimeToCome'
    BY <1>10 DEF OnJobExecuted, OneTimeToCome
  <2>5. CancelledStays'
    BY <1>10 DEF OnJobExecuted, CancelledStays, Running
  <2>6. TimesAreApart'
    BY <1>10 DEF OnJobExecuted, TimesAreApart, Apart
  <2>7. ArmedIsRow'
    BY <1>10 DEF OnJobExecuted, ArmedIsRow
  <2>8. NobodyCalls'
    BY <1>10 DEF OnJobExecuted, NobodyCalls
  <2>. QED  BY <2>1, <2>2, <2>3, <2>4, <2>5, <2>6, <2>7, <2>8
<1>11. CASE OnJobError
  <2>1. TypeOK'
    BY <1>11 DEF OnJobError, TypeOK
  <2>2. DownIsEmpty'
    BY <1>11 DEF OnJobError, DownIsEmpty
  <2>3. RowIsStored'
    BY <1>11 DEF OnJobError, RowIsStored
  <2>4. OneTimeToCome'
    BY <1>11 DEF OnJobError, OneTimeToCome, RowIsStored
  <2>5. CancelledStays'
    BY <1>11 DEF OnJobError, CancelledStays, RowIsStored, Running
  <2>6. TimesAreApart'
    BY <1>11 DEF OnJobError, TimesAreApart, Apart
  <2>7. ArmedIsRow'
    BY <1>11 DEF OnJobError, ArmedIsRow, RowIsStored
  <2>8. NobodyCalls'
    BY <1>11 DEF OnJobError, NobodyCalls
  <2>. QED  BY <2>1, <2>2, <2>3, <2>4, <2>5, <2>6, <2>7, <2>8
<1>12. CASE CallerFails \/ CallFails \/ Crash
  BY <1>12, InvariantAtEnd DEF CallerFails, CallFails, Crash
<1>13. CASE Tick
  <2>1. /\ ~owes /\ fire \notin {"executed", "error"}
        /\ stored' = Later(stored) /\ row' = Later(row) /\ job' = Later(job)
        /\ since' = IF since < Interval THEN since + 1 ELSE since
        /\ UNCHANGED <<faults, up, cancelled, fire, owes, wanted, undone, broken>>
    BY <1>13 DEF Tick
  <2>2. /\ stored \in Time \cup {None} /\ row \in Time \cup {None} /\ job \in Time \cup {None}
        /\ since \in 0..Interval
    BY DEF TypeOK
  <2>3. row = stored
    BY <2>1 DEF RowIsStored
  <2>4. TypeOK'
    BY <2>1, LaterIs, BoundsAre DEF TypeOK
  <2>5. DownIsEmpty'
    BY <2>1, LaterIs DEF DownIsEmpty
  <2>6. RowIsStored'
    BY <2>1 DEF RowIsStored
  <2>7. OneTimeToCome'
    <3>1. job' # None => job # None
      BY <2>1, LaterIs
    <3>2. row' # None /\ row' > 0 => row # None /\ row > 0
      BY <2>1, <2>2, TimesAre DEF Later
    <3>. QED  BY <2>1, <2>3, <3>1, <3>2 DEF OneTimeToCome
  <2>8. CancelledStays'
    BY <2>1, LaterIs DEF CancelledStays, Running
  <2>9. TimesAreApart'
    <3>1. ASSUME NEW t \in Time \cup {None}, t # None /\ t > 0 => Apart(t)
          PROVE  Later(t) # None /\ Later(t) >= 0 => since' + Later(t) >= Interval - JitterWindow
      BY <2>1, <2>2, <3>1, TimesAre, BoundsAre DEF Later, Apart, Past
    <3>2. Plain =>
          /\ job # None /\ job > 0 => Apart(job)
          /\ row # None /\ row > 0 => Apart(row)
          /\ stored # None /\ stored > 0 => Apart(stored)
      BY <2>2, TimesAre DEF TimesAreApart
    <3>3. Plain =>
          /\ job' # None /\ job' >= 0 => since' + job' >= Interval - JitterWindow
          /\ row' # None /\ row' >= 0 => since' + row' >= Interval - JitterWindow
          /\ stored' # None /\ stored' >= 0 => since' + stored' >= Interval - JitterWindow
      BY <2>1, <2>2, <3>1, <3>2
    <3>4. \A t \in {row', stored'} : t \in Int \/ t = None
      BY <2>4, TimesAre DEF TypeOK
    <3>. QED  BY <2>1, <3>3, <3>4 DEF TimesAreApart, Apart
  <2>10. ArmedIsRow'
    BY <2>1, <2>3, LaterIs DEF ArmedIsRow
  <2>11. NobodyCalls'
    <3>1. stored' # None /\ stored' > 0 => stored # None /\ stored > 0
      BY <2>1, <2>2, TimesAre DEF Later
    <3>. QED  BY <2>1, <3>1 DEF NobodyCalls
  <2>. QED  BY <2>4, <2>5, <2>6, <2>7, <2>8, <2>9, <2>10, <2>11
<1>14. CASE OnJobExecutedFails
  <2>1. TypeOK'
    BY <1>14 DEF OnJobExecutedFails, TypeOK
  <2>2. DownIsEmpty' /\ RowIsStored'
    BY <1>14 DEF OnJobExecutedFails, DownIsEmpty, RowIsStored
  <2>3. ArmedIsRow'
    BY <1>14 DEF OnJobExecutedFails, ArmedIsRow
  <2>4. NobodyCalls'
    BY <1>14 DEF OnJobExecutedFails, NobodyCalls
  <2>5. Plain => ~(stored # None /\ stored > 0)
    BY <1>14 DEF OnJobExecutedFails, RowIsStored, NobodyCalls
  <2>6. OneTimeToCome'
    BY <1>14, <2>5 DEF OnJobExecutedFails, OneTimeToCome
  <2>7. CancelledStays'
    BY <1>14 DEF OnJobExecutedFails, CancelledStays, Running
  <2>8. TimesAreApart'
    BY <1>14 DEF OnJobExecutedFails, TimesAreApart, Apart
  <2>. QED  BY <2>1, <2>2, <2>3, <2>4, <2>6, <2>7, <2>8
<1>15. CASE CallerCommitsNothing
  <2>1. TypeOK'
    BY <1>15 DEF CallerCommitsNothing, TypeOK
  <2>2. DownIsEmpty' /\ RowIsStored' /\ ArmedIsRow' /\ NobodyCalls'
    BY <1>15 DEF CallerCommitsNothing, DownIsEmpty, RowIsStored, ArmedIsRow, NobodyCalls
  <2>3. OneTimeToCome'
    BY <1>15 DEF CallerCommitsNothing, OneTimeToCome
  <2>4. CancelledStays'
    BY <1>15 DEF CallerCommitsNothing, CancelledStays, Running
  <2>5. TimesAreApart'
    BY <1>15 DEF CallerCommitsNothing, TimesAreApart, Apart
  <2>. QED  BY <2>1, <2>2, <2>3, <2>4, <2>5
<1>16. CASE UNCHANGED vars
  BY <1>16
     DEF vars, TypeOK, DownIsEmpty, RowIsStored, ArmedIsRow, NobodyCalls, OneTimeToCome,
         CancelledStays, TimesAreApart, Apart, Running
<1>. QED
  BY <1>1, <1>2, <1>3, <1>4, <1>5, <1>6, <1>7, <1>8, <1>9, <1>10, <1>11, <1>12, <1>13, <1>14, <1>15, <1>16
     DEF Next, CallerStep, CallerEnds, SchedulerStep, WorkerStep

(* The invariant, in every state.                                                 *)
LEMMA InvariantAlways == Spec => []Invariant
<1>1. Init => Invariant
  BY InvariantInit
<1>2. Invariant /\ [Next]_vars => Invariant'
  BY InvariantStep
<1>. QED  BY <1>1, <1>2, PTL DEF Spec

LEMMA PlainIs ==
  ASSUME \A s \in FaultSets : ~({"calls", "commitError"} \subseteq s)
  PROVE  Invariant => Plain
BY DEF Invariant, TypeOK, Plain

(* TDD 12, Persistence: with no call or _fire() under way, and unless the database *)
(* has refused what armed it, accounts.next_run_at is the time APScheduler has     *)
(* armed, so the process that is started after a crash arms the same.              *)
THEOREM ArmedTimeIsStored == Spec => []ArmedIsStored
<1>1. Invariant => ArmedIsStored
  <2>. SUFFICES ASSUME Invariant
                PROVE  ArmedIsStored
    OBVIOUS
  <2>1. TypeOK
    BY DEF Invariant
  <2>2. ASSUME Quiet, ~undone, job # None
        PROVE  stored = job
    <3>1. row = job
      BY <2>2 DEF Invariant, ArmedIsRow
    <3>2. stored = row
      BY <2>2 DEF Invariant, RowIsStored, Quiet
    <3>. QED  BY <3>1, <3>2
  <2>. QED  BY <2>1, <2>2 DEF ArmedIsStored
<1>. QED  BY <1>1, InvariantAlways, PTL

(* SchedulerPort.cancel(): whatever _fire() was doing when it was called, nothing *)
(* is armed after it, and next_run_at stays None, until the next                  *)
(* schedule_next_run(), unless the database has refused that.                     *)
THEOREM CancelHolds == Spec => []CancelIsKept
<1>1. Invariant => CancelIsKept
  <2>. SUFFICES ASSUME Invariant, up, ~wanted, ~owes
                PROVE  job = None /\ (~undone => row = None /\ (Quiet => stored = None))
    BY DEF CancelIsKept
  <2>1. job = None /\ (~undone => row = None)
    BY DEF Invariant, CancelledStays
  <2>2. Quiet => stored = row
    BY DEF Invariant, RowIsStored, Quiet
  <2>. QED  BY <2>1, <2>2
<1>. QED  BY <1>1, InvariantAlways, PTL

(* NFR-14: no two runs of the account come nearer to each other than the interval *)
(* less the jitter, over crashes, failed re-arms and either calls of any kind or  *)
(* commits that fail.                                                             *)
THEOREM RunsKeepTheirDistance ==
  ASSUME \A s \in FaultSets : ~({"calls", "commitError"} \subseteq s)
  PROVE  Spec => RunsAreSpaced
<1>1. Invariant /\ [Next]_vars
        => [fire = "none" /\ fire' = "on_trigger" => since >= Interval - JitterWindow]_vars
  <2>. SUFFICES ASSUME Invariant, Next, fire = "none", fire' = "on_trigger"
                PROVE  since >= Interval - JitterWindow
    OBVIOUS
  <2>1. Dispatch
    BY DEF Next, CallerStep, SchedulerStep, WorkerStep, Start, ScheduleNextRun, Cancel, CallerCommits,
           CallerEnds, CallerCommitsNothing, CallerFails, CallFails, ProcessEnds, Drop, TriggerEnds, Rearm, RearmFails,
           OnJobExecuted, OnJobExecutedFails, OnJobError, Crash, Tick
  <2>2. job = 0 /\ job # None /\ since \in Int
    BY <2>1, BoundsAre DEF Dispatch, Invariant, TypeOK
  <2>3. since + 0 >= Interval - JitterWindow
    BY <2>2, PlainIs DEF Invariant, TimesAreApart, Apart
  <2>. QED  BY <2>2, <2>3
<1>. QED  BY <1>1, InvariantAlways, PTL DEF Spec, RunsAreSpaced

(* SchedulerPort: the adapter and the process around it implement Timetable, with *)
(* the same condition.  A run begins only while one is wanted, whatever cancel()  *)
(* met under way.                                                                 *)
THEOREM SchedulerKeepsTimetable ==
  ASSUME \A s \in FaultSets : ~({"calls", "commitError"} \subseteq s)
  PROVE  Spec => KeepsTimetable
<1>1. Init => T!Init
  BY DEF Init, T!Init
<1>2. Invariant /\ [Next]_vars => [T!Next]_(T!times)
  <2>. SUFFICES ASSUME Invariant, [Next]_vars
                PROVE  T!Next \/ UNCHANGED <<wanted, fire # "none", since>>
    BY DEF T!times
  <2>0. TypeOK
    BY DEF Invariant
  <2>1. CASE Start \/ ScheduleNextRun
    BY <2>1 DEF Start, ScheduleNextRun, T!Next, T!Order
  <2>2. CASE Cancel
    BY <2>2 DEF Cancel, T!Next, T!Withdraw
  <2>3. CASE Dispatch
    <3>1. up /\ job = 0 /\ job # None /\ fire = "none" /\ fire' = "on_trigger" /\ since' = 0
          /\ UNCHANGED wanted
      BY <2>3, BoundsAre DEF Dispatch
    <3>2. wanted
      BY <2>0, <3>1 DEF Invariant, CancelledStays, TypeOK
    <3>3. since >= Interval - JitterWindow
      <4>1. since + 0 >= Interval - JitterWindow /\ since \in Int
        BY <2>0, <3>1, BoundsAre, PlainIs DEF Invariant, TimesAreApart, Apart, TypeOK
      <4>. QED  BY <4>1
    <3>. QED  BY <3>1, <3>2, <3>3 DEF T!Next, T!Run
  <2>4. CASE OnJobExecuted \/ OnJobExecutedFails \/ OnJobError
    BY <2>4 DEF OnJobExecuted, OnJobExecutedFails, OnJobError, T!Next, T!End
  <2>5. CASE CallerFails \/ CallFails \/ Crash
    BY <2>5 DEF CallerFails, CallFails, Crash, ProcessEnds, T!Next, T!Stop
  <2>6. CASE Tick
    BY <2>6 DEF Tick, T!Next, T!Wait
  <2>7. CASE CallerCommits \/ CallerCommitsNothing \/ Drop \/ UNCHANGED vars
    BY <2>7 DEF CallerCommits, CallerCommitsNothing, Drop, vars
  <2>8. CASE TriggerEnds \/ Rearm \/ RearmFails
    BY <2>8 DEF TriggerEnds, Rearm, RearmFails
  <2>. QED  BY <2>1, <2>2, <2>3, <2>4, <2>5, <2>6, <2>7, <2>8
            DEF Next, CallerStep, CallerEnds, SchedulerStep, WorkerStep
<1>. QED  BY <1>1, <1>2, InvariantAlways, PTL DEF Spec, KeepsTimetable, T!Spec
=============================================================================
