------------------------------ MODULE RunLock ------------------------------
(***************************************************************************)
(* run/run_lock.py: the row of run_locks that keeps two runs (or a run and *)
(* an interactive login) of one account apart.  The row is a lease: it     *)
(* names an owner and the time at which it stops to count.  acquire() and  *)
(* release() are single SQL statements committed at once by their callers, *)
(* so each is one step; what can happen between the steps (another owner's *)
(* step, the passing of time, a crash of the holder) is what this module   *)
(* is about.  Rows of different accounts never meet, so there is one row.  *)
(***************************************************************************)
EXTENDS Naturals

CONSTANTS
  Owner,          \* lock_owner values: str(run_id) of a run, "login-<uuid>" of a login
  NoOwner,        \* NULL
  LockDuration,   \* bootstrap.LOCK_DURATION
  MaxClock        \* bound on modelled time

ASSUME LockAssumption ==
  /\ NoOwner \notin Owner
  /\ LockDuration \in Nat
  /\ MaxClock \in Nat

VARIABLES
  clock,   \* real time
  lock,    \* the row: lock_owner and lock_expires_at
  now,     \* the `now` each owner read before it called acquire()
  pc       \* where each owner is in its use of the lock

vars == <<clock, lock, now, pc>>

Free == [owner |-> NoOwner, expires |-> 0]    \* all three columns NULL, or no row yet

TypeOK ==
  /\ clock \in Nat
  /\ lock \in [owner : Owner \cup {NoOwner}, expires : Nat]
  /\ now \in [Owner -> Nat]
  /\ pc \in [Owner -> {"new", "ready", "holding", "refused", "released", "crashed"}]

Init ==
  /\ clock = 0
  /\ lock = Free
  /\ now = [o \in Owner |-> 0]
  /\ pc = [o \in Owner |-> "new"]

-----------------------------------------------------------------------------
(* The callers take `now` first and call acquire() with it some time later. *)
(* No attempt starts so late that its lease could outlive MaxClock.         *)
ReadClock(o) ==
  /\ pc[o] = "new"
  /\ clock + LockDuration < MaxClock
  /\ now' = [now EXCEPT ![o] = clock]
  /\ pc' = [pc EXCEPT ![o] = "ready"]
  /\ UNCHANGED <<clock, lock>>

(* A slip in the ON CONFLICT ... WHERE clause: the row is taken over on its *)
(* last valid instant already.                                              *)
AcquirableAtExpiry(row, t) == row.owner = NoOwner \/ row.expires <= t

(* The WHERE of the upsert: the row is free or has expired at the caller's time. *)
Acquirable(row, t) == row.owner = NoOwner \/ row.expires < t

(* A slip in the values written: the lease never runs out. *)
EndlessRow(o, t) == [owner |-> o, expires |-> t + LockDuration + MaxClock]

(* The values the upsert writes. *)
HeldRow(o, t) == [owner |-> o, expires |-> t + LockDuration]

Acquire(o) ==
  /\ pc[o] = "ready"
  /\ Acquirable(lock, now[o])
  /\ lock' = HeldRow(o, now[o])
  /\ pc' = [pc EXCEPT ![o] = "holding"]
  /\ UNCHANGED <<clock, now>>

Refuse(o) ==
  /\ pc[o] = "ready"
  /\ ~Acquirable(lock, now[o])
  /\ pc' = [pc EXCEPT ![o] = "refused"]
  /\ UNCHANGED <<clock, lock, now>>

(* A slip in release(): the owner is missing from its WHERE clause. *)
ReleasedRowOfAnyOwner(row, o) == Free

(* The UPDATE of release(): only the row that still names the caller is freed. *)
ReleasedRow(row, o) == IF row.owner = o THEN Free ELSE row

Release(o) ==
  /\ pc[o] = "holding"
  /\ lock' = ReleasedRow(lock, o)
  /\ pc' = [pc EXCEPT ![o] = "released"]
  /\ UNCHANGED <<clock, now>>

(* The owner's process dies: nobody will release its row. *)
Crash(o) ==
  /\ pc[o] \in {"ready", "holding"}
  /\ pc' = [pc EXCEPT ![o] = "crashed"]
  /\ UNCHANGED <<clock, lock, now>>

Tick ==
  /\ clock < MaxClock
  /\ clock' = clock + 1
  /\ UNCHANGED <<lock, now, pc>>

Next ==
  \/ Tick
  \/ \E o \in Owner :
       ReadClock(o) \/ Acquire(o) \/ Refuse(o) \/ Release(o) \/ Crash(o)

Spec == Init /\ [][Next]_vars

FairSpec == Spec /\ WF_vars(Tick)

-----------------------------------------------------------------------------
(* o was granted the lock, has not given it back, and its lease still runs. *)
InLease(o) == pc[o] = "holding" /\ clock <= now[o] + LockDuration

(* No two owners are ever inside their leases together, however stale the   *)
(* `now` they pass to acquire(), and whatever releases of owners that lost  *)
(* their lease arrive late.                                                 *)
LeaseExclusion == \A o, p \in Owner : InLease(o) /\ InLease(p) => o = p

(* The inductive form of it: an owner inside its lease is the one the row   *)
(* names, with its own expiry; the row names only owners that hold or died. *)
LeaseIsRow ==
  /\ \A o \in Owner : now[o] <= clock
  /\ \A o \in Owner : InLease(o) => lock = HeldRow(o, now[o])
  /\ \A o \in Owner :
       lock.owner = o => /\ pc[o] \in {"holding", "crashed"}
                         /\ lock.expires = now[o] + LockDuration

(* While a lease runs, the row is only changed by the release of its own    *)
(* holder: not by another acquire, not by another owner's late release, and *)
(* not even when the holder has crashed.                                    *)
RunningLeaseIsKept ==
  [][\A o \in Owner :
       lock.owner = o /\ clock <= lock.expires /\ lock' # lock
         => pc[o] = "holding" /\ pc'[o] = "released"]_vars

(* A holder that died does not block the account for ever: its lease runs   *)
(* out and the row can be taken over (TDD section 17, lock_expires_at).     *)
CrashedHolderIsOutlived ==
  \A o \in Owner :
    (pc[o] = "crashed" /\ lock.owner = o) ~> Acquirable(lock, clock)

(* The owner whose lease counts now, if any: the abstract lock's holder. *)
EffectiveHolder ==
  IF lock.owner # NoOwner /\ clock <= lock.expires THEN lock.owner ELSE NoOwner

L == INSTANCE Lease WITH holder <- EffectiveHolder

(* The row, the clock and the stale `now`s implement the abstract lease. *)
ImplementsLease == L!Spec
=============================================================================
