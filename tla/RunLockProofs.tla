--------------------------- MODULE RunLockProofs ---------------------------
(***************************************************************************)
(* What RunLock guarantees for every set of owners, every lease duration   *)
(* and every modelled time span.                                           *)
(***************************************************************************)
EXTENDS RunLock, TLAPS

(* What an owner does, and a crash, leaves the columns and the callers typed. *)
LEMMA OwnerKeepsTypes ==
  ASSUME TypeOK, NEW o \in Owner,
         ReadClock(o) \/ Acquire(o) \/ Refuse(o) \/ Release(o) \/ Crash(o)
  PROVE  TypeOK'
<1>row. lock' \in {lock, Free, HeldRow(o, now[o])} /\ now[o] \in Nat
  BY DEF TypeOK, ReadClock, Acquire, Refuse, Release, ReleasedRow, Crash
<1>typed. lock' \in [owner : Owner \cup {NoOwner}, expires : Nat]
  BY <1>row, LockAssumption DEF TypeOK, HeldRow, Free
<1>callers. clock' \in Nat /\ now' \in [Owner -> Nat]
  BY DEF TypeOK, ReadClock, Acquire, Refuse, Release, Crash
<1>positions. pc' \in [Owner -> {"new", "ready", "holding", "refused", "released", "crashed"}]
  BY DEF TypeOK, ReadClock, Acquire, Refuse, Release, Crash
<1>. QED  BY <1>typed, <1>callers, <1>positions DEF TypeOK

(* Every column and every owner's program state keeps its type. *)
THEOREM TypeCorrect == Spec => []TypeOK
<1>first. Init => TypeOK
  BY LockAssumption DEF Init, TypeOK, Free
<1>later. ASSUME TypeOK, [Next]_vars PROVE TypeOK'
  <2>time. CASE Tick
    BY <1>later, <2>time, LockAssumption DEF TypeOK, Tick
  <2>still. CASE UNCHANGED vars
    BY <1>later, <2>still DEF TypeOK, vars
  <2>. QED  BY <1>later, <2>time, <2>still, OwnerKeepsTypes DEF Next
<1>. QED  BY <1>first, <1>later, PTL DEF Spec

-----------------------------------------------------------------------------
(* A row that can be taken over holds back nobody who is inside a lease. *)
LEMMA AcquirableMeansNobodyInLease ==
  ASSUME TypeOK, LeaseIsRow, NEW o \in Owner, Acquirable(lock, now[o])
  PROVE  \A p \in Owner : ~InLease(p)
<1> SUFFICES ASSUME NEW p \in Owner, InLease(p) PROVE FALSE
  OBVIOUS
<1>1. lock.owner = p /\ lock.expires = now[p] + LockDuration
  BY DEF LeaseIsRow, HeldRow
<1>2. now[p] + LockDuration < now[o] /\ now[o] <= clock
  BY <1>1, LockAssumption DEF Acquirable, LeaseIsRow
<1>3. QED
  BY <1>2, LockAssumption DEF InLease, TypeOK

(* A granted row is the lease of the one it was granted to, and nobody else's. *)
LEMMA GrantedRowIsLease ==
  ASSUME TypeOK, LeaseIsRow, NEW o \in Owner, Acquire(o)
  PROVE  LeaseIsRow'
<1>1. lock' = HeldRow(o, now[o]) /\ UNCHANGED <<clock, now>>
      /\ \A p \in Owner : pc'[p] = (IF p = o THEN "holding" ELSE pc[p])
  BY DEF Acquire, TypeOK
<1>2. \A p \in Owner : ~InLease(p)
  BY AcquirableMeansNobodyInLease DEF Acquire
<1>3. \A p \in Owner : p # o => ~InLease(p)'
  BY <1>1, <1>2 DEF InLease
<1>4. lock'.owner = o /\ lock'.expires = now[o] + LockDuration
  BY <1>1 DEF HeldRow
<1>. QED  BY <1>1, <1>3, <1>4 DEF LeaseIsRow

(* Whoever gives back a row that is no longer its own changes nothing of it; a *)
(* row that is its own was nobody else's lease.                                *)
LEMMA ReleasedRowIsNobodys ==
  ASSUME TypeOK, LeaseIsRow, NEW o \in Owner, Release(o)
  PROVE  LeaseIsRow'
<1>1. /\ UNCHANGED <<clock, now>>
      /\ \A p \in Owner : pc'[p] = (IF p = o THEN "released" ELSE pc[p])
  BY DEF Release, TypeOK
<1>2. \A p \in Owner : InLease(p)' => InLease(p) /\ p # o
  BY <1>1 DEF InLease
<1>3. CASE lock.owner = o
  <2>1. lock' = Free
    BY <1>3 DEF Release, ReleasedRow
  <2>2. \A p \in Owner : ~InLease(p)'
    BY <1>2, <1>3 DEF LeaseIsRow, HeldRow
  <2>. QED  BY <1>1, <2>1, <2>2, LockAssumption DEF LeaseIsRow, Free
<1>4. CASE lock.owner # o
  <2>1. lock' = lock
    BY <1>4 DEF Release, ReleasedRow
  <2>. QED  BY <1>1, <1>2, <1>4, <2>1 DEF LeaseIsRow, HeldRow
<1>. QED  BY <1>3, <1>4

(* The row, while it names an owner, is that owner's lease: a step that leaves *)
(* the row alone lets nobody into a lease.                                     *)
LEMMA LeaseIsRowInductive == TypeOK /\ LeaseIsRow /\ [Next]_vars => LeaseIsRow'
<1>. SUFFICES ASSUME TypeOK, LeaseIsRow, [Next]_vars PROVE LeaseIsRow'
  OBVIOUS
<1>1. ASSUME NEW o \in Owner, ReadClock(o) \/ Refuse(o) \/ Crash(o) PROVE LeaseIsRow'
  <2>1. CASE ReadClock(o)
    <3>1. /\ lock' = lock /\ clock' = clock /\ pc[o] = "new" /\ pc'[o] = "ready" /\ now'[o] = clock
          /\ \A p \in Owner : p # o => now'[p] = now[p] /\ pc'[p] = pc[p]
      BY <2>1 DEF TypeOK, ReadClock
    <3>. QED  BY <3>1 DEF TypeOK, LeaseIsRow, InLease, HeldRow
  <2>2. CASE Refuse(o) \/ Crash(o)
    <3>1. /\ UNCHANGED <<lock, clock, now>> /\ pc'[o] # "holding"
          /\ pc[o] = "holding" => pc'[o] = "crashed"
          /\ pc[o] \in {"ready", "holding"}
          /\ \A p \in Owner : p # o => pc'[p] = pc[p]
      BY <2>2 DEF TypeOK, Refuse, Crash
    <3>. QED  BY <3>1 DEF LeaseIsRow, InLease, HeldRow
  <2>. QED  BY <1>1, <2>1, <2>2
<1>2. CASE Tick
  BY <1>2, LockAssumption DEF TypeOK, LeaseIsRow, InLease, Tick, HeldRow
<1>3. CASE UNCHANGED vars
  BY <1>3 DEF LeaseIsRow, InLease, vars, HeldRow
<1>. QED  BY <1>1, <1>2, <1>3, GrantedRowIsLease, ReleasedRowIsNobodys DEF Next

(* The inductive invariant the other results rest on. *)
THEOREM LeaseIsRowAlways == Spec => []LeaseIsRow
<1>1. Init => LeaseIsRow
  BY LockAssumption DEF Init, LeaseIsRow, InLease, Free
<1>2. QED
  BY <1>1, LeaseIsRowInductive, TypeCorrect, PTL DEF Spec

(* No two owners are inside their leases together. *)
THEOREM LeaseExclusionAlways == Spec => []LeaseExclusion
<1>1. LeaseIsRow => LeaseExclusion
  BY DEF LeaseIsRow, LeaseExclusion, HeldRow
<1>2. QED
  BY <1>1, LeaseIsRowAlways, PTL

-----------------------------------------------------------------------------
(* A running lease leaves the row only through its own holder's release. *)
THEOREM RunningLeaseKept == Spec => RunningLeaseIsKept
<1> DEFINE Kept == \A o \in Owner :
       lock.owner = o /\ clock <= lock.expires /\ lock' # lock
         => pc[o] = "holding" /\ pc'[o] = "released"
<1>1. TypeOK /\ LeaseIsRow /\ [Next]_vars => [Kept]_vars
  <2> SUFFICES ASSUME TypeOK, LeaseIsRow, Next,
                      NEW o \in Owner, lock.owner = o, clock <= lock.expires, lock' # lock
               PROVE  pc[o] = "holding" /\ pc'[o] = "released"
    BY DEF vars
  <2> USE LockAssumption DEF TypeOK
  <2>1. \A p \in Owner : ~Acquire(p)
    BY DEF Acquire, Acquirable, LeaseIsRow
  <2>2. PICK p \in Owner : Release(p)
    BY <2>1 DEF Next, Tick, ReadClock, Refuse, Crash
  <2>3. p = o
    BY <2>2 DEF Release, ReleasedRow
  <2>4. QED
    BY <2>2, <2>3 DEF Release
<1>2. QED
  BY <1>1, TypeCorrect, LeaseIsRowAlways, PTL DEF Spec, RunningLeaseIsKept

-----------------------------------------------------------------------------
(* Whoever takes the row over finds nobody whose lease counts; with a `now`    *)
(* older than a whole lease it has none itself.                                *)
LEMMA TakenWhenNobodyHolds ==
  ASSUME TypeOK, LeaseIsRow, NEW o \in Owner, Acquire(o)
  PROVE  EffectiveHolder = NoOwner /\ EffectiveHolder' \in {o, NoOwner}
<1>1. lock.owner = NoOwner \/ lock.expires < clock
  BY LockAssumption DEF Acquire, Acquirable, LeaseIsRow, TypeOK
<1>2. lock'.owner = o
  BY DEF Acquire, HeldRow
<1>. QED  BY <1>1, <1>2, LockAssumption DEF EffectiveHolder, TypeOK

(* Everything else leaves the holder, or leaves nobody.                        *)
LEMMA HeldUntilItEnds ==
  ASSUME TypeOK, [Next]_vars, \A o \in Owner : ~Acquire(o)
  PROVE  EffectiveHolder' \in {EffectiveHolder, NoOwner}
<1>1. clock' \in {clock, clock + 1} /\ lock' \in {lock, Free}
  BY DEF Next, Tick, ReadClock, Refuse, Release, ReleasedRow, Crash, vars
<1>2. CASE lock' = Free
  BY <1>2 DEF EffectiveHolder, Free
<1>3. CASE lock' = lock
  BY <1>1, <1>3 DEF EffectiveHolder, TypeOK
<1>. QED  BY <1>1, <1>2, <1>3

(* The row with its clock implements the abstract lease: an acquire grants  *)
(* it when nobody holds it (or, with a `now` staler than a whole lease, is   *)
(* invisible), a release or the passing of time ends it.                    *)
THEOREM RunLockImplementsLease == Spec => ImplementsLease
<1>1. Init => L!Init
  BY DEF Init, L!Init, Free, EffectiveHolder
<1>2. ASSUME TypeOK, LeaseIsRow, [Next]_vars PROVE [L!Next]_EffectiveHolder
  <2>grant. ASSUME NEW o \in Owner, Acquire(o) PROVE [L!Next]_EffectiveHolder
    BY <1>2, <2>grant, TakenWhenNobodyHolds DEF L!Next, L!Grant
  <2>end. CASE \A o \in Owner : ~Acquire(o)
    BY <1>2, <2>end, HeldUntilItEnds DEF L!Next, L!End
  <2>. QED  BY <2>grant, <2>end
<1>. QED  BY <1>1, <1>2, TypeCorrect, LeaseIsRowAlways, PTL DEF Spec, L!Spec, ImplementsLease
=============================================================================
