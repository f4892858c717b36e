----------------------- MODULE LinkedInSessionProofs ------------------------
(***************************************************************************)
(* Proofs about LinkedInSession, for any number of manual runs and logins  *)
(* and any number of faults.                                               *)
(***************************************************************************)
EXTENDS LinkedInSession, TLAPS

Resting == {"idle", "succeeded", "failed"}

(* Whoever works under the lock is its holder, has a browser on the profile     *)
(* only while it is at it, and the trigger waits for its re-check.              *)
HolderWorks ==
  /\ \A a \in Locked : pc[a] \notin Resting => holder = a
  /\ \A a \in opened : pc[a] \in {"open", "fetching"}
  /\ pc[Scheduled] # "idle" => pc[Recheck] = "idle"

(* A run asks LinkedIn with a profile that is there, and goes on with the row   *)
(* in its hands that its check has written.                                     *)
CheckIsHeld ==
  \A a \in Runs :
    /\ pc[a] \in {"launch", "open", "accepted"} => profile
    /\ pc[a] \in {"valid", "page", "fetching"} =>
         /\ profile /\ writer = a
         /\ pending = "VALID" \/ loaded[a] = "VALID"

Invariant == TypeOK /\ HolderWorks /\ CheckIsHeld

LEMMA ActorsApart ==
  /\ Locked \subseteq Actors /\ Runs \subseteq Locked /\ Logins \subseteq Locked /\ Runs \cap Logins = {}
  /\ Recheck \in Actors /\ Recheck \notin Locked /\ Scheduled \in Runs
  /\ Nobody \notin Actors /\ Actors = Locked \cup {Recheck} /\ Locked = Runs \cup Logins
  BY SessionAssumption DEF Actors, Locked, Runs

(* One actor goes on, the others stay where they are. *)
LEMMA GotoIs ==
  ASSUME TypeOK, NEW a \in Actors, NEW place \in Places, Goto(a, place)
  PROVE  /\ pc' \in [Actors -> Places] /\ pc'[a] = place
         /\ \A b \in Actors : b # a => pc'[b] = pc[b]
  BY DEF TypeOK, Goto

(* A transaction that ends leaves the locks on rows of others alone. *)
LEMMA TransactionEndsIs ==
  ASSUME TypeOK, NEW a \in Actors, TransactionEnds(a)
  PROVE  /\ writer' \in Actors \cup {Nobody} /\ pending' \in Status
         /\ loaded' \in [Actors -> Status] /\ loaded'[a] = "none"
         /\ \A b \in Actors : b # a => loaded'[b] = loaded[b]
         /\ \A b \in Actors : b # a /\ writer = b => writer' = b /\ pending' = pending
<1>1. loaded' = [loaded EXCEPT ![a] = "none"]
  BY DEF TransactionEnds
<1>2. CASE writer = a
  BY <1>1, <1>2 DEF TransactionEnds, TypeOK, Status
<1>3. CASE writer # a
  BY <1>1, <1>3 DEF TransactionEnds, TypeOK, Status
<1> QED
  BY <1>2, <1>3

LEMMA ReadIs == ASSUME TypeOK, NEW a PROVE Read(a) \in Status
  BY DEF Read, TypeOK

(* A step that ends somewhere: it keeps the invariant if nobody comes to work   *)
(* without the lock, ...                                                        *)
LEMMA HolderStillWorks ==
  ASSUME TypeOK, HolderWorks, NEW a \in Actors,
         \A b \in Actors : b # a => pc'[b] = pc[b],
         holder' = holder \/ (\A b \in Locked : b # a => pc[b] \in Resting),
         a \in Locked /\ pc'[a] \notin Resting => holder' = a,
         a \in opened' => pc'[a] \in {"open", "fetching"},
         opened' \subseteq opened \cup {a},
         \/ pc[a] # "idle" \/ a \notin {Scheduled, Recheck}
         \/ a = Scheduled /\ pc[Recheck] = "idle"
  PROVE  HolderWorks'
<1>1. ASSUME NEW b \in Locked, pc'[b] \notin Resting PROVE holder' = b
  BY <1>1, ActorsApart DEF HolderWorks
<1>2. ASSUME NEW b \in opened' PROVE pc'[b] \in {"open", "fetching"}
  BY <1>2 DEF HolderWorks, TypeOK
<1>3. (pc[Scheduled] # "idle" => pc[Recheck] = "idle")'
  BY ActorsApart DEF HolderWorks
<1> QED
  BY <1>1, <1>2, <1>3 DEF HolderWorks

(* ... and if it takes from no run what it has in its hands.                    *)
LEMMA CheckStillHeld ==
  ASSUME TypeOK, CheckIsHeld, NEW a \in Actors,
         \A b \in Actors : b # a => pc'[b] = pc[b] /\ loaded'[b] = loaded[b],
         \A b \in Actors : b # a /\ writer = b => writer' = b /\ pending' = pending,
         profile => profile',
         a \in Runs => /\ pc'[a] \in {"launch", "open", "accepted"} => profile'
                       /\ pc'[a] \in {"valid", "page", "fetching"} =>
                            /\ profile' /\ writer' = a
                            /\ pending' = "VALID" \/ loaded'[a] = "VALID"
  PROVE  CheckIsHeld'
<1>1. ASSUME NEW b \in Runs, b # a, pc'[b] \in {"launch", "open", "accepted"} PROVE profile'
  BY <1>1, ActorsApart DEF CheckIsHeld
<1>2. ASSUME NEW b \in Runs, b # a, pc'[b] \in {"valid", "page", "fetching"}
      PROVE  profile' /\ writer' = b /\ (pending' = "VALID" \/ loaded'[b] = "VALID")
  BY <1>2, ActorsApart DEF CheckIsHeld
<1> QED
  BY <1>1, <1>2 DEF CheckIsHeld

LEMMA InvariantInit == Init => Invariant
<1> SUFFICES ASSUME Init PROVE Invariant
  OBVIOUS
<1>1. pc \in [Actors -> Places] /\ \A a \in Actors : pc[a] = "idle"
  BY DEF Init, Places
<1>2. loaded \in [Actors -> Status]
  BY DEF Init, Status
<1>3. TypeOK
  <2>1. /\ holder = Nobody /\ writer = Nobody /\ pending \in Status /\ row \in Status
        /\ loggedIn = FALSE /\ profile = FALSE /\ alert = FALSE /\ opened = {}
    BY DEF Init, Status
  <2>2. faults \in 0..MaxFaults
    BY SessionAssumption DEF Init
  <2> QED
    BY <1>1, <1>2, <2>1, <2>2 DEF TypeOK
<1>4. HolderWorks
  BY <1>1, ActorsApart DEF Init, HolderWorks, Resting
<1>5. CheckIsHeld
  BY <1>1, ActorsApart DEF CheckIsHeld
<1> QED
  BY <1>3, <1>4, <1>5 DEF Invariant

-----------------------------------------------------------------------------
LEMMA InvariantStep == Invariant /\ [Next]_vars => Invariant'
<1> SUFFICES ASSUME TypeOK, HolderWorks, CheckIsHeld, [Next]_vars
             PROVE  TypeOK' /\ HolderWorks' /\ CheckIsHeld'
  BY DEF Invariant
<1>1. ASSUME NEW a PROVE Read(a) \in Status
  BY <1>1, ReadIs
<1>2. ASSUME NEW a \in Locked, Start(a) PROVE TypeOK' /\ HolderWorks' /\ CheckIsHeld'
  <2>1. a \in Actors
    BY ActorsApart DEF Checkers
  <2>2. \E place \in Places : place \in {"launch", "ready"} /\ Goto(a, place)
    BY <1>2 DEF Start, Places
  <2>3. /\ pc' \in [Actors -> Places] /\ pc'[a] \in {"launch", "ready"}
        /\ \A b \in Actors : b # a => pc'[b] = pc[b]
    BY <2>1, <2>2, GotoIs
  <2>4. a # Recheck /\ (a = Scheduled => pc[Recheck] = "idle")
    BY <1>2, ActorsApart DEF Start
  <2>5. TypeOK'
    BY <1>2, <1>1, <2>1, <2>3, ActorsApart DEF Start, TypeOK, Status
  <2>6. /\ holder' = a /\ opened' = opened /\ a \notin opened
        /\ \A b \in Locked : pc[b] \in Resting
    BY <1>2, ActorsApart DEF Start, HolderWorks
  <2>7. HolderWorks'
    BY <2>1, <2>3, <2>6, <2>4, HolderStillWorks DEF Resting
  <2>8. /\ \A b \in Actors : b # a => loaded'[b] = loaded[b]
        /\ \A b \in Actors : b # a /\ writer = b => writer' = b /\ pending' = pending
        /\ profile => profile'
        /\ a \in Runs => pc'[a] = "ready"
    <3>1. a \in Runs => pc'[a] = "ready"
      BY <1>2, ActorsApart DEF Start, Goto, TypeOK
    <3> QED
      BY <1>2, <3>1 DEF Start
  <2>9. CheckIsHeld'
    BY <2>8, <2>1, <2>3, CheckStillHeld
  <2> QED
    BY <2>5, <2>7, <2>9
<1>3. ASSUME NEW a \in Checkers, Load(a) PROVE TypeOK' /\ HolderWorks' /\ CheckIsHeld'
  <2>1. a \in Actors
    BY ActorsApart DEF Checkers
  <2>2. \E place \in Places : place \in {"launch", "invalid"} /\ Goto(a, place)
    BY <1>3 DEF Load, Places
  <2>3. /\ pc' \in [Actors -> Places] /\ pc'[a] \in {"launch", "invalid"}
        /\ \A b \in Actors : b # a => pc'[b] = pc[b]
    BY <2>1, <2>2, GotoIs
  <2>4. pc[a] # "idle"
    BY <1>3 DEF Load
  <2>5. TypeOK'
    BY <1>3, <1>1, <2>1, <2>3, ActorsApart DEF Load, TypeOK, Status
  <2>6. HolderWorks'
    BY <1>3, <2>1, <2>3, <2>4, HolderStillWorks DEF Load, HolderWorks, Resting
  <2>7. /\ \A b \in Actors : b # a => loaded'[b] = loaded[b]
        /\ \A b \in Actors : b # a /\ writer = b => writer' = b /\ pending' = pending
        /\ profile => profile'
        /\ pc'[a] \in {"launch", "invalid"} /\ (pc'[a] = "launch" => profile')
    <3>1. pc'[a] = "launch" => profile
      BY <1>3, <2>1 DEF Load, Goto, TypeOK
    <3> QED
      BY <1>3, <2>1, <2>3, <3>1 DEF Load, TypeOK
  <2>8. CheckIsHeld'
    BY <2>7, <2>1, <2>3, CheckStillHeld
  <2> QED
    BY <2>5, <2>6, <2>8
<1>4. ASSUME NEW a \in Actors, Launch(a) PROVE TypeOK' /\ HolderWorks' /\ CheckIsHeld'
  <2>1. a \in Actors
    BY ActorsApart DEF Checkers
  <2>2. \E place \in Places : place \in {"open", "error"} /\ Goto(a, place)
    BY <1>4 DEF Launch, Places
  <2>3. /\ pc' \in [Actors -> Places] /\ pc'[a] \in {"open", "error"}
        /\ \A b \in Actors : b # a => pc'[b] = pc[b]
    BY <2>1, <2>2, GotoIs
  <2>4. pc[a] # "idle"
    BY <1>4 DEF Launch
  <2>5. TypeOK'
    BY <1>4, <1>1, <2>1, <2>3, ActorsApart DEF Launch, TypeOK, Status
  <2>6. /\ holder' = holder /\ opened' \subseteq opened \cup {a}
        /\ pc[a] \notin {"idle", "succeeded", "failed", "open", "fetching"}
    BY <1>4 DEF Launch
  <2>7. a \notin opened
    BY <2>6 DEF HolderWorks
  <2>8. a \in opened' => pc'[a] = "open"
    <3>1. CASE opened = {}
      BY <1>4, <3>1, <2>1 DEF Launch, Goto, TypeOK
    <3>2. CASE opened # {}
      BY <1>4, <3>2, <2>7 DEF Launch
    <3> QED
      BY <3>1, <3>2
  <2>9. a \in Locked => holder = a
    BY <2>6 DEF HolderWorks, Resting
  <2>10. HolderWorks'
    BY <2>1, <2>3, <2>6, <2>8, <2>9, <2>4, HolderStillWorks DEF Resting
  <2>11. CheckIsHeld'
    BY <1>4, <2>1, <2>3, CheckStillHeld DEF Launch, CheckIsHeld, TypeOK
  <2> QED
    BY <2>5, <2>10, <2>11
<1>5. ASSUME NEW a \in Checkers, Answer(a) PROVE TypeOK' /\ HolderWorks' /\ CheckIsHeld'
  <2>1. a \in Actors
    BY ActorsApart DEF Checkers
  <2>2. \E place \in Places : place \in {"accepted", "refused", "error"} /\ Goto(a, place)
    BY <1>5 DEF Answer, Places
  <2>3. /\ pc' \in [Actors -> Places] /\ pc'[a] \in {"accepted", "refused", "error"}
        /\ \A b \in Actors : b # a => pc'[b] = pc[b]
    BY <2>1, <2>2, GotoIs
  <2>4. faults' \in 0..MaxFaults
    BY <1>5, SessionAssumption DEF Answer, Fault, TypeOK
  <2>5. pc[a] # "idle"
    BY <1>5 DEF Answer
  <2>6. TypeOK'
    BY <1>5, <1>1, <2>1, <2>3, <2>4, ActorsApart DEF Answer, TypeOK, Status
  <2>7. HolderWorks'
    BY <1>5, <2>1, <2>3, <2>5, HolderStillWorks DEF Answer, HolderWorks, Resting
  <2>8. CheckIsHeld'
    BY <1>5, <2>1, <2>3, CheckStillHeld DEF Answer, CheckIsHeld, TypeOK
  <2> QED
    BY <2>6, <2>7, <2>8
<1>6. ASSUME NEW a \in Actors, Flush(a) PROVE TypeOK' /\ HolderWorks' /\ CheckIsHeld'
  <2>1. a \in Actors
    BY ActorsApart DEF Checkers
  <2>2. \E place \in Places : place \in {"valid", "invalid"} /\ Goto(a, place)
    BY <1>6 DEF Flush, Places
  <2>3. /\ pc' \in [Actors -> Places] /\ pc'[a] \in {"valid", "invalid"}
        /\ \A b \in Actors : b # a => pc'[b] = pc[b]
    BY <2>1, <2>2, GotoIs
  <2>4. pc[a] # "idle"
    BY <1>6 DEF Flush
  <2>5. TypeOK'
    BY <1>6, <1>1, <2>1, <2>3, ActorsApart DEF Flush, TypeOK, Status
  <2>6. HolderWorks'
    BY <1>6, <2>1, <2>3, <2>4, HolderStillWorks DEF Flush, HolderWorks, Resting
  <2>7. /\ \A b \in Actors : b # a => loaded'[b] = loaded[b]
        /\ \A b \in Actors : b # a /\ writer = b => writer' = b /\ pending' = pending
        /\ UNCHANGED <<profile, loaded>> /\ writer' = a
    BY <1>6, ActorsApart DEF Flush
  <2>8. ASSUME a \in Runs, pc'[a] = "valid" PROVE profile /\ (pending' = "VALID" \/ loaded[a] = "VALID")
    <3>1. pc[a] = "accepted"
      BY <1>6, <2>1, <2>8 DEF Flush, Goto, TypeOK
    <3> QED
      BY <1>6, <2>8, <3>1 DEF Flush, CheckIsHeld
  <2>9. /\ \A b \in Actors : b # a => loaded'[b] = loaded[b]
        /\ \A b \in Actors : b # a /\ writer = b => writer' = b /\ pending' = pending
        /\ (profile => profile') /\ pc'[a] \in {"valid", "invalid"}
        /\ a \in Runs /\ pc'[a] = "valid" =>
             profile' /\ writer' = a /\ (pending' = "VALID" \/ loaded'[a] = "VALID")
    BY <2>3, <2>7, <2>8
  <2>10. CheckIsHeld'
    BY <2>9, <2>1, <2>3, CheckStillHeld
  <2> QED
    BY <2>5, <2>6, <2>10
<1>7. ASSUME NEW a \in Runs, NextPage(a) PROVE TypeOK' /\ HolderWorks' /\ CheckIsHeld'
  <2>1. a \in Actors
    BY ActorsApart DEF Checkers
  <2>2. \E place \in Places : place \in {"page", "invalid"} /\ Goto(a, place)
    BY <1>7 DEF NextPage, Places
  <2>3. /\ pc' \in [Actors -> Places] /\ pc'[a] \in {"page", "invalid"}
        /\ \A b \in Actors : b # a => pc'[b] = pc[b]
    BY <2>1, <2>2, GotoIs
  <2>4. pc[a] # "idle"
    BY <1>7 DEF NextPage
  <2>5. TypeOK'
    BY <1>7, <1>1, <2>1, <2>3, ActorsApart DEF NextPage, TypeOK, Status
  <2>6. HolderWorks'
    BY <1>7, <2>1, <2>3, <2>4, HolderStillWorks DEF NextPage, HolderWorks, Resting
  <2>7. CheckIsHeld'
    BY <1>7, <2>1, <2>3, CheckStillHeld DEF NextPage, CheckIsHeld, TypeOK
  <2> QED
    BY <2>5, <2>6, <2>7
<1>8. ASSUME NEW a \in Runs, LaunchPage(a) PROVE TypeOK' /\ HolderWorks' /\ CheckIsHeld'
  <2>1. a \in Actors
    BY ActorsApart DEF Checkers
  <2>2. \E place \in Places : place \in {"fetching", "valid"} /\ Goto(a, place)
    BY <1>8 DEF LaunchPage, Places
  <2>3. /\ pc' \in [Actors -> Places] /\ pc'[a] \in {"fetching", "valid"}
        /\ \A b \in Actors : b # a => pc'[b] = pc[b]
    BY <2>1, <2>2, GotoIs
  <2>4. pc[a] # "idle"
    BY <1>8 DEF LaunchPage
  <2>5. TypeOK'
    BY <1>8, <1>1, <2>1, <2>3, ActorsApart DEF LaunchPage, TypeOK, Status
  <2>6. /\ holder' = holder /\ opened' \subseteq opened \cup {a}
        /\ pc[a] \notin {"idle", "succeeded", "failed", "open", "fetching"}
    BY <1>8 DEF LaunchPage
  <2>7. a \notin opened
    BY <2>6 DEF HolderWorks
  <2>8. a \in opened' => pc'[a] = "fetching"
    <3>1. CASE opened = {}
      BY <1>8, <3>1, <2>1 DEF LaunchPage, Goto, TypeOK
    <3>2. CASE opened # {}
      BY <1>8, <3>2, <2>7 DEF LaunchPage
    <3> QED
      BY <3>1, <3>2
  <2>9. a \in Locked => holder = a
    BY <2>6 DEF HolderWorks, Resting
  <2>10. HolderWorks'
    BY <2>1, <2>3, <2>6, <2>8, <2>9, <2>4, HolderStillWorks DEF Resting
  <2>11. CheckIsHeld'
    BY <1>8, <2>1, <2>3, CheckStillHeld DEF LaunchPage, CheckIsHeld, TypeOK
  <2> QED
    BY <2>5, <2>10, <2>11
<1>9. ASSUME NEW a \in Runs, PageDone(a) PROVE TypeOK' /\ HolderWorks' /\ CheckIsHeld'
  <2>1. a \in Actors
    BY ActorsApart DEF Checkers
  <2>2. \E place \in Places : place = "valid" /\ Goto(a, place)
    BY <1>9 DEF PageDone, Places
  <2>3. /\ pc' \in [Actors -> Places] /\ pc'[a] = "valid"
        /\ \A b \in Actors : b # a => pc'[b] = pc[b]
    BY <2>1, <2>2, GotoIs
  <2>4. pc[a] # "idle"
    BY <1>9 DEF PageDone
  <2>5. TypeOK'
    BY <1>9, <1>1, <2>1, <2>3, ActorsApart DEF PageDone, TypeOK, Status
  <2>6. HolderWorks'
    BY <1>9, <2>1, <2>3, <2>4, HolderStillWorks DEF PageDone, HolderWorks, Resting
  <2>7. CheckIsHeld'
    BY <1>9, <2>1, <2>3, CheckStillHeld DEF PageDone, CheckIsHeld, TypeOK
  <2> QED
    BY <2>5, <2>6, <2>7
<1>10. ASSUME NEW a \in Runs, CommitPostings(a) PROVE TypeOK' /\ HolderWorks' /\ CheckIsHeld'
  <2>1. a \in Actors
    BY ActorsApart DEF Checkers
  <2>2. \E place \in Places : place = "committed" /\ Goto(a, place)
    BY <1>10 DEF CommitPostings, Places
  <2>3. /\ pc' \in [Actors -> Places] /\ pc'[a] = "committed"
        /\ \A b \in Actors : b # a => pc'[b] = pc[b]
    BY <2>1, <2>2, GotoIs
  <2>4. TransactionEnds(a)
    BY <1>10 DEF CommitPostings, Committed
  <2>5. /\ writer' \in Actors \cup {Nobody} /\ pending' \in Status /\ loaded' \in [Actors -> Status]
        /\ \A b \in Actors : b # a => loaded'[b] = loaded[b]
        /\ \A b \in Actors : b # a /\ writer = b => writer' = b /\ pending' = pending
    BY <2>1, <2>4, TransactionEndsIs
  <2>6. pc[a] # "idle"
    BY <1>10 DEF CommitPostings
  <2>7. TypeOK'
    BY <1>10, <1>1, <2>1, <2>3, <2>5, ActorsApart DEF CommitPostings, Committed, TypeOK, Status
  <2>8. HolderWorks'
    BY <1>10, <2>1, <2>3, <2>6, HolderStillWorks DEF CommitPostings, Committed, HolderWorks, Resting
  <2>9. CheckIsHeld'
    BY <1>10, <2>1, <2>3, <2>5, CheckStillHeld DEF CommitPostings, Committed, CheckIsHeld, TypeOK
  <2> QED
    BY <2>7, <2>8, <2>9
<1>11. ASSUME NEW a \in Runs, Succeed(a) PROVE TypeOK' /\ HolderWorks' /\ CheckIsHeld'
  <2>1. a \in Actors
    BY ActorsApart DEF Checkers
  <2>2. \E place \in Places : place \in {"succeeded", "idle"} /\ Goto(a, place)
    BY <1>11 DEF Succeed, After, Places
  <2>3. /\ pc' \in [Actors -> Places] /\ pc'[a] \in {"succeeded", "idle"}
        /\ \A b \in Actors : b # a => pc'[b] = pc[b]
    BY <2>1, <2>2, GotoIs
  <2>4. pc[a] # "idle"
    BY <1>11 DEF Succeed
  <2>5. TypeOK'
    BY <1>11, <1>1, <2>1, <2>3, ActorsApart DEF Succeed, After, TypeOK, Status
  <2>6. /\ holder' = Nobody /\ opened' = opened /\ a \in Locked
        /\ pc[a] \notin {"idle", "succeeded", "failed", "open", "fetching"}
    BY <1>11, ActorsApart DEF Succeed
  <2>7. a \notin opened /\ \A b \in Locked : b # a => pc[b] \in Resting
    BY <2>6 DEF HolderWorks, Resting
  <2>8. HolderWorks'
    BY <2>1, <2>3, <2>6, <2>7, <2>4, HolderStillWorks DEF Resting
  <2>9. CheckIsHeld'
    BY <1>11, <2>1, <2>3, CheckStillHeld DEF Succeed, After, CheckIsHeld, TypeOK
  <2> QED
    BY <2>5, <2>8, <2>9
<1>12. ASSUME NEW a \in Runs, EndRefused(a) PROVE TypeOK' /\ HolderWorks' /\ CheckIsHeld'
  <2>1. a \in Actors
    BY ActorsApart DEF Checkers
  <2>2. \E place \in Places : place \in {"failed", "idle"} /\ Goto(a, place)
    BY <1>12 DEF EndRefused, After, Places
  <2>3. /\ pc' \in [Actors -> Places] /\ pc'[a] \in {"failed", "idle"}
        /\ \A b \in Actors : b # a => pc'[b] = pc[b]
    BY <2>1, <2>2, GotoIs
  <2>4. TransactionEnds(a)
    BY <1>12 DEF EndRefused, Committed
  <2>5. /\ writer' \in Actors \cup {Nobody} /\ pending' \in Status /\ loaded' \in [Actors -> Status]
        /\ \A b \in Actors : b # a => loaded'[b] = loaded[b]
        /\ \A b \in Actors : b # a /\ writer = b => writer' = b /\ pending' = pending
    BY <2>1, <2>4, TransactionEndsIs
  <2>6. pc[a] # "idle"
    BY <1>12 DEF EndRefused
  <2>7. TypeOK'
    BY <1>12, <1>1, <2>1, <2>3, <2>5, ActorsApart DEF EndRefused, Committed, After, TypeOK, Status
  <2>8. /\ holder' = Nobody /\ opened' = opened /\ a \in Locked
        /\ pc[a] \notin {"idle", "succeeded", "failed", "open", "fetching"}
    BY <1>12, ActorsApart DEF EndRefused
  <2>9. a \notin opened /\ \A b \in Locked : b # a => pc[b] \in Resting
    BY <2>8 DEF HolderWorks, Resting
  <2>10. HolderWorks'
    BY <2>1, <2>3, <2>8, <2>9, <2>6, HolderStillWorks DEF Resting
  <2>11. CheckIsHeld'
    BY <1>12, <2>1, <2>3, <2>5, CheckStillHeld DEF EndRefused, Committed, After, CheckIsHeld, TypeOK
  <2> QED
    BY <2>7, <2>10, <2>11
<1>13. ASSUME NEW a \in Runs, EndFailed(a) PROVE TypeOK' /\ HolderWorks' /\ CheckIsHeld'
  <2>1. a \in Actors
    BY ActorsApart DEF Checkers
  <2>2. \E place \in Places : place \in {"failed", "idle"} /\ Goto(a, place)
    BY <1>13 DEF EndFailed, After, Places
  <2>3. /\ pc' \in [Actors -> Places] /\ pc'[a] \in {"failed", "idle"}
        /\ \A b \in Actors : b # a => pc'[b] = pc[b]
    BY <2>1, <2>2, GotoIs
  <2>4. TransactionEnds(a)
    BY <1>13 DEF EndFailed, RolledBack
  <2>5. /\ writer' \in Actors \cup {Nobody} /\ pending' \in Status /\ loaded' \in [Actors -> Status]
        /\ \A b \in Actors : b # a => loaded'[b] = loaded[b]
        /\ \A b \in Actors : b # a /\ writer = b => writer' = b /\ pending' = pending
    BY <2>1, <2>4, TransactionEndsIs
  <2>6. faults' \in 0..MaxFaults
    BY <1>13, SessionAssumption DEF EndFailed, Fault, TypeOK
  <2>7. pc[a] # "idle"
    BY <1>13 DEF EndFailed
  <2>8. TypeOK'
    BY <1>13, <1>1, <2>1, <2>3, <2>6, <2>5, ActorsApart DEF EndFailed, RolledBack, After, TypeOK, Status
  <2>9. /\ holder' = Nobody /\ opened' = opened /\ a \in Locked
        /\ pc[a] \notin {"idle", "succeeded", "failed", "open", "fetching"}
    BY <1>13, ActorsApart DEF EndFailed
  <2>10. a \notin opened /\ \A b \in Locked : b # a => pc[b] \in Resting
    BY <2>9 DEF HolderWorks, Resting
  <2>11. HolderWorks'
    BY <2>1, <2>3, <2>9, <2>10, <2>7, HolderStillWorks DEF Resting
  <2>12. CheckIsHeld'
    BY <1>13, <2>1, <2>3, <2>5, CheckStillHeld DEF EndFailed, RolledBack, After, CheckIsHeld, TypeOK
  <2> QED
    BY <2>8, <2>11, <2>12
<1>14. ASSUME NEW a \in Logins, SignIn(a) PROVE TypeOK' /\ HolderWorks' /\ CheckIsHeld'
  <2>1. a \in Actors
    BY ActorsApart DEF Checkers
  <2>2. \E place \in Places : place = "signedIn" /\ Goto(a, place)
    BY <1>14 DEF SignIn, Places
  <2>3. /\ pc' \in [Actors -> Places] /\ pc'[a] = "signedIn"
        /\ \A b \in Actors : b # a => pc'[b] = pc[b]
    BY <2>1, <2>2, GotoIs
  <2>4. pc[a] # "idle"
    BY <1>14 DEF SignIn
  <2>5. TypeOK'
    BY <1>14, <1>1, <2>1, <2>3, ActorsApart DEF SignIn, TypeOK, Status
  <2>6. HolderWorks'
    BY <1>14, <2>1, <2>3, <2>4, HolderStillWorks DEF SignIn, HolderWorks, Resting
  <2>7. CheckIsHeld'
    BY <1>14, <2>1, <2>3, CheckStillHeld DEF SignIn, CheckIsHeld, TypeOK
  <2> QED
    BY <2>5, <2>6, <2>7
<1>15. ASSUME NEW a \in Logins, LoginTimeout(a) PROVE TypeOK' /\ HolderWorks' /\ CheckIsHeld'
  <2>1. a \in Actors
    BY ActorsApart DEF Checkers
  <2>2. \E place \in Places : place = "error" /\ Goto(a, place)
    BY <1>15 DEF LoginTimeout, Places
  <2>3. /\ pc' \in [Actors -> Places] /\ pc'[a] = "error"
        /\ \A b \in Actors : b # a => pc'[b] = pc[b]
    BY <2>1, <2>2, GotoIs
  <2>4. pc[a] # "idle"
    BY <1>15 DEF LoginTimeout
  <2>5. TypeOK'
    BY <1>15, <1>1, <2>1, <2>3, ActorsApart DEF LoginTimeout, TypeOK, Status
  <2>6. HolderWorks'
    BY <1>15, <2>1, <2>3, <2>4, HolderStillWorks DEF LoginTimeout, HolderWorks, Resting
  <2>7. CheckIsHeld'
    BY <1>15, <2>1, <2>3, CheckStillHeld DEF LoginTimeout, CheckIsHeld, TypeOK
  <2> QED
    BY <2>5, <2>6, <2>7
<1>16. ASSUME NEW a \in Logins, Mark(a) PROVE TypeOK' /\ HolderWorks' /\ CheckIsHeld'
  <2>1. a \in Actors
    BY ActorsApart DEF Checkers
  <2>2. \E place \in Places : place = "accepted" /\ Goto(a, place)
    BY <1>16 DEF Mark, Places
  <2>3. /\ pc' \in [Actors -> Places] /\ pc'[a] = "accepted"
        /\ \A b \in Actors : b # a => pc'[b] = pc[b]
    BY <2>1, <2>2, GotoIs
  <2>4. pc[a] # "idle"
    BY <1>16 DEF Mark
  <2>5. TypeOK'
    BY <1>16, <1>1, <2>1, <2>3, ActorsApart DEF Mark, TypeOK, Status
  <2>6. HolderWorks'
    BY <1>16, <2>1, <2>3, <2>4, HolderStillWorks DEF Mark, HolderWorks, Resting
  <2>7. /\ \A b \in Actors : b # a => loaded'[b] = loaded[b]
        /\ \A b \in Actors : b # a /\ writer = b => writer' = b /\ pending' = pending
        /\ (profile => profile') /\ a \notin Runs
    BY <1>16, <2>1, ActorsApart DEF Mark, TypeOK
  <2>8. CheckIsHeld'
    BY <2>7, <2>1, <2>3, CheckStillHeld
  <2> QED
    BY <2>5, <2>6, <2>8
<1>17. ASSUME NEW a \in Logins, EndLogin(a) PROVE TypeOK' /\ HolderWorks' /\ CheckIsHeld'
  <2>1. a \in Actors
    BY ActorsApart DEF Checkers
  <2>2. \E place \in Places : place = "idle" /\ Goto(a, place)
    BY <1>17 DEF EndLogin, Places
  <2>3. /\ pc' \in [Actors -> Places] /\ pc'[a] = "idle"
        /\ \A b \in Actors : b # a => pc'[b] = pc[b]
    BY <2>1, <2>2, GotoIs
  <2>4. TransactionEnds(a)
    BY <1>17 DEF EndLogin, Committed
  <2>5. /\ writer' \in Actors \cup {Nobody} /\ pending' \in Status /\ loaded' \in [Actors -> Status]
        /\ \A b \in Actors : b # a => loaded'[b] = loaded[b]
        /\ \A b \in Actors : b # a /\ writer = b => writer' = b /\ pending' = pending
    BY <2>1, <2>4, TransactionEndsIs
  <2>6. pc[a] # "idle"
    BY <1>17 DEF EndLogin
  <2>7. TypeOK'
    BY <1>17, <1>1, <2>1, <2>3, <2>5, ActorsApart DEF EndLogin, Committed, TypeOK, Status
  <2>8. /\ holder' = Nobody /\ opened' = opened /\ a \in Locked
        /\ pc[a] \notin {"idle", "succeeded", "failed", "open", "fetching"}
    BY <1>17, ActorsApart DEF EndLogin
  <2>9. a \notin opened /\ \A b \in Locked : b # a => pc[b] \in Resting
    BY <2>8 DEF HolderWorks, Resting
  <2>10. HolderWorks'
    BY <2>1, <2>3, <2>8, <2>9, <2>6, HolderStillWorks DEF Resting
  <2>11. CheckIsHeld'
    BY <1>17, <2>1, <2>3, <2>5, CheckStillHeld DEF EndLogin, Committed, CheckIsHeld, TypeOK
  <2> QED
    BY <2>7, <2>10, <2>11
<1>18. CASE Succeeded
  <2>1. Scheduled \in Actors
    BY ActorsApart DEF Checkers
  <2>2. \E place \in Places : place = "idle" /\ Goto(Scheduled, place)
    BY <1>18 DEF Succeeded, Places
  <2>3. /\ pc' \in [Actors -> Places] /\ pc'[Scheduled] = "idle"
        /\ \A b \in Actors : b # Scheduled => pc'[b] = pc[b]
    BY <2>1, <2>2, GotoIs
  <2>4. pc[Scheduled] # "idle"
    BY <1>18 DEF Succeeded
  <2>5. TypeOK'
    BY <1>18, <1>1, <2>1, <2>3, ActorsApart DEF Succeeded, TypeOK, Status
  <2>6. HolderWorks'
    BY <1>18, <2>1, <2>3, <2>4, HolderStillWorks DEF Succeeded, HolderWorks, Resting
  <2>7. CheckIsHeld'
    BY <1>18, <2>1, <2>3, CheckStillHeld DEF Succeeded, CheckIsHeld, TypeOK
  <2> QED
    BY <2>5, <2>6, <2>7
<1>19. CASE Refused
  <2>1. Recheck \in Actors
    BY ActorsApart DEF Checkers
  <2>2. \E place \in Places : place = "announce" /\ Goto(Recheck, place)
    BY <1>19 DEF Refused, Places
  <2>3. /\ pc' \in [Actors -> Places] /\ pc'[Recheck] = "announce"
        /\ \A b \in Actors : b # Recheck => pc'[b] = pc[b]
    BY <2>1, <2>2, GotoIs
  <2>4. TransactionEnds(Recheck)
    BY <1>19 DEF Refused, Committed
  <2>5. /\ writer' \in Actors \cup {Nobody} /\ pending' \in Status /\ loaded' \in [Actors -> Status]
        /\ \A b \in Actors : b # Recheck => loaded'[b] = loaded[b]
        /\ \A b \in Actors : b # Recheck /\ writer = b => writer' = b /\ pending' = pending
    BY <2>1, <2>4, TransactionEndsIs
  <2>6. pc[Recheck] # "idle"
    BY <1>19 DEF Refused
  <2>7. TypeOK'
    BY <1>19, <1>1, <2>1, <2>3, <2>5, ActorsApart DEF Refused, Committed, TypeOK, Status
  <2>8. HolderWorks'
    BY <1>19, <2>1, <2>3, <2>6, HolderStillWorks DEF Refused, Committed, HolderWorks, Resting
  <2>9. CheckIsHeld'
    BY <1>19, <2>1, <2>3, <2>5, CheckStillHeld DEF Refused, Committed, CheckIsHeld, TypeOK
  <2> QED
    BY <2>7, <2>8, <2>9
<1>20. CASE WriteAlert
  <2>1. Recheck \in Actors
    BY ActorsApart DEF Checkers
  <2>2. \E place \in Places : place = "idle" /\ Goto(Recheck, place)
    BY <1>20 DEF WriteAlert, Places
  <2>3. /\ pc' \in [Actors -> Places] /\ pc'[Recheck] = "idle"
        /\ \A b \in Actors : b # Recheck => pc'[b] = pc[b]
    BY <2>1, <2>2, GotoIs
  <2>4. faults' \in 0..MaxFaults
    BY <1>20, SessionAssumption DEF WriteAlert, Fault, TypeOK
  <2>5. pc[Recheck] # "idle"
    BY <1>20 DEF WriteAlert
  <2>6. TypeOK'
    BY <1>20, <1>1, <2>1, <2>3, <2>4, ActorsApart DEF WriteAlert, TypeOK, Status
  <2>7. HolderWorks'
    BY <1>20, <2>1, <2>3, <2>5, HolderStillWorks DEF WriteAlert, HolderWorks, Resting
  <2>8. CheckIsHeld'
    BY <1>20, <2>1, <2>3, CheckStillHeld DEF WriteAlert, CheckIsHeld, TypeOK
  <2> QED
    BY <2>6, <2>7, <2>8
<1>21. CASE Reassured
  <2>1. Recheck \in Actors
    BY ActorsApart DEF Checkers
  <2>2. \E place \in Places : place = "idle" /\ Goto(Recheck, place)
    BY <1>21 DEF Reassured, Places
  <2>3. /\ pc' \in [Actors -> Places] /\ pc'[Recheck] = "idle"
        /\ \A b \in Actors : b # Recheck => pc'[b] = pc[b]
    BY <2>1, <2>2, GotoIs
  <2>4. TransactionEnds(Recheck)
    BY <1>21 DEF Reassured, RolledBack
  <2>5. /\ writer' \in Actors \cup {Nobody} /\ pending' \in Status /\ loaded' \in [Actors -> Status]
        /\ \A b \in Actors : b # Recheck => loaded'[b] = loaded[b]
        /\ \A b \in Actors : b # Recheck /\ writer = b => writer' = b /\ pending' = pending
    BY <2>1, <2>4, TransactionEndsIs
  <2>6. pc[Recheck] # "idle"
    BY <1>21 DEF Reassured
  <2>7. TypeOK'
    BY <1>21, <1>1, <2>1, <2>3, <2>5, ActorsApart DEF Reassured, RolledBack, TypeOK, Status
  <2>8. HolderWorks'
    BY <1>21, <2>1, <2>3, <2>6, HolderStillWorks DEF Reassured, RolledBack, HolderWorks, Resting
  <2>9. CheckIsHeld'
    BY <1>21, <2>1, <2>3, <2>5, CheckStillHeld DEF Reassured, RolledBack, CheckIsHeld, TypeOK
  <2> QED
    BY <2>7, <2>8, <2>9
<1>22. CASE Unanswered
  <2>1. Recheck \in Actors
    BY ActorsApart DEF Checkers
  <2>2. \E place \in Places : place = "idle" /\ Goto(Recheck, place)
    BY <1>22 DEF Unanswered, Places
  <2>3. /\ pc' \in [Actors -> Places] /\ pc'[Recheck] = "idle"
        /\ \A b \in Actors : b # Recheck => pc'[b] = pc[b]
    BY <2>1, <2>2, GotoIs
  <2>4. TransactionEnds(Recheck)
    BY <1>22 DEF Unanswered, RolledBack
  <2>5. /\ writer' \in Actors \cup {Nobody} /\ pending' \in Status /\ loaded' \in [Actors -> Status]
        /\ \A b \in Actors : b # Recheck => loaded'[b] = loaded[b]
        /\ \A b \in Actors : b # Recheck /\ writer = b => writer' = b /\ pending' = pending
    BY <2>1, <2>4, TransactionEndsIs
  <2>6. pc[Recheck] # "idle"
    BY <1>22 DEF Unanswered
  <2>7. TypeOK'
    BY <1>22, <1>1, <2>1, <2>3, <2>5, ActorsApart DEF Unanswered, RolledBack, TypeOK, Status
  <2>8. HolderWorks'
    BY <1>22, <2>1, <2>3, <2>6, HolderStillWorks DEF Unanswered, RolledBack, HolderWorks, Resting
  <2>9. CheckIsHeld'
    BY <1>22, <2>1, <2>3, <2>5, CheckStillHeld DEF Unanswered, RolledBack, CheckIsHeld, TypeOK
  <2> QED
    BY <2>7, <2>8, <2>9
<1>23. CASE Failed
  <2>1. /\ pc' \in [Actors -> Places] /\ pc[Scheduled] = "failed"
        /\ pc'[Scheduled] = "idle" /\ pc'[Recheck] = "ready"
        /\ \A b \in Actors : b # Scheduled /\ b # Recheck => pc'[b] = pc[b]
    BY <1>23, ActorsApart, SessionAssumption DEF Failed, TypeOK, Places
  <2>2. UNCHANGED <<holder, loggedIn, profile, row, writer, pending, loaded, opened, faults, alert>>
    BY <1>23 DEF Failed
  <2>3. TypeOK'
    BY <2>1, <2>2 DEF TypeOK
  <2>4. \A a \in Locked : pc'[a] \notin Resting => holder' = a
    BY <2>1, <2>2, ActorsApart DEF HolderWorks, Resting
  <2>5. (pc[Scheduled] # "idle" => pc[Recheck] = "idle")'
    BY <2>1
  <2>6. \A a \in opened' : pc'[a] \in {"open", "fetching"}
    <3>1. Recheck \notin opened
      BY <1>23 DEF Failed, HolderWorks
    <3> QED
      BY <2>1, <2>2, <3>1 DEF HolderWorks, TypeOK
  <2>7. CheckIsHeld'
    BY <2>1, <2>2, ActorsApart DEF CheckIsHeld
  <2> QED
    BY <2>3, <2>4, <2>6, <2>7, <2>5 DEF HolderWorks
<1>24. CASE SessionEnds
  BY <1>24 DEF SessionEnds, TypeOK, HolderWorks, CheckIsHeld
<1>25. CASE Crash
  <2>1. /\ pc' \in [Actors -> Places] /\ \A a \in Actors : pc'[a] = "idle"
        /\ loaded' \in [Actors -> Status] /\ opened' = {} /\ writer' = Nobody /\ pending' = "none"
    BY <1>25 DEF Crash, Places, Status
  <2>2. faults' \in 0..MaxFaults
    BY <1>25, SessionAssumption DEF Crash, Fault, TypeOK
  <2>3. TypeOK'
    BY <1>25, <2>1, <2>2 DEF Crash, TypeOK, Status
  <2>4. HolderWorks' /\ CheckIsHeld'
    BY <2>1, ActorsApart DEF HolderWorks, CheckIsHeld, Resting
  <2> QED
    BY <2>3, <2>4
<1>26. CASE LeaseEnds
  <2>1. \A a \in Locked : pc[a] \in Resting
    BY <1>26 DEF LeaseEnds, HolderWorks, Resting
  <2> QED
    BY <1>26, <2>1 DEF LeaseEnds, TypeOK, HolderWorks, CheckIsHeld
<1>27. CASE UNCHANGED vars
  BY <1>27 DEF vars, TypeOK, HolderWorks, CheckIsHeld
<1>28. ASSUME NEW a \in Runs, Run(a) PROVE TypeOK' /\ HolderWorks' /\ CheckIsHeld'
  BY <1>3, <1>4, <1>5, <1>6, <1>7, <1>8, <1>9, <1>10, <1>11, <1>12, <1>13, <1>28, ActorsApart
  DEF Run, Check, Checkers
<1>29. ASSUME NEW a \in Logins, Login(a) PROVE TypeOK' /\ HolderWorks' /\ CheckIsHeld'
  BY <1>4, <1>6, <1>14, <1>15, <1>16, <1>17, <1>29, ActorsApart DEF Login
<1>30. CASE Trigger
  BY <1>3, <1>4, <1>5, <1>6, <1>18, <1>19, <1>20, <1>21, <1>22, <1>23, <1>30, ActorsApart
  DEF Trigger, Check, Checkers
<1> QED
  BY <1>2, <1>24, <1>25, <1>26, <1>27, <1>28, <1>29, <1>30 DEF Next

LEMMA InvariantAlways == Spec => []Invariant
  BY InvariantInit, InvariantStep, PTL DEF Spec

-----------------------------------------------------------------------------
(* NFR-11: runs and logins of an account come to work and to the profile one   *)
(* at a time, and the one that does has the lock.                              *)
THEOREM LockGuardsProfile == Spec => []WorkIsUnderLock
<1>1. Invariant => WorkIsUnderLock
  <2> SUFFICES ASSUME Invariant PROVE WorkIsUnderLock
    OBVIOUS
  <2>1. ASSUME NEW a \in Locked, AtProfile(a), NEW b \in opened, b # Recheck PROVE b = a
    <3>1. b \in Locked /\ pc[b] \in {"open", "fetching"}
      BY <2>1, ActorsApart DEF Invariant, TypeOK, HolderWorks
    <3> QED
      BY <2>1, <3>1 DEF Invariant, HolderWorks, AtProfile, Resting
  <2> QED
    BY <2>1 DEF Invariant, HolderWorks, WorkIsUnderLock, Resting
<1> QED
  BY <1>1, InvariantAlways, PTL

(* A run collects only with an acceptance of LinkedIn written or confirmed in  *)
(* its own transaction, which nobody else can change.                          *)
THEOREM CollectingWasAccepted == Spec => []CollectsOnlyWhenAccepted
<1>1. Invariant => CollectsOnlyWhenAccepted
  BY DEF Invariant, CheckIsHeld, CollectsOnlyWhenAccepted
<1> QED
  BY <1>1, InvariantAlways, PTL
=============================================================================
