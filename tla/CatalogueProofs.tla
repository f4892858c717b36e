-------------------------- MODULE CatalogueProofs ---------------------------
(***************************************************************************)
(* Proofs about Catalogue, for any number of accounts, companies and jobs. *)
(***************************************************************************)
EXTENDS Catalogue, TLAPS

(* The company a row refers to, if it is not one itself. *)
Referred(key) ==
  <<"company", IF key[1] = "posting" THEN CompanyOf[key[2]] ELSE key[2]>>

(* What is committed stands by itself, whichever runs fail. *)
RowsStand == \A key \in rows : Referred(key) \in rows

(* And so does what a run has written or is about to, with what is committed. *)
WritesStand ==
  \A a \in Accounts :
    /\ \A key \in written[a] : Referred(key) \in rows \cup written[a]
    /\ op[a] # None /\ op[a].key[1] # "company" => Referred(op[a].key) \in rows \cup written[a]

(* The company of a posting still to be written is one still to be looked for, *)
(* the one about to be created, or there.                                      *)
CompaniesComeFirst ==
  \A a \in Accounts : phase[a] = "companies" =>
    \A j \in todo[a] \cap Jobs :
      \/ CompanyOf[j] \in todo[a]
      \/ op[a] # None /\ op[a].key = <<"company", CompanyOf[j]>>
      \/ <<"company", CompanyOf[j]>> \in rows \cup written[a]

(* A run asks for scores of companies that are there, and it has not asked for *)
(* one of them before.                                                         *)
Scoring == {"scores", "backfill"}
AskedOnce ==
  \A a \in Accounts :
    /\ phase[a] = "companies" => cache[a] = NoScore
    /\ phase[a] \in Scoring =>
         \A c \in todo[a] : c \in Companies /\ <<"company", c>> \in rows /\ cache[a][c] = None

Invariant ==
  TypeOK /\ RowsStand /\ WritesStand /\ CompaniesComeFirst /\ AskedOnce /\ UsedScoreIsFresh

-----------------------------------------------------------------------------
(* Keys: what they are, and what they refer to.                                *)
LEMMA KeysAre ==
  /\ \A c \in Companies :
       /\ <<"company", c>> \in Key /\ <<"score", c>> \in Key
       /\ Referred(<<"company", c>>) = <<"company", c>>
       /\ Referred(<<"score", c>>) = <<"company", c>>
  /\ \A j \in Jobs :
       /\ <<"posting", j>> \in Key
       /\ Referred(<<"posting", j>>) = <<"company", CompanyOf[j]>>
BY DEF Key, Referred

LEMMA CompanyKeyStands ==
  \A key \in Key : key[1] = "company" => Referred(key) = key
BY DEF Key, Referred

(* The scores a run reads. *)
LEMMA StoredIs ==
  ASSUME TypeOK, NEW a \in Accounts, NEW c \in Companies
  PROVE  Stored(a, c) \in Score \cup {None}
BY DEF TypeOK, Stored

LEMMA InvariantInit == Init => Invariant
<1>. SUFFICES ASSUME Init
              PROVE  Invariant
  OBVIOUS
<1>1. NoScore \in [Companies -> Score \cup {None}]
  BY DEF NoScore
<1>2. /\ today \in Day /\ faults \in 0..MaxFaults /\ now \in [Accounts -> Day]
  BY CatalogueAssumption DEF Init, Day
<1>3. TypeOK
  BY <1>1, <1>2 DEF Init, TypeOK, Phases
<1>4. RowsStand /\ WritesStand /\ CompaniesComeFirst /\ AskedOnce /\ UsedScoreIsFresh
  BY DEF Init, RowsStand, WritesStand, CompaniesComeFirst, AskedOnce, Scoring, UsedScoreIsFresh
<1>. QED  BY <1>3, <1>4 DEF Invariant

-----------------------------------------------------------------------------
(* One lemma for each action of a run.                                         *)
LEMMA BeginKeeps ==
  ASSUME Invariant, NEW a \in Accounts, Begin(a)
  PROVE  Invariant'
<1>. USE DEF Invariant
<1>1. PICK jobs \in SUBSET Jobs :
        todo' = [todo EXCEPT ![a] = {CompanyOf[j] : j \in jobs} \cup jobs]
  BY DEF Begin
<1>2. {CompanyOf[j] : j \in jobs} \subseteq Companies
  BY CatalogueAssumption
<1>3. /\ phase[a] = "idle" /\ phase' = [phase EXCEPT ![a] = "companies"]
      /\ now' = [now EXCEPT ![a] = today]
      /\ UNCHANGED <<today, rows, scores, op, written, cache, ended, faults>>
      /\ op[a] = None /\ written[a] = {} /\ cache[a] = NoScore
  BY DEF Begin, TypeOK
<1>4. TypeOK'
  BY <1>1, <1>2, <1>3 DEF TypeOK, Phases
<1>5. RowsStand' /\ WritesStand'
  BY <1>3 DEF RowsStand, WritesStand
<1>6. CompaniesComeFirst'
  <2>1. \A b \in Accounts \ {a} : todo'[b] = todo[b] /\ phase'[b] = phase[b]
    BY <1>1, <1>3 DEF TypeOK
  <2>2. \A j \in todo'[a] \cap Jobs : CompanyOf[j] \in todo'[a]
    BY <1>1, <1>2, CatalogueAssumption DEF TypeOK
  <2>. QED  BY <1>3, <2>1, <2>2 DEF CompaniesComeFirst
<1>7. AskedOnce'
  BY <1>1, <1>3 DEF AskedOnce, Scoring, TypeOK
<1>8. UsedScoreIsFresh'
  BY <1>3 DEF UsedScoreIsFresh, TypeOK, NoScore
<1>. QED  BY <1>4, <1>5, <1>6, <1>7, <1>8

LEMMA NextWriteKeeps ==
  ASSUME Invariant, NEW a \in Accounts, NextWrite(a)
  PROVE  Invariant'
<1>. USE DEF Invariant
<1>1. PICK x \in todo[a] :
        LET key == <<IF x \in Jobs THEN "posting" ELSE "company", x>>
        IN /\ x \in Jobs => todo[a] \subseteq Jobs
           /\ todo' = [todo EXCEPT ![a] = @ \ {x}]
           /\ op' = [op EXCEPT ![a] = IF Visible(a, key) /\ x \notin Jobs THEN None
                                      ELSE [key |-> key, insert |-> ~Visible(a, key)]]
  BY DEF NextWrite
<1>. DEFINE key == <<IF x \in Jobs THEN "posting" ELSE "company", x>>
<1>2. /\ op[a] = None /\ phase[a] = "companies"
      /\ UNCHANGED <<today, rows, scores, phase, now, written, cache, ended, faults>>
  BY DEF NextWrite
<1>3. /\ x \in Jobs => todo[a] \subseteq Jobs
      /\ todo' = [todo EXCEPT ![a] = @ \ {x}]
      /\ op' = [op EXCEPT ![a] = IF Visible(a, key) /\ x \notin Jobs THEN None
                                 ELSE [key |-> key, insert |-> ~Visible(a, key)]]
  BY <1>1
<1>4. x \in Companies \cup Jobs /\ key \in Key
  BY KeysAre DEF TypeOK
<1>5. /\ \/ op'[a] = None /\ x \notin Jobs /\ key \in rows \cup written[a]
         \/ op'[a] \in Op /\ op'[a].key = key /\ op'[a] # None
      /\ todo'[a] = todo[a] \ {x}
  <2>1. Visible(a, key) \in BOOLEAN
    BY DEF Visible
  <2>2. [key |-> key, insert |-> ~Visible(a, key)] \in Op
    BY <1>4, <2>1 DEF Op
  <2>. QED  BY <1>3, <2>2, NoneAssumption DEF Visible, TypeOK
<1>6. \A b \in Accounts \ {a} : todo'[b] = todo[b] /\ op'[b] = op[b]
  BY <1>3 DEF TypeOK
<1>7. TypeOK'
  <2>1. op' \in [Accounts -> Op \cup {None}]
    BY <1>3, <1>5, <1>6 DEF TypeOK
  <2>2. todo' \in [Accounts -> SUBSET (Companies \cup Jobs)]
    BY <1>3 DEF TypeOK
  <2>. QED  BY <1>2, <1>6, <2>1, <2>2 DEF TypeOK
<1>8. RowsStand'
  BY <1>2 DEF RowsStand
<1>9. x \in Jobs => Referred(key) \in rows \cup written[a]
  <2>. SUFFICES ASSUME x \in Jobs
                PROVE  <<"company", CompanyOf[x]>> \in rows \cup written[a]
    BY KeysAre
  <2>1. CompanyOf[x] \notin todo[a]
    BY <1>3, CatalogueAssumption
  <2>. QED  BY <1>2, <2>1 DEF CompaniesComeFirst
<1>10. WritesStand'
  <2>1. ASSUME op'[a] # None, op'[a].key[1] # "company"
        PROVE  Referred(op'[a].key) \in rows \cup written[a]
    BY <1>5, <1>9, <2>1
  <2>. QED  BY <1>2, <1>6, <2>1 DEF WritesStand
<1>11. CompaniesComeFirst'
  <2>1. ASSUME NEW j \in todo'[a] \cap Jobs
        PROVE  \/ CompanyOf[j] \in todo'[a]
               \/ op'[a] # None /\ op'[a].key = <<"company", CompanyOf[j]>>
               \/ <<"company", CompanyOf[j]>> \in rows \cup written[a]
    <3>1. \/ CompanyOf[j] \in todo[a]
          \/ <<"company", CompanyOf[j]>> \in rows \cup written[a]
      BY <1>2, <1>5 DEF CompaniesComeFirst
    <3>2. CASE CompanyOf[j] = x
      <4>1. x \notin Jobs
        BY <3>2, CatalogueAssumption
      <4>. QED  BY <1>5, <3>2, <4>1
    <3>3. CASE CompanyOf[j] # x
      BY <1>5, <3>1, <3>3
    <3>. QED  BY <3>2, <3>3
  <2>. QED  BY <1>2, <1>6, <2>1 DEF CompaniesComeFirst
<1>12. AskedOnce'
  BY <1>2, <1>6 DEF AskedOnce, Scoring
<1>13. UsedScoreIsFresh'
  BY <1>2 DEF UsedScoreIsFresh
<1>. QED  BY <1>7, <1>8, <1>10, <1>11, <1>12, <1>13

LEMMA NextScoreKeeps ==
  ASSUME Invariant, NEW a \in Accounts, NextScore(a)
  PROVE  /\ Invariant'
         /\ \A c \in Companies : cache[a][c] # None => cache'[a][c] = cache[a][c]
<1>. USE DEF Invariant
<1>1. PICK c \in todo[a] :
        LET fresh == IsFresh(a, Stored(a, c))
        IN /\ todo' = [todo EXCEPT ![a] = @ \ {c}]
           /\ cache' = [cache EXCEPT ![a][c] =
                         IF fresh THEN Stored(a, c) ELSE [weights |-> WeightsOf[a], at |-> now[a]]]
           /\ op' = [op EXCEPT ![a] =
                      IF fresh THEN None
                      ELSE [key |-> <<"score", c>>, insert |-> Stored(a, c) = None]]
  BY DEF NextScore
<1>. DEFINE new == [weights |-> WeightsOf[a], at |-> now[a]]
            score == IF IsFresh(a, Stored(a, c)) THEN Stored(a, c) ELSE new
<1>2. /\ op[a] = None /\ phase[a] \in Scoring
      /\ UNCHANGED <<today, rows, scores, phase, now, written, ended, faults>>
  BY DEF NextScore, Scoring
<1>3. c \in Companies /\ <<"company", c>> \in rows /\ cache[a][c] = None
  BY <1>2 DEF AskedOnce
<1>4. /\ score \in Score \cup {None}
      /\ score # None => now[a] <= score.at + Window
  <2>1. CASE IsFresh(a, Stored(a, c))
    BY <1>3, <2>1, StoredIs DEF IsFresh
  <2>2. CASE ~IsFresh(a, Stored(a, c))
    <3>1. now[a] \in Day /\ now[a] \in Nat
      BY DEF TypeOK, Day
    <3>2. new \in Score /\ new.at = now[a]
      BY <3>1 DEF Score
    <3>3. now[a] <= new.at + Window
      BY <3>1, <3>2, CatalogueAssumption
    <3>. QED  BY <2>2, <3>2, <3>3
  <2>. QED  BY <2>1, <2>2
<1>5. /\ cache' = [cache EXCEPT ![a][c] = score]
      /\ todo' = [todo EXCEPT ![a] = @ \ {c}]
  BY <1>1
<1>6. /\ todo'[a] = todo[a] \ {c}
      /\ cache'[a][c] = score
      /\ \A d \in Companies \ {c} : cache'[a][d] = cache[a][d]
      /\ cache'[a] \in [Companies -> Score \cup {None}]
  BY <1>3, <1>4, <1>5 DEF TypeOK
<1>7. op'[a] = None \/ (op'[a] \in Op /\ op'[a].key = <<"score", c>>)
  <2>1. (Stored(a, c) = None) \in BOOLEAN
    OBVIOUS
  <2>2. [key |-> <<"score", c>>, insert |-> Stored(a, c) = None] \in Op
    BY <1>3, <2>1, KeysAre DEF Op
  <2>. QED  BY <1>1, <2>2 DEF TypeOK
<1>8. \A b \in Accounts \ {a} : todo'[b] = todo[b] /\ op'[b] = op[b] /\ cache'[b] = cache[b]
  BY <1>1, <1>5 DEF TypeOK
<1>9. TypeOK'
  <2>1. op' \in [Accounts -> Op \cup {None}]
    BY <1>1, <1>7, <1>8 DEF TypeOK
  <2>2. todo' \in [Accounts -> SUBSET (Companies \cup Jobs)]
    BY <1>5 DEF TypeOK
  <2>3. cache' \in [Accounts -> [Companies -> Score \cup {None}]]
    BY <1>5, <1>6, <1>8 DEF TypeOK
  <2>4. \A b \in Accounts : phase'[b] = "idle" =>
          todo'[b] = {} /\ op'[b] = None /\ written'[b] = {} /\ cache'[b] = NoScore
    BY <1>2, <1>8 DEF TypeOK, Scoring
  <2>. QED  BY <1>2, <2>1, <2>2, <2>3, <2>4 DEF TypeOK
<1>10. RowsStand'
  BY <1>2 DEF RowsStand
<1>11. WritesStand'
  <2>1. op'[a] # None => Referred(op'[a].key) \in rows
    BY <1>3, <1>7, KeysAre
  <2>. QED  BY <1>2, <1>8, <2>1 DEF WritesStand
<1>12. CompaniesComeFirst'
  BY <1>2, <1>8 DEF CompaniesComeFirst, Scoring
<1>13. AskedOnce'
  <2>1. \A d \in todo'[a] : d \in Companies /\ <<"company", d>> \in rows /\ cache'[a][d] = None
    BY <1>2, <1>6 DEF AskedOnce
  <2>. QED  BY <1>2, <1>8, <2>1 DEF AskedOnce, Scoring
<1>14. UsedScoreIsFresh'
  <2>1. \A d \in Companies : cache'[a][d] # None => now[a] <= cache'[a][d].at + Window
    BY <1>2, <1>4, <1>6 DEF UsedScoreIsFresh, Scoring
  <2>. QED  BY <1>2, <1>8, <2>1 DEF UsedScoreIsFresh
<1>15. \A d \in Companies : cache[a][d] # None => cache'[a][d] = cache[a][d]
  BY <1>3, <1>6
<1>. QED  BY <1>9, <1>10, <1>11, <1>12, <1>13, <1>14, <1>15

LEMMA WriteKeeps ==
  ASSUME Invariant, NEW a \in Accounts, Write(a)
  PROVE  Invariant'
<1>. USE DEF Invariant
<1>1. /\ op[a] # None
      /\ written' = [written EXCEPT ![a] = @ \cup {op[a].key}]
      /\ op' = [op EXCEPT ![a] = None]
      /\ UNCHANGED <<today, rows, scores, phase, now, todo, cache, ended, faults>>
  BY DEF Write
<1>2. op[a].key \in Key
  BY <1>1 DEF TypeOK, Op
<1>3. /\ written'[a] = written[a] \cup {op[a].key} /\ op'[a] = None
      /\ \A b \in Accounts \ {a} : written'[b] = written[b] /\ op'[b] = op[b]
  BY <1>1 DEF TypeOK
<1>4. TypeOK'
  <2>1. phase[a] # "idle"
    BY <1>1 DEF TypeOK
  <2>. QED  BY <1>1, <1>2, <1>3, <2>1 DEF TypeOK
<1>5. RowsStand'
  BY <1>1 DEF RowsStand
<1>6. WritesStand'
  <2>1. Referred(op[a].key) \in rows \cup written'[a]
    <3>1. CASE op[a].key[1] = "company"
      BY <1>2, <1>3, <3>1, CompanyKeyStands
    <3>2. CASE op[a].key[1] # "company"
      BY <1>1, <1>3, <3>2 DEF WritesStand
    <3>. QED  BY <3>1, <3>2
  <2>. QED  BY <1>1, <1>3, <2>1 DEF WritesStand
<1>7. CompaniesComeFirst'
  BY <1>1, <1>3 DEF CompaniesComeFirst
<1>8. AskedOnce' /\ UsedScoreIsFresh'
  BY <1>1 DEF AskedOnce, Scoring, UsedScoreIsFresh
<1>. QED  BY <1>4, <1>5, <1>6, <1>7, <1>8

LEMMA CommitKeeps ==
  ASSUME Invariant, NEW a \in Accounts, Commit(a)
  PROVE  /\ Invariant'
         /\ phase'[a] # "idle" => cache' = cache
<1>. USE DEF Invariant
<1>. DEFINE known == {c \in Companies : <<"company", c>> \in rows'}
<1>1. /\ phase[a] # "idle" /\ todo[a] = {} /\ op[a] = None
      /\ rows' = rows \cup written[a]
      /\ scores' = [c \in Companies |-> Stored(a, c)]
      /\ written' = [written EXCEPT ![a] = {}]
      /\ UNCHANGED <<today, now, op, faults>>
  BY DEF Commit
<1>2. \/ /\ phase[a] = "companies" /\ phase' = [phase EXCEPT ![a] = "scores"]
         /\ \E cs \in SUBSET known : todo' = [todo EXCEPT ![a] = cs]
         /\ UNCHANGED <<cache, ended>>
      \/ /\ phase[a] = "scores" /\ phase' = [phase EXCEPT ![a] = "backfill"]
         /\ \E cs \in SUBSET (known \cap Backfill(a)) : todo' = [todo EXCEPT ![a] = cs]
         /\ UNCHANGED <<cache, ended>>
      \/ /\ phase[a] = "backfill" /\ phase' = [phase EXCEPT ![a] = "idle"]
         /\ cache' = [cache EXCEPT ![a] = NoScore]
         /\ ended' = [ended EXCEPT ![a] = "done"]
         /\ UNCHANGED todo
  BY DEF Commit
<1>3. \A b \in Accounts \ {a} :
        /\ phase'[b] = phase[b] /\ todo'[b] = todo[b]
        /\ cache'[b] = cache[b] /\ written'[b] = written[b]
  BY <1>1, <1>2 DEF TypeOK
<1>4. /\ written'[a] = {}
      /\ phase'[a] = "idle" => todo'[a] = {} /\ cache'[a] = NoScore
      /\ phase'[a] # "idle" => phase'[a] \in Scoring /\ cache' = cache
      /\ phase'[a] \in Phases /\ todo'[a] \subseteq known
  BY <1>1, <1>2 DEF TypeOK, Phases, Scoring
<1>5. NoScore \in [Companies -> Score \cup {None}]
  BY DEF NoScore
<1>6. TypeOK'
  <2>1. scores' \in [Companies -> Score \cup {None}]
    BY <1>1, StoredIs
  <2>2. /\ phase' \in [Accounts -> Phases]
        /\ todo' \in [Accounts -> SUBSET (Companies \cup Jobs)]
    BY <1>2, <1>4 DEF TypeOK, Phases
  <2>3. cache' \in [Accounts -> [Companies -> Score \cup {None}]]
    BY <1>2, <1>5 DEF TypeOK
  <2>4. ended' \in [Accounts -> {"none", "done", "fault", "integrity", "deadlock"}]
    BY <1>2 DEF TypeOK
  <2>5. written' \in [Accounts -> SUBSET Key] /\ rows' \subseteq Key
    BY <1>1 DEF TypeOK
  <2>6. \A b \in Accounts : phase'[b] = "idle" =>
          todo'[b] = {} /\ op'[b] = None /\ written'[b] = {} /\ cache'[b] = NoScore
    BY <1>1, <1>3, <1>4 DEF TypeOK
  <2>. QED  BY <1>1, <2>1, <2>2, <2>3, <2>4, <2>5, <2>6 DEF TypeOK
<1>7. RowsStand'
  BY <1>1 DEF RowsStand, WritesStand
<1>8. WritesStand'
  BY <1>1, <1>3, <1>4 DEF WritesStand
<1>9. CompaniesComeFirst'
  BY <1>1, <1>3, <1>4 DEF CompaniesComeFirst, Scoring
<1>10. AskedOnce'
  <2>1. phase'[a] # "companies"
    BY <1>4 DEF Scoring
  <2>2. ASSUME phase'[a] \in Scoring, NEW c \in todo'[a]
        PROVE  c \in Companies /\ <<"company", c>> \in rows' /\ cache'[a][c] = None
    <3>1. c \in Companies /\ <<"company", c>> \in rows'
      BY <1>4
    <3>2. CASE phase[a] = "companies"
      BY <1>2, <3>1, <3>2 DEF AskedOnce, NoScore
    <3>3. CASE phase[a] = "scores"
      <4>1. c \in Backfill(a) /\ cache'[a] = cache[a]
        BY <1>2, <2>2, <3>3 DEF TypeOK
      <4>2. cache[a][c] = None
        BY <4>1 DEF Backfill
      <4>. QED  BY <3>1, <4>1, <4>2
    <3>4. CASE phase[a] = "backfill"
      BY <1>2, <2>2, <3>4 DEF TypeOK, Scoring
    <3>. QED  BY <1>2, <3>1, <3>2, <3>3, <3>4
  <2>. QED  BY <1>1, <1>3, <2>1, <2>2 DEF AskedOnce
<1>11. UsedScoreIsFresh'
  BY <1>1, <1>3, <1>4 DEF UsedScoreIsFresh
<1>. QED  BY <1>4, <1>6, <1>7, <1>8, <1>9, <1>10, <1>11

LEMMA FailsKeeps ==
  ASSUME Invariant, NEW a \in Accounts, NEW why \in {"fault", "integrity", "deadlock"},
         Fails(a, why), faults' \in 0..MaxFaults
  PROVE  Invariant' /\ phase'[a] = "idle"
<1>. USE DEF Invariant
<1>1. NoScore \in [Companies -> Score \cup {None}]
  BY DEF NoScore
<1>2. \A b \in Accounts \ {a} :
        /\ phase'[b] = phase[b] /\ todo'[b] = todo[b] /\ op'[b] = op[b]
        /\ written'[b] = written[b] /\ cache'[b] = cache[b]
  BY DEF Fails, TypeOK
<1>3. /\ phase'[a] = "idle" /\ todo'[a] = {} /\ op'[a] = None
      /\ written'[a] = {} /\ cache'[a] = NoScore
      /\ UNCHANGED <<today, rows, scores, now>>
  BY DEF Fails, TypeOK
<1>4. TypeOK'
  BY <1>1, <1>2, <1>3 DEF Fails, TypeOK, Phases
<1>5. RowsStand'
  BY <1>3 DEF RowsStand
<1>6. WritesStand'
  BY <1>2, <1>3 DEF WritesStand
<1>7. CompaniesComeFirst'
  BY <1>2, <1>3 DEF CompaniesComeFirst
<1>8. AskedOnce'
  BY <1>2, <1>3 DEF AskedOnce, Scoring
<1>9. UsedScoreIsFresh'
  BY <1>2, <1>3 DEF UsedScoreIsFresh
<1>. QED  BY <1>3, <1>4, <1>5, <1>6, <1>7, <1>8, <1>9

-----------------------------------------------------------------------------
LEMMA InvariantStep == Invariant /\ [Next]_vars => Invariant'
<1>. SUFFICES ASSUME Invariant, [Next]_vars
              PROVE  Invariant'
  OBVIOUS
<1>1. ASSUME NEW a \in Accounts, Begin(a)
      PROVE  Invariant'
  BY <1>1, BeginKeeps
<1>2. ASSUME NEW a \in Accounts, NextWrite(a)
      PROVE  Invariant'
  BY <1>2, NextWriteKeeps
<1>3. ASSUME NEW a \in Accounts, NextScore(a)
      PROVE  Invariant'
  BY <1>3, NextScoreKeeps
<1>4. ASSUME NEW a \in Accounts, Write(a)
      PROVE  Invariant'
  BY <1>4, WriteKeeps
<1>5. ASSUME NEW a \in Accounts, Commit(a)
      PROVE  Invariant'
  BY <1>5, CommitKeeps
<1>6. faults \in 0..MaxFaults
  BY DEF Invariant, TypeOK
<1>7. ASSUME NEW a \in Accounts, IntegrityError(a) \/ DeadlockDetected(a)
      PROVE  Invariant'
  BY <1>6, <1>7, FailsKeeps DEF IntegrityError, DeadlockDetected
<1>8. ASSUME NEW a \in Accounts, Fault(a)
      PROVE  Invariant'
  <2>1. faults' \in 0..MaxFaults
    BY <1>6, <1>8, CatalogueAssumption DEF Fault
  <2>. QED  BY <1>8, <2>1, FailsKeeps DEF Fault
<1>9. CASE DayPasses
  <2>1. today' \in Day
    BY <1>9, CatalogueAssumption DEF DayPasses, Invariant, TypeOK, Day
  <2>. QED
    BY <1>9, <2>1 DEF DayPasses, Invariant, TypeOK, RowsStand, WritesStand, CompaniesComeFirst,
                      AskedOnce, UsedScoreIsFresh
<1>10. CASE UNCHANGED vars
  BY <1>10 DEF vars, Invariant, TypeOK, RowsStand, WritesStand, CompaniesComeFirst, AskedOnce,
               UsedScoreIsFresh
<1>. QED
  BY <1>1, <1>2, <1>3, <1>4, <1>5, <1>7, <1>8, <1>9, <1>10 DEF Next, Step

(* The invariant, in every state.                                              *)
LEMMA InvariantAlways == Spec => []Invariant
<1>1. Init => Invariant
  BY InvariantInit
<1>2. Invariant /\ [Next]_vars => Invariant'
  BY InvariantStep
<1>. QED  BY <1>1, <1>2, PTL DEF Spec

(* orchestrator.py writes companies before postings and scores: whatever the   *)
(* other accounts' runs write, and whichever of them are rolled back, no       *)
(* statement breaks a foreign key of the shared tables.                        *)
THEOREM ForeignKeysHold == Spec => []NothingDangles
<1>1. Invariant => NothingDangles
  <2>. SUFFICES ASSUME Invariant, NEW a \in Accounts,
                       NEW key \in rows \cup written[a] \cup (IF op[a] = None THEN {} ELSE {op[a].key}),
                       key[1] # "company"
                PROVE  Referred(key) \in rows \cup written[a]
    BY DEF Invariant, NothingDangles, Referred
  <2>1. CASE key \in rows
    BY <2>1 DEF Invariant, RowsStand
  <2>2. CASE key \in written[a]
    BY <2>2 DEF Invariant, WritesStand
  <2>3. CASE op[a] # None /\ key = op[a].key
    BY <2>3 DEF Invariant, WritesStand
  <2>. QED  BY <2>1, <2>2, <2>3
<1>. QED  BY <1>1, InvariantAlways, PTL

(* _get_or_score_company(): no run counts on a company score older than the    *)
(* window, as of the run's own now, whoever wrote it and however long the run  *)
(* takes.                                                                      *)
THEOREM ScoresInUseAreFresh == Spec => []UsedScoreIsFresh
<1>1. Invariant => UsedScoreIsFresh
  BY DEF Invariant
<1>. QED  BY <1>1, InvariantAlways, PTL

(* company_scores_this_run: from the first job to the last line of the report  *)
(* a company has one score in a run, even when another run has replaced the    *)
(* one in the database.                                                        *)
THEOREM ScoreStaysInARun == Spec => OneScorePerRun
<1>1. Invariant /\ [Next]_vars
        => [\A a \in Accounts : phase[a] # "idle" /\ phase'[a] # "idle" =>
              \A c \in Companies : cache[a][c] # None => cache'[a][c] = cache[a][c]]_vars
  <2>. SUFFICES ASSUME Invariant, Next,
                       NEW a \in Accounts, phase[a] # "idle", phase'[a] # "idle",
                       NEW c \in Companies, cache[a][c] # None
                PROVE  cache'[a][c] = cache[a][c]
    OBVIOUS
  <2>1. CASE DayPasses
    BY <2>1 DEF DayPasses
  <2>2. ASSUME NEW b \in Accounts, Begin(b) \/ Step(b) \/ Fault(b)
        PROVE  cache'[a][c] = cache[a][c]
    <3>1. CASE Begin(b) \/ NextWrite(b) \/ Write(b)
      BY <3>1 DEF Begin, NextWrite, Write
    <3>2. CASE NextScore(b)
      <4>1. CASE b = a
        BY <3>2, <4>1, NextScoreKeeps
      <4>2. CASE b # a
        BY <3>2, <4>2 DEF NextScore, Invariant, TypeOK
      <4>. QED  BY <4>1, <4>2
    <3>3. CASE Commit(b)
      <4>1. CASE b = a
        BY <3>3, <4>1, CommitKeeps
      <4>2. CASE b # a
        BY <3>3, <4>2 DEF Commit, Invariant, TypeOK
      <4>. QED  BY <4>1, <4>2
    <3>4. CASE IntegrityError(b) \/ DeadlockDetected(b) \/ Fault(b)
      <4>1. \E why \in {"fault", "integrity", "deadlock"} : Fails(b, why)
        BY <3>4 DEF IntegrityError, DeadlockDetected, Fault
      <4>2. b # a
        BY <4>1 DEF Fails, Invariant, TypeOK
      <4>. QED  BY <4>1, <4>2 DEF Fails, Invariant, TypeOK
    <3>. QED  BY <2>2, <3>1, <3>2, <3>3, <3>4 DEF Step
  <2>. QED  BY <2>1, <2>2 DEF Next
<1>. QED  BY <1>1, InvariantAlways, PTL DEF Spec, OneScorePerRun
=============================================================================
