-------------------------- MODULE CollectorProofs ---------------------------
(***************************************************************************)
(* Proofs about Collector, for any number of queries and jobs and any cap, *)
(* number of attempts and threshold of the circuit breaker; about          *)
(* SearchPage, for any page and any number of responses; and that the one  *)
(* reads what the other collects.                                          *)
(***************************************************************************)
EXTENDS Collector, SearchPage, TLAPS

(* SeqOf of the community modules. *)
LEMMA SeqOfIsBounded ==
  ASSUME NEW S, NEW n \in Nat, NEW s
  PROVE  s \in SeqOf(S, n) <=> s \in Seq(S) /\ Len(s) <= n
<1>1. ASSUME s \in SeqOf(S, n) PROVE s \in Seq(S) /\ Len(s) <= n
  <2>1. PICK m \in 0..n : s \in [1..m -> S]
    BY <1>1 DEF SeqOf
  <2> QED
    BY <2>1
<1>2. ASSUME s \in Seq(S), Len(s) <= n PROVE s \in SeqOf(S, n)
  <2>1. Len(s) \in 0..n /\ s \in [1..Len(s) -> S]
    BY <1>2
  <2> QED
    BY <2>1 DEF SeqOf
<1> QED
  BY <1>1, <1>2

LEMMA KeptIsBounded ==
  ASSUME collected \in Seq(Job), Len(collected) <= MaxJobsPerRun, NEW cards \in Seq(Job)
  PROVE  /\ Kept(cards) \in Seq(Job)
         /\ Len(Kept(cards)) <= MaxJobsPerRun
         /\ Len(Kept(cards)) < MaxJobsPerRun => Len(Kept(cards)) = Len(collected) + Len(cards)
<1> DEFINE both == collected \o cards
           end == IF Len(collected) + Len(cards) > MaxJobsPerRun THEN MaxJobsPerRun
                                                                   ELSE Len(collected) + Len(cards)
<1>1. both \in Seq(Job) /\ Len(both) = Len(collected) + Len(cards)
  OBVIOUS
<1>2. end \in 0..Len(both) /\ end <= MaxJobsPerRun
  BY <1>1, CollectorAssumption
<1>3. SubSeq(both, 1, end) \in Seq(Job) /\ Len(SubSeq(both, 1, end)) = end
  BY <1>1, <1>2
<1>4. Kept(cards) = SubSeq(both, 1, end)
  BY DEF Kept
<1> QED
  BY <1>1, <1>2, <1>3, <1>4, CollectorAssumption

(* The arithmetic of the breaker. *)
LEMMA OneMore == ASSUME NEW a \in Nat, NEW b \in Nat PROVE (a + 1) * b = a * b + b /\ a * b \in Nat
  OBVIOUS

LEMMA Fewer == ASSUME NEW a \in Nat, NEW b \in Nat \ {0}, NEW c \in Nat, a < c PROVE a * b + b <= c * b
<1>1. PICK d \in Nat : c = a + 1 + d
  <2>1. c - a - 1 \in Nat /\ c = a + 1 + (c - a - 1)
    OBVIOUS
  <2> QED
    BY <2>1
<1>2. c * b = a * b + b + d * b
  BY <1>1
<1>3. d * b \in Nat
  OBVIOUS
<1> QED
  BY <1>2, <1>3, OneMore

LEMMA Below == ASSUME NEW a \in Nat, NEW b \in Nat \ {0}, NEW c \in Nat, a < c PROVE a * b < c * b
<1>1. a * b + b <= c * b
  BY Fewer
<1>2. a * b \in Nat /\ c * b \in Nat
  OBVIOUS
<1> QED
  BY <1>1, <1>2

-----------------------------------------------------------------------------
(* While the collection runs, every page before this one of the query has     *)
(* given a card, the cap is not reached, and each failed request is an        *)
(* attempt of this query or one of those that have failed in a row.           *)
Progress ==
  /\ outcome = "running" =>
       /\ page <= Len(collected) /\ Len(collected) < MaxJobsPerRun
       /\ consecutiveFailures < FailureThreshold
       /\ refused = consecutiveFailures * RetryAttempts + (attempt - 1)
  /\ outcome = "breaker" => refused = FailureThreshold * RetryAttempts
  /\ outcome \notin {"running", "breaker"} => refused < FailureThreshold * RetryAttempts
  /\ outcome # "capped" => Len(collected) < MaxJobsPerRun

LEMMA Bounds ==
  ASSUME TypeOK
  PROVE  /\ collected \in Seq(Job) /\ Len(collected) \in Nat /\ Len(collected) <= MaxJobsPerRun
         /\ MaxJobsPerRun \in Nat /\ Queries \in Nat \ {0} /\ PageSize \in Nat /\ MaxListed \in Nat
         /\ RetryAttempts \in Nat \ {0} /\ FailureThreshold \in Nat \ {0}
         /\ query \in Nat /\ page \in Nat /\ attempt \in Nat /\ consecutiveFailures \in Nat /\ refused \in Nat
  BY CollectorAssumption, PageSizeAssumption, SeqOfIsBounded DEF TypeOK, Query

(* Failures of a running collection are fewer than those that trip the breaker. *)
LEMMA RunningBelowBreaker ==
  ASSUME TypeOK, Progress, outcome = "running"
  PROVE  /\ consecutiveFailures * RetryAttempts \in Nat
         /\ consecutiveFailures * RetryAttempts + RetryAttempts <= FailureThreshold * RetryAttempts
         /\ refused + 1 <= FailureThreshold * RetryAttempts
         /\ FailureThreshold * RetryAttempts = RetryAttempts * FailureThreshold
<1>1. attempt \in 1..RetryAttempts
  BY DEF TypeOK
<1> QED
  <2>1. consecutiveFailures \in Nat /\ RetryAttempts \in Nat \ {0} /\ FailureThreshold \in Nat \ {0}
    BY Bounds
  <2>2. consecutiveFailures < FailureThreshold /\ refused = consecutiveFailures * RetryAttempts + (attempt - 1)
    BY DEF Progress
  <2>3. consecutiveFailures * RetryAttempts \in Nat
    BY <2>1, OneMore
  <2>4. consecutiveFailures * RetryAttempts + RetryAttempts <= FailureThreshold * RetryAttempts
    BY <2>1, <2>2, Fewer
  <2>5. FailureThreshold * RetryAttempts \in Nat /\ FailureThreshold * RetryAttempts = RetryAttempts * FailureThreshold
    BY <2>1, OneMore
  <2> QED
    BY <1>1, <2>1, <2>2, <2>3, <2>4, <2>5

Invariant == TypeOK /\ Progress

LEMMA InvariantInit == Init => Invariant
<1> SUFFICES ASSUME Init PROVE Invariant
  OBVIOUS
<1>1. FailureThreshold * RetryAttempts \in Nat \ {0} /\ 0 * RetryAttempts = 0
      /\ RetryAttempts * FailureThreshold \in Nat
  BY CollectorAssumption, Fewer
<1>2. collected \in SeqOf(Job, MaxJobsPerRun)
  <2>1. collected \in Seq(Job) /\ Len(collected) = 0
    BY DEF Init
  <2>2. MaxJobsPerRun \in Nat /\ Len(collected) <= MaxJobsPerRun
    BY <2>1, CollectorAssumption
  <2> QED
    BY <2>1, <2>2, SeqOfIsBounded
<1>3. TypeOK
  <2>1. 1 \in Query /\ 0 \in 0..MaxJobsPerRun /\ 1 \in 1..RetryAttempts /\ 0 \in 0..FailureThreshold
    BY CollectorAssumption DEF Query
  <2>3. 0 \in 0..(RetryAttempts * FailureThreshold)
    BY <1>1
  <2>2. outcome \in Outcome /\ anyQueryFailed \in BOOLEAN /\ still \in SUBSET Query
    BY DEF Init, Outcome
  <2> QED
    BY <1>2, <2>1, <2>2, <2>3 DEF Init, TypeOK
<1>4. Progress
  BY <1>1, CollectorAssumption DEF Init, Progress
<1> QED
  BY <1>3, <1>4 DEF Invariant

LEMMA InvariantStep == Invariant /\ [Next]_vars => Invariant'
<1> SUFFICES ASSUME TypeOK, Progress, [Next]_vars PROVE TypeOK' /\ Progress'
  BY DEF Invariant
<1>0. /\ attempt \in 1..RetryAttempts
      /\ RetryAttempts * FailureThreshold \in Nat /\ FailureThreshold * RetryAttempts \in Nat
      /\ \A n \in Nat : n \in 1..RetryAttempts <=> 1 <= n /\ n <= RetryAttempts
  BY Bounds DEF TypeOK
<1>q. ASSUME NEW failed \in BOOLEAN, NextQuery(failed)
      PROVE  /\ query' \in Query /\ page' \in 0..page
             /\ outcome' \in {"running", "queryFailed", "complete"}
             /\ outcome' = "running" => page' = 0
  BY <1>q, Bounds DEF NextQuery, EndOfQueries, Query, TypeOK
<1>1. ASSUME NEW cards \in Delivered(query, page), Fetch(cards) PROVE TypeOK' /\ Progress'
  <2>1. cards \in Seq(Job) /\ Len(cards) <= PageSize
    BY Bounds, SeqOfIsBounded DEF Delivered, Deliverable
  <2>2. /\ collected' \in Seq(Job) /\ Len(collected') <= MaxJobsPerRun
        /\ Len(collected') < MaxJobsPerRun => Len(collected') = Len(collected) + Len(cards)
    BY <1>1, <2>1, Bounds, KeptIsBounded DEF Fetch
  <2>3. outcome = "running" /\ attempt' = 1 /\ consecutiveFailures' = 0 /\ refused' = 0
        /\ listing' = listing /\ anyQueryFailed' = anyQueryFailed /\ still' \in SUBSET Query
    BY <1>1 DEF Fetch, TypeOK
  <2>4. collected' \in SeqOf(Job, MaxJobsPerRun)
    BY <2>2, Bounds, SeqOfIsBounded
  <2>5. 0 < FailureThreshold * RetryAttempts /\ 0 * RetryAttempts = 0
    BY Bounds, Fewer
  <2>6. CASE cards = <<>>
    <3>1. NextQuery(anyQueryFailed)
      BY <1>1, <2>6 DEF Fetch
    <3>2. /\ query' \in Query /\ page' \in 0..page /\ outcome' \in {"running", "queryFailed", "complete"}
          /\ outcome' = "running" => page' = 0
      BY <1>q, <3>1 DEF TypeOK
    <3>3. collected' = collected
      <4>1. collected \o cards = collected /\ Len(cards) = 0
        BY <2>6, Bounds
      <4>2. SubSeq(collected, 1, Len(collected)) = collected
        BY Bounds
      <4> QED
        BY <1>1, <4>1, <4>2, Bounds DEF Fetch, Kept
    <3>4. TypeOK'
      BY <1>0, <2>3, <2>4, <3>2, Bounds DEF TypeOK, Outcome
    <3>5. Progress'
      BY <1>0, <2>3, <2>5, <3>2, <3>3, Bounds DEF Progress
    <3> QED
      BY <3>4, <3>5
  <2>7. CASE cards # <<>> /\ Len(collected') >= MaxJobsPerRun
    <3>1. outcome' = "capped" /\ query' = query /\ page' = page
      BY <1>1, <2>7 DEF Fetch
    <3>2. TypeOK'
      BY <1>0, <2>3, <2>4, <3>1, Bounds DEF TypeOK, Outcome
    <3>3. Progress'
      BY <1>0, <2>3, <2>5, <3>1, Bounds DEF Progress
    <3> QED
      BY <3>2, <3>3
  <2>8. CASE cards # <<>> /\ ~(Len(collected') >= MaxJobsPerRun)
    <3>1. outcome' = "running" /\ query' = query /\ page' = page + 1
      BY <1>1, <2>3, <2>8 DEF Fetch
    <3>2. Len(cards) \in Nat \ {0}
      BY <2>1, <2>8
    <3>3. page' <= Len(collected') /\ Len(collected') < MaxJobsPerRun
      BY <2>2, <2>3, <2>8, <3>1, <3>2, Bounds DEF Progress
    <3>4. TypeOK'
      BY <1>0, <2>3, <2>2, <2>4, <3>1, <3>3, Bounds DEF TypeOK, Outcome
    <3>5. Progress'
      BY <1>0, <2>3, <2>5, <3>1, <3>3, Bounds DEF Progress
    <3> QED
      BY <3>4, <3>5
  <2> QED
    BY <2>6, <2>7, <2>8
<1>2. CASE Retry
  <2>1. refused + 1 <= RetryAttempts * FailureThreshold /\ attempt + 1 \in 1..RetryAttempts
    BY <1>0, <1>2, RunningBelowBreaker, Bounds DEF Retry
  <2>2. TypeOK'
    BY <1>0, <1>2, <2>1, Bounds DEF Retry, TypeOK
  <2>3. Progress'
    BY <1>0, <1>2, Bounds, RunningBelowBreaker DEF Retry, Progress
  <2> QED
    BY <2>2, <2>3
<1>3. CASE GiveUp
  <2>1. /\ outcome = "running" /\ attempt = RetryAttempts /\ attempt' = 1 /\ refused' = refused + 1
        /\ consecutiveFailures' = consecutiveFailures + 1 /\ anyQueryFailed' = TRUE
        /\ UNCHANGED <<listing, collected, still>>
    BY <1>3 DEF GiveUp
  <2>2. /\ refused' = consecutiveFailures' * RetryAttempts
        /\ refused' <= RetryAttempts * FailureThreshold
    BY <1>0, <2>1, Bounds, OneMore, RunningBelowBreaker DEF Progress
  <2>3. consecutiveFailures' \in 0..FailureThreshold
    BY <2>1, Bounds DEF Progress
  <2>4. CASE consecutiveFailures' >= FailureThreshold
    <3>1. outcome' = "breaker" /\ query' = query /\ page' = page /\ consecutiveFailures' = FailureThreshold
      BY <1>3, <2>3, <2>4, Bounds DEF GiveUp
    <3>2. TypeOK'
      BY <1>0, <2>1, <2>2, <2>3, <3>1, Bounds DEF TypeOK, Outcome
    <3>3. Progress'
      BY <2>1, <2>2, <3>1 DEF Progress
    <3> QED
      BY <3>2, <3>3
  <2>5. CASE ~(consecutiveFailures' >= FailureThreshold)
    <3>0. consecutiveFailures' < FailureThreshold
      BY <2>3, <2>5, Bounds
    <3>1. NextQuery(TRUE) /\ consecutiveFailures' < FailureThreshold
      BY <1>3, <2>5, <3>0 DEF GiveUp
    <3>2. /\ query' \in Query /\ page' \in 0..page /\ outcome' \in {"running", "queryFailed", "complete"}
          /\ outcome' = "running" => page' = 0
      BY <1>q, <3>1
    <3>4. refused' < FailureThreshold * RetryAttempts
      <4>1. RetryAttempts \in Nat \ {0} /\ FailureThreshold \in Nat /\ consecutiveFailures' \in Nat
        BY <2>3, Bounds
      <4>2. consecutiveFailures' * RetryAttempts < FailureThreshold * RetryAttempts
        BY <3>0, <4>1, Below
      <4> QED
        BY <2>2, <4>2
    <3>5. TypeOK'
      BY <1>0, <2>1, <2>2, <2>3, <3>2, Bounds DEF TypeOK, Outcome
    <3>6. outcome' = "running" => page' <= Len(collected') /\ Len(collected') < MaxJobsPerRun
      BY <2>1, <3>2, Bounds DEF Progress
    <3>7. refused' = consecutiveFailures' * RetryAttempts + (attempt' - 1)
      BY <2>1, <2>2, Bounds, OneMore
    <3>8. Len(collected') < MaxJobsPerRun
      BY <2>1 DEF Progress
    <3>9. Progress'
      BY <3>0, <3>2, <3>4, <3>6, <3>7, <3>8 DEF Progress
    <3> QED
      BY <3>5, <3>9
  <2> QED
    BY <2>4, <2>5
<1>4. CASE LoseSession
  <2>1. TypeOK'
    BY <1>4 DEF LoseSession, TypeOK, Outcome
  <2>2. Progress'
    BY <1>0, <1>4, Bounds, RunningBelowBreaker DEF LoseSession, Progress
  <2> QED
    BY <2>1, <2>2
<1>5. ASSUME NEW list \in Lists, ListChanges(list) PROVE TypeOK' /\ Progress'
  <2>1. listing' \in [Query -> Lists] /\ still' \in SUBSET Query
    BY <1>5 DEF ListChanges, TypeOK
  <2> QED
    BY <1>5, <2>1 DEF ListChanges, TypeOK, Progress, progress
<1>6. CASE UNCHANGED vars
  BY <1>6 DEF TypeOK, Progress, vars, progress
<1> QED
  BY <1>1, <1>2, <1>3, <1>4, <1>5, <1>6 DEF Next, Done

-----------------------------------------------------------------------------
(* FR-21: no more cards than the cap, and a collection that has as many is     *)
(* never called complete.                                                      *)
THEOREM CapAlwaysRespected == Spec => []CapIsRespected
<1>1. Invariant => CapIsRespected
  BY Bounds DEF Invariant, Progress, CapIsRespected
<1> QED
  BY <1>1, InvariantInit, InvariantStep, PTL DEF Spec

(* TDD 21: the breaker trips at FailureThreshold queries in a row that have    *)
(* used up their attempts, at once and not before.                             *)
THEOREM BreakerAlwaysExact == Spec => []BreakerIsExact
<1>1. Invariant => BreakerIsExact
  <2> SUFFICES ASSUME TypeOK, Progress PROVE BreakerIsExact
    BY DEF Invariant
  <2>1. RetryAttempts * FailureThreshold = FailureThreshold * RetryAttempts
        /\ FailureThreshold * RetryAttempts \in Nat
    BY Bounds
  <2>2. CASE outcome = "running"
    BY <2>1, <2>2, RunningBelowBreaker, Bounds DEF BreakerIsExact
  <2>3. CASE outcome = "breaker"
    BY <2>1, <2>3, Bounds DEF BreakerIsExact, Progress
  <2>4. CASE outcome \notin {"running", "breaker"}
    BY <2>1, <2>4, Bounds DEF BreakerIsExact, Progress
  <2> QED
    BY <2>2, <2>3, <2>4
<1> QED
  BY <1>1, InvariantInit, InvariantStep, PTL DEF Spec

-----------------------------------------------------------------------------
(* What the scan has of a list: its first n cards, or all of it.               *)
Has(list, n) == \A i \in 1..Len(list) : i <= n => list[i] \in ToSet(collected)

(* Unless a query has failed, the scan has every card of the lists that are    *)
(* behind it and stayed as they were, and the pages read so far of the one it  *)
(* is reading.                                                                 *)
HasWhatItRead ==
  /\ outcome = "complete" => ~anyQueryFailed
  /\ ~anyQueryFailed /\ outcome \in {"running", "complete"} =>
       \A q \in still :
         /\ q < query \/ outcome = "complete" => Has(listing[q], Len(listing[q]))
         /\ q = query /\ outcome = "running" => Has(listing[q], page * PageSize)

LEMMA ListsAre ==
  ASSUME TypeOK, NEW q \in Query
  PROVE  listing[q] \in Seq(Job) /\ Len(listing[q]) \in Nat
<1>1. listing[q] \in SeqOf(Job, MaxListed)
  BY DEF TypeOK, Lists
<1>. QED  BY <1>1, Bounds, SeqOfIsBounded

(* Cards are added behind the others, and a page that fits is added whole.     *)
LEMMA KeptIs ==
  ASSUME collected \in Seq(Job), Len(collected) <= MaxJobsPerRun, NEW cards \in Seq(Job),
         Len(Kept(cards)) < MaxJobsPerRun
  PROVE  /\ ToSet(collected) \subseteq ToSet(Kept(cards))
         /\ ToSet(cards) \subseteq ToSet(Kept(cards))
<1>. DEFINE both == collected \o cards
<1>1. /\ both \in Seq(Job) /\ Len(both) = Len(collected) + Len(cards)
      /\ Len(collected) \in Nat /\ Len(cards) \in Nat /\ MaxJobsPerRun \in Nat
  BY CollectorAssumption
<1>2. Kept(cards) = both
  <2>1. Len(Kept(cards)) = Len(both)
    BY <1>1, KeptIsBounded
  <2>2. Kept(cards) = SubSeq(both, 1, Len(both))
    BY <1>1, <2>1, KeptIsBounded DEF Kept
  <2>. QED  BY <1>1, <2>2
<1>3. \A i \in 1..Len(collected) : i \in 1..Len(both) /\ both[i] = collected[i]
  BY <1>1
<1>4. \A i \in 1..Len(cards) : Len(collected) + i \in 1..Len(both) /\ both[Len(collected) + i] = cards[i]
  BY <1>1
<1>5. /\ ToSet(both) = {both[i] : i \in 1..Len(both)}
      /\ ToSet(cards) = {cards[i] : i \in 1..Len(cards)}
      /\ ToSet(collected) = {collected[i] : i \in 1..Len(collected)}
  BY <1>1 DEF ToSet
<1>6. ToSet(collected) \subseteq ToSet(both)
  BY <1>3, <1>5
<1>7. ToSet(cards) \subseteq ToSet(both)
  BY <1>4, <1>5
<1>. QED  BY <1>2, <1>6, <1>7

(* A page has the cards of its place in the list, and is empty behind its end. *)
LEMMA PageIs ==
  ASSUME TypeOK, NEW q \in Query, NEW p \in Nat
  PROVE  /\ \A i \in 1..Len(listing[q]) :
              p * PageSize < i /\ i <= (p + 1) * PageSize => listing[q][i] \in ToSet(Page(q, p))
         /\ Page(q, p) = <<>> => Len(listing[q]) <= p * PageSize
<1>. DEFINE list  == listing[q]
            first == p * PageSize + 1
            last  == IF (p + 1) * PageSize < Len(list) THEN (p + 1) * PageSize ELSE Len(list)
            cards == Page(q, p)
<1>1. list \in Seq(Job) /\ Len(list) \in Nat
  BY ListsAre
<1>2. /\ PageSize \in Nat \ {0} /\ p * PageSize \in Nat
      /\ (p + 1) * PageSize = p * PageSize + PageSize
  BY PageSizeAssumption, OneMore
<1>3. first \in Nat \ {0} /\ last \in Nat /\ last <= Len(list)
  BY <1>1, <1>2
<1>4. cards = SubSeq(list, first, last)
  BY DEF Page
<1>5. CASE first <= last
  <2>1. /\ cards \in Seq(Job) /\ Len(cards) = last - first + 1
        /\ \A k \in 1..Len(cards) : cards[k] = list[first + k - 1]
    BY <1>1, <1>3, <1>4, <1>5
  <2>2. ASSUME NEW i \in 1..Len(list), p * PageSize < i, i <= (p + 1) * PageSize
        PROVE  list[i] \in ToSet(cards)
    <3>1. i - first + 1 \in 1..Len(cards) /\ first + (i - first + 1) - 1 = i
      BY <1>1, <1>2, <1>3, <1>5, <2>1, <2>2
    <3>2. cards[i - first + 1] = list[i]
      BY <2>1, <3>1
    <3>. QED  BY <2>1, <3>1, <3>2 DEF ToSet
  <2>3. cards # <<>>
    BY <1>3, <1>5, <2>1
  <2>. QED  BY <2>2, <2>3
<1>6. CASE ~(first <= last)
  <2>1. Len(list) <= p * PageSize
    BY <1>1, <1>2, <1>3, <1>6
  <2>. QED  BY <1>1, <1>2, <2>1
<1>. QED  BY <1>5, <1>6

LEMMA KeptOfNothing ==
  ASSUME collected \in Seq(Job), Len(collected) <= MaxJobsPerRun
  PROVE  Kept(<<>>) = collected
<1>1. collected \o <<>> = collected /\ Len(<<>>) = 0 /\ Len(collected) \in Nat
  OBVIOUS
<1>2. SubSeq(collected, 1, Len(collected)) = collected
  OBVIOUS
<1>3. Kept(<<>>) = SubSeq(collected \o <<>>, 1, Len(collected))
  <2>1. ~(Len(collected) + Len(<<>>) > MaxJobsPerRun) /\ Len(collected) + Len(<<>>) = Len(collected)
    BY <1>1, CollectorAssumption
  <2>. QED  BY <2>1, Zenon DEF Kept
<1>. QED  BY <1>1, <1>2, <1>3

LEMMA HasInit == Init => HasWhatItRead
<1>. SUFFICES ASSUME Init
              PROVE  HasWhatItRead
  OBVIOUS
<1>1. 0 * PageSize = 0 /\ TypeOK
  BY PageSizeAssumption, InvariantInit DEF Invariant
<1>2. \A q \in still : ~(q < query) /\ Has(listing[q], 0)
  <2>1. \A q \in still : q \in Nat /\ q >= 1 /\ Len(listing[q]) \in Nat
    BY <1>1, Bounds, ListsAre DEF TypeOK, Query
  <2>. QED  BY <2>1 DEF Init, Has
<1>. QED  BY <1>1, <1>2 DEF Init, HasWhatItRead

LEMMA HasStep == Invariant /\ HasWhatItRead /\ [Next]_vars => HasWhatItRead'
<1>. SUFFICES ASSUME TypeOK, Progress, HasWhatItRead, [Next]_vars
              PROVE  HasWhatItRead'
  BY DEF Invariant
<1>1. ASSUME NEW cards \in Delivered(query, page), Fetch(cards)
      PROVE  HasWhatItRead'
  <2>1. cards \in Seq(Job)
    BY Bounds, SeqOfIsBounded DEF Delivered, Deliverable
  <2>2. /\ outcome = "running" /\ collected' = Kept(cards)
        /\ listing' = listing /\ anyQueryFailed' = anyQueryFailed
        /\ still' = IF cards = Page(query, page) THEN still ELSE still \ {query}
    BY <1>1 DEF Fetch
  <2>3. query \in Query /\ query \in Nat /\ page \in Nat
    BY Bounds DEF TypeOK
  <2>4. \A q \in still : q \in Query /\ q \in Nat /\ q <= Queries /\ Len(listing[q]) \in Nat
    BY ListsAre, Bounds DEF TypeOK, Query
  <2>5. 0 * PageSize = 0 /\ page * PageSize \in Nat /\ (page + 1) * PageSize = page * PageSize + PageSize
    BY <2>3, Bounds, OneMore
  <2>6. CASE cards = <<>>
    <3>1. collected' = collected
      BY <2>2, <2>6, Bounds, KeptOfNothing
    <3>2. /\ page' = IF query = Queries THEN page ELSE 0
          /\ query' = IF query = Queries THEN query ELSE query + 1
          /\ outcome' = IF query = Queries THEN EndOfQueries(anyQueryFailed) ELSE "running"
      BY <1>1, <2>6 DEF Fetch, NextQuery
    <3>3. ASSUME ~anyQueryFailed, NEW q \in still', q <= query
          PROVE  Has(listing[q], Len(listing[q]))
      <4>1. q \in still
        BY <2>2
      <4>2. CASE q < query
        BY <2>2, <3>3, <4>1, <4>2 DEF HasWhatItRead
      <4>3. CASE q = query
        <5>1. Page(query, page) = <<>>
          BY <2>2, <2>6, <4>3
        <5>2. Len(listing[q]) <= page * PageSize
          BY <2>3, <4>3, <5>1, PageIs
        <5>3. Has(listing[q], page * PageSize)
          BY <2>2, <3>3, <4>1, <4>3 DEF HasWhatItRead
        <5>. QED  BY <2>4, <2>5, <4>1, <5>2, <5>3 DEF Has
      <4>. QED  BY <2>3, <2>4, <3>3, <4>1, <4>2, <4>3
    <3>4. still' \subseteq still
      BY <2>2
    <3>5. CASE query = Queries
      <4>1. \A q \in still' : q <= query
        BY <2>4, <3>4, <3>5
      <4>. QED  BY <2>2, <3>1, <3>2, <3>3, <3>5, <4>1 DEF HasWhatItRead, Has, EndOfQueries
    <3>6. CASE query # Queries
      <4>1. page' = 0 /\ query' = query + 1 /\ outcome' = "running"
        BY <3>2, <3>6
      <4>2. \A q \in still' : q < query' => q <= query
        BY <2>3, <2>4, <3>4, <4>1
      <4>3. \A q \in still' : Has(listing[q], 0)
        BY <2>4, <3>4 DEF Has
      <4>. QED  BY <2>2, <2>5, <3>1, <3>3, <4>1, <4>2, <4>3 DEF HasWhatItRead, Has
    <3>. QED  BY <3>5, <3>6
  <2>7. CASE cards # <<>> /\ Len(collected') >= MaxJobsPerRun
    BY <1>1, <2>7 DEF Fetch, HasWhatItRead
  <2>8. CASE cards # <<>> /\ ~(Len(collected') >= MaxJobsPerRun)
    <3>1. outcome' = "running" /\ query' = query /\ page' = page + 1
      BY <1>1, <2>2, <2>8 DEF Fetch
    <3>2. Len(Kept(cards)) < MaxJobsPerRun
      BY <2>1, <2>2, <2>8, Bounds, KeptIsBounded
    <3>3. ToSet(collected) \subseteq ToSet(collected') /\ ToSet(cards) \subseteq ToSet(collected')
      BY <2>1, <2>2, <3>2, Bounds, KeptIs
    <3>4. still' \subseteq still
      BY <2>2
    <3>5. ASSUME ~anyQueryFailed, NEW q \in still', q < query
          PROVE  Has(listing[q], Len(listing[q]))'
      <4>1. Has(listing[q], Len(listing[q]))
        BY <2>2, <3>4, <3>5 DEF HasWhatItRead
      <4>. QED  BY <2>2, <3>3, <4>1 DEF Has
    <3>6. ASSUME ~anyQueryFailed, query \in still'
          PROVE  \A i \in 1..Len(listing[query]) :
                   i <= (page + 1) * PageSize => listing[query][i] \in ToSet(collected')
      <4>1. cards = Page(query, page) /\ query \in still
        BY <2>2, <3>6
      <4>2. \A i \in 1..Len(listing[query]) : i <= page * PageSize => listing[query][i] \in ToSet(collected)
        BY <2>2, <3>6, <4>1 DEF HasWhatItRead, Has
      <4>3. \A i \in 1..Len(listing[query]) :
              page * PageSize < i /\ i <= (page + 1) * PageSize => listing[query][i] \in ToSet(cards)
        BY <2>3, <4>1, PageIs
      <4>. QED  BY <2>4, <2>5, <3>3, <4>1, <4>2, <4>3
    <3>7. \A q \in still' : q \in Nat
      BY <2>4, <3>4
    <3>8. /\ outcome' # "complete"
          /\ ~anyQueryFailed' => \A q \in still' :
               /\ q < query' => Has(listing[q], Len(listing[q]))'
               /\ q = query' => \A i \in 1..Len(listing'[q]) :
                                  i <= page' * PageSize => listing'[q][i] \in ToSet(collected')
      BY <2>2, <3>1, <3>5, <3>6
    <3>. QED  BY <3>8 DEF HasWhatItRead, Has
  <2>. QED  BY <2>6, <2>7, <2>8
<1>2. CASE Retry
  BY <1>2 DEF Retry, HasWhatItRead, Has
<1>3. CASE GiveUp
  BY <1>3 DEF GiveUp, NextQuery, EndOfQueries, HasWhatItRead
<1>4. CASE LoseSession
  BY <1>4 DEF LoseSession, HasWhatItRead
<1>5. ASSUME NEW list \in Lists, ListChanges(list)
      PROVE  HasWhatItRead'
  <2>1. /\ still' = still \ {query} /\ UNCHANGED progress
        /\ listing' = [listing EXCEPT ![query] = list]
    BY <1>5 DEF ListChanges
  <2>2. \A q \in still' : q \in still /\ listing'[q] = listing[q]
    BY <2>1 DEF TypeOK
  <2>. QED  BY <2>1, <2>2 DEF HasWhatItRead, Has, progress
<1>6. CASE UNCHANGED vars
  BY <1>6 DEF HasWhatItRead, Has, vars, progress
<1>. QED  BY <1>1, <1>2, <1>3, <1>4, <1>5, <1>6 DEF Next, Done

(* FR-10: jobs are closed on the word of a complete collection.  It has every  *)
(* card of every query whose list stayed as it was and was sent in full,       *)
(* however the pages fall and whatever was tried again on the way.             *)
THEOREM CompleteScanIsWhole == Spec => []ScanIsWhole
<1>1. Init => Invariant /\ HasWhatItRead
  BY InvariantInit, HasInit
<1>2. (Invariant /\ HasWhatItRead) /\ [Next]_vars => (Invariant /\ HasWhatItRead)'
  BY InvariantStep, HasStep
<1>3. Invariant /\ HasWhatItRead => ScanIsWhole
  <2>. SUFFICES ASSUME TypeOK, HasWhatItRead, outcome = "complete", NEW q \in still
                PROVE  ToSet(listing[q]) \subseteq ToSet(collected)
    BY DEF Invariant, ScanIsWhole
  <2>1. Has(listing[q], Len(listing[q]))
    BY DEF HasWhatItRead
  <2>2. listing[q] \in Seq(Job) /\ Len(listing[q]) \in Nat
    BY ListsAre DEF TypeOK
  <2>3. ToSet(listing[q]) = {listing[q][i] : i \in 1..Len(listing[q])}
    BY <2>2 DEF ToSet
  <2>. QED  BY <2>1, <2>2, <2>3 DEF Has
<1>. QED  BY <1>1, <1>2, <1>3, PTL DEF Spec

-----------------------------------------------------------------------------
(* The end of a collection, without fairness: how many requests it can make.   *)

(* The pages asked for at the most, this one left out: each has given a card   *)
(* that is kept, or has ended its query.                                       *)
PagesBefore == Len(collected) + (query - 1)

(* The number that the next request has at the most, if every one before it    *)
(* needed all its attempts.                                                    *)
RequestNumber == PagesBefore * RetryAttempts + attempt

MaxRequests == (MaxJobsPerRun + Queries - 1) * RetryAttempts

LEMMA NumbersAre == Invariant => (outcome = "running" => RequestNumber \in 1..MaxRequests)
<1>. SUFFICES ASSUME TypeOK, Progress, outcome = "running"
              PROVE  RequestNumber \in 1..MaxRequests
  BY DEF Invariant
<1>1. /\ PagesBefore \in Nat /\ MaxJobsPerRun + Queries - 1 \in Nat
      /\ PagesBefore < MaxJobsPerRun + Queries - 1
  <2>1. query \in 1..Queries /\ Queries \in Nat \ {0} /\ MaxJobsPerRun \in Nat
        /\ Len(collected) \in Nat /\ Len(collected) < MaxJobsPerRun
    BY Bounds DEF TypeOK, Query, Progress
  <2>. QED  BY <2>1 DEF PagesBefore
<1>2. attempt \in 1..RetryAttempts /\ RetryAttempts \in Nat \ {0}
  BY Bounds DEF TypeOK
<1>3. PagesBefore * RetryAttempts + RetryAttempts <= MaxRequests
  BY <1>1, <1>2, Fewer DEF MaxRequests
<1>4. PagesBefore * RetryAttempts \in Nat /\ MaxRequests \in Nat
  BY <1>1, <1>2, OneMore DEF MaxRequests
<1>. QED  BY <1>2, <1>3, <1>4 DEF RequestNumber

(* Another page, of this query or the next, is one more.                       *)
LEMMA NextPageIsMore ==
  ASSUME TypeOK, PagesBefore' \in Nat, PagesBefore' > PagesBefore, attempt' = 1
  PROVE  RequestNumber < RequestNumber'
<1>1. PagesBefore \in Nat /\ attempt \in 1..RetryAttempts /\ RetryAttempts \in Nat \ {0}
  BY Bounds DEF TypeOK, PagesBefore, Query
<1>2. PagesBefore * RetryAttempts + RetryAttempts <= PagesBefore' * RetryAttempts
  BY <1>1, Fewer
<1>3. PagesBefore * RetryAttempts \in Nat /\ PagesBefore' * RetryAttempts \in Nat
  BY <1>1, OneMore
<1>4. /\ RequestNumber = PagesBefore * RetryAttempts + attempt
      /\ RequestNumber' = PagesBefore' * RetryAttempts + 1
  BY DEF RequestNumber
<1>5. ASSUME NEW x \in Nat, NEW y \in Nat, NEW r \in Nat, NEW a \in 1..r, x + r <= y
      PROVE  x + a < y + 1
  BY <1>5
<1>. QED  BY <1>1, <1>2, <1>3, <1>4, <1>5

(* FR-21, TDD 21 and 22: a collection makes at most (cap + queries - 1) times  *)
(* attempts requests, whatever LinkedIn answers and however its lists move: a  *)
(* request that is answered, fails or loses the session raises the number of   *)
(* the next, or ends the collection.                                           *)
THEOREM RequestsAreBounded ==
  Spec => [][progress' # progress =>
               /\ outcome = "running" /\ RequestNumber \in 1..MaxRequests
               /\ outcome' = "running" => RequestNumber < RequestNumber' /\ RequestNumber' <= MaxRequests]_vars
<1>. DEFINE Known == outcome = "running" => RequestNumber \in 1..MaxRequests
<1>1. ASSUME Invariant, Invariant', Known, Known', [Next]_vars, progress' # progress
      PROVE  /\ outcome = "running" /\ RequestNumber \in 1..MaxRequests
             /\ outcome' = "running" => RequestNumber < RequestNumber' /\ RequestNumber' <= MaxRequests
  <2>1. Retry \/ GiveUp \/ LoseSession \/ \E cards \in Delivered(query, page) : Fetch(cards)
    BY <1>1 DEF Next, Done, ListChanges, vars
  <2>2. outcome = "running"
    BY <2>1 DEF Retry, GiveUp, LoseSession, Fetch
  <2>3. RequestNumber \in 1..MaxRequests
    BY <1>1, <2>2
  <2>4. ASSUME outcome' = "running"
        PROVE  RequestNumber < RequestNumber' /\ RequestNumber' <= MaxRequests
    <3>0. TypeOK /\ TypeOK' /\ Progress'
      BY <1>1 DEF Invariant
    <3>1. RequestNumber' \in 1..MaxRequests /\ MaxRequests \in Nat
      <4>1. MaxRequests' = MaxRequests /\ MaxRequests \in Nat
        BY CollectorAssumption DEF MaxRequests
      <4>. QED  BY <1>1, <2>4, <4>1
    <3>2. /\ collected \in Seq(Job) /\ Len(collected) \in Nat /\ Len(collected) <= MaxJobsPerRun
          /\ query \in Nat \ {0} /\ RetryAttempts \in Nat \ {0} /\ attempt \in Nat /\ MaxJobsPerRun \in Nat
      BY <3>0, Bounds DEF TypeOK, Query
    <3>3. CASE Retry
      <4>1. RequestNumber' = PagesBefore * RetryAttempts + (attempt + 1)
        BY <3>3 DEF Retry, RequestNumber, PagesBefore
      <4>2. PagesBefore * RetryAttempts \in Nat
        <5>1. PagesBefore \in Nat
          BY <3>2 DEF PagesBefore
        <5>. QED  BY <3>2, <5>1, OneMore
      <4>3. RequestNumber < RequestNumber'
        BY <3>2, <4>1, <4>2 DEF RequestNumber
      <4>. QED  BY <3>1, <4>3
    <3>4. CASE GiveUp
      <4>1. collected' = collected /\ query' = query + 1 /\ attempt' = 1
        BY <2>4, <3>4 DEF GiveUp, NextQuery, EndOfQueries
      <4>2. PagesBefore' \in Nat /\ PagesBefore' > PagesBefore
        BY <3>2, <4>1 DEF PagesBefore
      <4>. QED  BY <3>0, <3>1, <4>1, <4>2, NextPageIsMore
    <3>5. ASSUME NEW cards \in Delivered(query, page), Fetch(cards)
          PROVE  RequestNumber < RequestNumber'
      <4>1. cards \in Seq(Job) /\ Len(cards) \in Nat
        BY Bounds, SeqOfIsBounded, <3>0 DEF Delivered, Deliverable
      <4>2. collected' = Kept(cards) /\ attempt' = 1
        BY <3>5 DEF Fetch
      <4>3. Len(collected') < MaxJobsPerRun
        BY <1>1, <2>4 DEF Invariant, Progress
      <4>4. Len(collected') = Len(collected) + Len(cards)
        BY <3>2, <4>1, <4>2, <4>3, KeptIsBounded
      <4>5. \/ cards = <<>> /\ query' = query + 1
            \/ cards # <<>> /\ query' = query
        BY <2>4, <3>5 DEF Fetch, NextQuery, EndOfQueries
      <4>6. cards # <<>> => Len(cards) > 0
        BY <4>1
      <4>7. PagesBefore' \in Nat /\ PagesBefore' > PagesBefore
        BY <3>2, <4>1, <4>4, <4>5, <4>6 DEF PagesBefore
      <4>. QED  BY <3>0, <4>2, <4>7, NextPageIsMore
    <3>6. CASE LoseSession
      BY <2>4, <3>6 DEF LoseSession
    <3>. QED  BY <2>1, <3>1, <3>3, <3>4, <3>5, <3>6
  <2>. QED  BY <2>2, <2>3, <2>4
<1>2. Spec => []Invariant
  BY InvariantInit, InvariantStep, PTL DEF Spec
<1>. QED  BY <1>1, <1>2, NumbersAre, PTL DEF Spec

-----------------------------------------------------------------------------
(* One page of results.                                                        *)

(* The steps of the function come one after the other: a result ends it, only  *)
(* cards that were captured are waited for descriptions of, and the browser is *)
(* open no longer than the function works.                                     *)
PageOrder ==
  /\ pc \in {"launch", "done"} => browser = "closed"
  /\ pc = "descriptions" =>
       captured["cards"] # <<>> /\ captured["cards"][1].is = "cards"
  /\ result.is # "none" => pc \in {"closing", "done"}
  /\ result.is # "page" => result.cards = <<>>

PageInvariant == PageOrder /\ EmptyIsAnswered /\ CapturedIsUsed /\ RecordsAreTheirOwn

LEMMA AppendKeepsFirst ==
  ASSUME NEW S, NEW s \in Seq(S), NEW x \in S
  PROVE  /\ Append(s, x) \in Seq(S) /\ Append(s, x) # <<>>
         /\ s # <<>> => Append(s, x)[1] = s[1]
OBVIOUS

LEMMA EmptyIsOne ==
  ASSUME NEW S
  PROVE  <<>> \in SeqOf(S, PageSize)
<1>1. <<>> \in Seq(S) /\ Len(<<>>) = 0
  OBVIOUS
<1>2. PageSize \in Nat /\ 0 <= PageSize
  BY PageSizeAssumption
<1>. QED  BY <1>1, <1>2, SeqOfIsBounded

LEMMA EmptyIsDeliverable ==
  ASSUME NEW list
  PROVE  <<>> \in Deliverable(list)
<1>1. <<>> \in SeqOf(Job, PageSize)
  BY EmptyIsOne
<1>. QED  BY <1>1 DEF Deliverable, IsPartOf, ToSet

(* What a body may be, and the first that was captured of a URL is one.        *)
LEMMA BodyIs ==
  ASSUME NEW kind \in Kind, NEW body \in Body(kind)
  PROVE  /\ body.is \in {"garbage", "nothing", kind}
         /\ body.is # kind => body.of = <<>>
         /\ kind = "cards" /\ body.is = "cards" => body.of = listed
BY DEF Body, Kind

LEMMA FirstIs ==
  ASSUME PageTypeOK, NEW kind \in Kind, captured[kind] # <<>>
  PROVE  captured[kind][1] \in Body(kind)
<1>1. captured[kind] \in Seq(Body(kind))
  BY DEF PageTypeOK
<1>. QED  BY <1>1

LEMMA DescribedIs ==
  ASSUME NEW jobs \in SeqOf(Job, PageSize), NEW body
  PROVE  /\ Described(jobs, body) \in SeqOf(Card, PageSize)
         /\ DOMAIN Described(jobs, body) = DOMAIN jobs
         /\ JobsOf(Described(jobs, body)) = jobs
         /\ \A i \in DOMAIN jobs :
              /\ Described(jobs, body)[i].job = jobs[i]
              /\ Described(jobs, body)[i].text \in {jobs[i], NoText}
              /\ Described(jobs, body)[i].text = NoText =>
                   ~(body.is = "descriptions" /\ jobs[i] \in ToSet(body.of))
<1>1. /\ jobs \in Seq(Job) /\ Len(jobs) <= PageSize /\ DOMAIN jobs = 1..Len(jobs)
      /\ \A i \in DOMAIN jobs : jobs[i] \in Job /\ jobs[i] # NoText
  BY SeqOfIsBounded, PageSizeAssumption, SearchPageAssumption
<1>2. /\ DOMAIN Described(jobs, body) = DOMAIN jobs
      /\ \A i \in DOMAIN jobs :
           Described(jobs, body)[i] =
             [job |-> jobs[i], text |-> IF body.is = "descriptions" /\ jobs[i] \in ToSet(body.of)
                                          THEN jobs[i] ELSE NoText]
  BY DEF Described
<1>3. \A i \in DOMAIN jobs : Described(jobs, body)[i] \in Card
  BY <1>1, <1>2 DEF Card
<1>4. Described(jobs, body) \in [1..Len(jobs) -> Card]
  BY <1>1, <1>3 DEF Described
<1>5. Described(jobs, body) \in SeqOf(Card, PageSize)
  <2>1. Described(jobs, body) \in Seq(Card) /\ Len(Described(jobs, body)) = Len(jobs)
    BY <1>1, <1>4
  <2>. QED  BY <1>1, <2>1, SeqOfIsBounded, PageSizeAssumption
<1>6. JobsOf(Described(jobs, body)) = jobs
  <2>1. \A i \in DOMAIN jobs : Described(jobs, body)[i].job = jobs[i]
    BY <1>2
  <2>2. JobsOf(Described(jobs, body)) = [i \in DOMAIN jobs |-> jobs[i]]
    BY <1>2, <2>1 DEF JobsOf
  <2>. QED  BY <1>1, <2>2
<1>. QED  BY <1>1, <1>2, <1>5, <1>6

LEMMA PageInvariantInit == PageInit => PageInvariant
<1>. SUFFICES ASSUME PageInit PROVE PageInvariant
  OBVIOUS
<1>1. <<>> \in SeqOf(Card, PageSize)
  BY EmptyIsOne
<1>2. PageTypeOK
  <2>1. \A kind \in Kind : captured[kind] \in Seq(Body(kind))
    BY DEF PageInit
  <2>. QED  BY <1>1, <2>1, SearchPageAssumption DEF PageInit, PageTypeOK
<1>3. JobsOf(<<>>) = <<>>
  BY DEF JobsOf
<1>. QED  BY <1>2, <1>3, EmptyIsDeliverable
          DEF PageInit, PageInvariant, PageOrder, EmptyIsAnswered, CapturedIsUsed,
              RecordsAreTheirOwn, Records, ToSet

(* A failure is raised.                                                        *)
LEMMA RaiseKeeps ==
  ASSUME PageInvariant, NEW failure \in Failure, Raise(failure),
         failure \in {"navigationTimeout", "noAnswer"} => captured["cards"] = <<>>,
         UNCHANGED <<site, network, browser>>
  PROVE  PageInvariant'
<1>1. /\ result' = [is |-> failure, cards |-> <<>>] /\ pc' = "closing"
      /\ failure \notin {"page", "none"}
  BY DEF Raise, Failure
<1>2. <<>> \in SeqOf(Card, PageSize)
  BY EmptyIsOne
<1>3. PageTypeOK
  BY DEF PageInvariant, EmptyIsAnswered
<1>4. PageTypeOK'
  BY <1>1, <1>2, <1>3 DEF PageTypeOK, site, network, Body
<1>5. JobsOf(<<>>) = <<>>
  BY DEF JobsOf
<1>6. PageOrder' /\ EmptyIsAnswered' /\ CapturedIsUsed'
  BY <1>1, <1>4 DEF PageOrder, EmptyIsAnswered, CapturedIsUsed, network
<1>7. RecordsAreTheirOwn'
  BY <1>1, <1>5, EmptyIsDeliverable DEF RecordsAreTheirOwn, Records, ToSet, site
<1>. QED  BY <1>6, <1>7 DEF PageInvariant

(* A page is returned.                                                         *)
LEMMA ReturnKeeps ==
  ASSUME PageInvariant, NEW jobs \in Deliverable(listed), NEW body, Return(Described(jobs, body)),
         captured["cards"] # <<>>, captured["cards"][1].is \in {"cards", "nothing"},
         jobs = <<>> /\ captured["cards"][1].is = "cards" =>
           \A j \in ToSet(listed) : quality[j] = "unresolved",
         captured["descriptions"] # <<>> => \A i \in DOMAIN jobs :
           (body.is = "descriptions" /\ jobs[i] \in ToSet(body.of))
             \/ jobs[i] \notin ToSet(captured["descriptions"][1].of),
         UNCHANGED <<site, network, browser>>
  PROVE  PageInvariant'
<1>0. jobs \in SeqOf(Job, PageSize)
  BY DEF Deliverable
<1>1. /\ result' = [is |-> "page", cards |-> Described(jobs, body)] /\ pc' = "closing"
      /\ UNCHANGED <<listed, quality, sent, reading, captured, browser>>
  BY DEF Return, site, network
<1>2. /\ Described(jobs, body) \in SeqOf(Card, PageSize)
      /\ DOMAIN Described(jobs, body) = DOMAIN jobs
      /\ JobsOf(Described(jobs, body)) = jobs
      /\ \A i \in DOMAIN jobs :
           /\ Described(jobs, body)[i].job = jobs[i]
           /\ Described(jobs, body)[i].text \in {jobs[i], NoText}
           /\ Described(jobs, body)[i].text = NoText =>
                ~(body.is = "descriptions" /\ jobs[i] \in ToSet(body.of))
  BY <1>0, DescribedIs
<1>3. PageTypeOK
  BY DEF PageInvariant, EmptyIsAnswered
<1>4. PageTypeOK'
  <2>1. Body("cards")' = Body("cards") /\ \A kind \in Kind : Body(kind)' = Body(kind)
    BY <1>1 DEF Body
  <2>. QED  BY <1>1, <1>2, <1>3, <2>1 DEF PageTypeOK
<1>5. PageOrder'
  BY <1>1 DEF PageOrder
<1>6. EmptyIsAnswered'
  <2>1. Described(jobs, body) = <<>> => jobs = <<>>
    BY <1>2 DEF JobsOf
  <2>. QED  BY <1>1, <1>4, <2>1 DEF EmptyIsAnswered
<1>7. CapturedIsUsed'
  BY <1>1, <1>2 DEF CapturedIsUsed
<1>8. RecordsAreTheirOwn'
  BY <1>1, <1>2 DEF RecordsAreTheirOwn, Records, ToSet
<1>. QED  BY <1>5, <1>6, <1>7, <1>8 DEF PageInvariant

(* A response comes, or the body of one is read.                               *)
LEMMA NetworkKeeps ==
  ASSUME PageInvariant, browser = "open", pc # "closing",
         sent' \in 0..MaxResponses, UNCHANGED <<site, pc, browser, result>>,
         \A response \in reading' : response.kind \in Kind /\ response.body \in Body(response.kind),
         DOMAIN captured' = Kind,
         \A kind \in Kind : \/ captured'[kind] = captured[kind]
                            \/ \E body \in Body(kind) : captured'[kind] = Append(captured[kind], body)
  PROVE  PageInvariant'
<1>1. PageTypeOK /\ pc \notin {"launch", "done", "closing"} /\ result.is = "none"
  BY DEF PageInvariant, PageOrder, EmptyIsAnswered, PageTypeOK
<1>2. \A kind \in Kind : /\ captured'[kind] \in Seq(Body(kind))
                         /\ captured[kind] # <<>> =>
                              captured'[kind] # <<>> /\ captured'[kind][1] = captured[kind][1]
  <2>. SUFFICES ASSUME NEW kind \in Kind
                PROVE  /\ captured'[kind] \in Seq(Body(kind))
                       /\ captured[kind] # <<>> =>
                            captured'[kind] # <<>> /\ captured'[kind][1] = captured[kind][1]
    OBVIOUS
  <2>1. captured[kind] \in Seq(Body(kind))
    BY <1>1 DEF PageTypeOK
  <2>2. ASSUME NEW body \in Body(kind), captured'[kind] = Append(captured[kind], body)
        PROVE  /\ captured'[kind] \in Seq(Body(kind)) /\ captured'[kind] # <<>>
               /\ captured[kind] # <<>> => captured'[kind][1] = captured[kind][1]
    BY <2>1, <2>2, AppendKeepsFirst
  <2>. QED  BY <2>1, <2>2
<1>3. PageTypeOK'
  <2>1. \A kind \in Kind : Body(kind)' = Body(kind)
    BY DEF Body, site
  <2>. QED  BY <1>1, <1>2, <2>1 DEF PageTypeOK, site
<1>4. PageOrder'
  BY <1>1, <1>2 DEF PageInvariant, PageOrder, Kind
<1>5. EmptyIsAnswered' /\ CapturedIsUsed'
  BY <1>1, <1>3 DEF EmptyIsAnswered, CapturedIsUsed
<1>6. RecordsAreTheirOwn'
  BY DEF PageInvariant, RecordsAreTheirOwn, Records, site
<1>. QED  BY <1>4, <1>5, <1>6 DEF PageInvariant

(* The function goes on, or closes the browser, with the result it has.        *)
LEMMA SameResultKeeps ==
  ASSUME PageInvariant, UNCHANGED <<site, sent, captured, result>>,
         reading' \subseteq reading, browser' \in {"open", "closed"},
         pc' \in {"goto", "cards", "descriptions", "done"}, PageOrder'
  PROVE  PageInvariant'
<1>1. PageTypeOK
  BY DEF PageInvariant, EmptyIsAnswered
<1>2. \A kind \in Kind : Body(kind)' = Body(kind)
  BY DEF Body, site
<1>3. PageTypeOK'
  BY <1>1, <1>2 DEF PageTypeOK, site
<1>. QED  BY <1>3 DEF PageInvariant, EmptyIsAnswered, CapturedIsUsed, RecordsAreTheirOwn, Records, site

LEMMA PageInvariantStep == PageInvariant /\ [PageNext]_pageVars => PageInvariant'
<1>. SUFFICES ASSUME PageInvariant, [PageNext]_pageVars PROVE PageInvariant'
  OBVIOUS
<1>0. PageTypeOK /\ PageOrder
  BY DEF PageInvariant, EmptyIsAnswered
<1>1. CASE Launch
  <2>1. CASE pc' = "goto" /\ browser' = "open" /\ UNCHANGED <<site, network, result>>
    <3>1. result.is = "none" /\ PageOrder'
      BY <1>0, <1>1, <2>1 DEF Launch, PageOrder, PageTypeOK
    <3>. QED  BY <2>1, <3>1, SameResultKeeps DEF network
  <2>2. CASE /\ pc' = "done" /\ result' = [is |-> "launch", cards |-> <<>>]
             /\ UNCHANGED <<site, network, browser>>
    <3>1. browser = "closed"
      BY <1>0, <1>1 DEF Launch, PageOrder
    <3>2. PageTypeOK'
      <4>1. \A kind \in Kind : Body(kind)' = Body(kind)
        BY <2>2 DEF Body, site
      <4>2. <<>> \in SeqOf(Card, PageSize)
        BY EmptyIsOne
      <4>. QED  BY <1>0, <2>2, <4>1, <4>2 DEF PageTypeOK, site, network, Failure
    <3>3. JobsOf(<<>>) = <<>>
      BY DEF JobsOf
    <3>. QED  BY <2>2, <3>1, <3>2, <3>3, EmptyIsDeliverable
              DEF PageInvariant, PageOrder, EmptyIsAnswered, CapturedIsUsed, RecordsAreTheirOwn,
                  Records, ToSet, site
  <2>. QED  BY <1>1, <2>1, <2>2 DEF Launch
<1>2. CASE Navigate
  <2>1. /\ pc = "goto" /\ UNCHANGED <<site, network, browser>>
        /\ result.is = "none"
    BY <1>0, <1>2 DEF Navigate, PageOrder, PageTypeOK
  <2>2. CASE pc' = "cards" /\ UNCHANGED result
    <3>1. PageOrder'
      BY <1>0, <2>1, <2>2 DEF PageOrder
    <3>. QED  BY <1>0, <2>1, <2>2, <3>1, SameResultKeeps DEF network, PageTypeOK
  <2>3. CASE captured["cards"] = <<>> /\ Raise("navigationTimeout")
    BY <2>1, <2>3, RaiseKeeps DEF Failure
  <2>4. CASE Raise("navigation")
    BY <2>1, <2>4, RaiseKeeps DEF Failure
  <2>. QED  BY <1>2, <2>2, <2>3, <2>4 DEF Navigate
<1>3. CASE TakeCards
  <2>. DEFINE first == captured["cards"][1]
  <2>1. /\ pc = "cards" /\ captured["cards"] # <<>> /\ UNCHANGED <<site, network, browser>>
        /\ result.is = "none"
    BY <1>0, <1>3 DEF TakeCards, PageOrder, PageTypeOK
  <2>2. /\ first.is \in {"garbage", "nothing", "cards"}
        /\ first.is # "cards" => first.of = <<>>
        /\ first.is = "cards" => first.of = listed
    BY <1>0, <2>1, FirstIs, BodyIs DEF Kind
  <2>3. CASE Raise("notJSON")
    BY <2>1, <2>3, RaiseKeeps DEF Failure
  <2>4. CASE first.is # "garbage" /\ IsResolved(<<>>, first) /\ Return(<<>>)
    <3>1. first.is = "cards" => \A j \in ToSet(listed) : quality[j] = "unresolved"
      <4>1. ToSet(<<>>) = {}
        BY DEF ToSet
      <4>. QED  BY <2>2, <2>4, <4>1 DEF IsResolved
    <3>2. Described(<<>>, first) = <<>>
      BY DEF Described
    <3>3. <<>> \in Deliverable(listed)
      BY EmptyIsDeliverable
    <3>. QED  BY <2>1, <2>2, <2>4, <3>1, <3>2, <3>3, ReturnKeeps
  <2>5. CASE first.is # "garbage" /\ ~IsResolved(<<>>, first) /\ pc' = "descriptions" /\ UNCHANGED result
    <3>1. first.is = "cards"
      <4>1. ASSUME first.of = <<>> PROVE IsResolved(<<>>, first)
        BY <4>1, EmptyIsDeliverable DEF IsResolved, ToSet
      <4>. QED  BY <2>2, <2>5, <4>1
    <3>2. PageOrder'
      BY <1>0, <2>1, <2>5, <3>1 DEF PageOrder, network
    <3>. QED  BY <1>0, <2>1, <2>5, <3>2, SameResultKeeps DEF network, PageTypeOK
  <2>. QED  BY <1>3, <2>3, <2>4, <2>5 DEF TakeCards
<1>4. CASE GiveUpOnCards
  BY <1>4, RaiseKeeps DEF GiveUpOnCards, Failure
<1>5. CASE TakeDescriptions
  <2>. DEFINE body == IF captured["descriptions"] = <<>> THEN [is |-> "nothing", of |-> <<>>]
                      ELSE captured["descriptions"][1]
  <2>1. /\ pc = "descriptions" /\ UNCHANGED <<site, network, browser>>
        /\ captured["cards"] # <<>> /\ captured["cards"][1].is = "cards"
    BY <1>0, <1>5 DEF TakeDescriptions, PageOrder
  <2>2. captured["cards"][1].of = listed
    BY <1>0, <2>1, FirstIs, BodyIs DEF Kind
  <2>3. CASE Raise("notJSON")
    BY <2>1, <2>3, RaiseKeeps DEF Failure
  <2>4. ASSUME NEW jobs \in SeqOf(Job, PageSize),
               IsResolved(jobs, captured["cards"][1]), Return(Described(jobs, body))
        PROVE  PageInvariant'
    <3>1. jobs \in Deliverable(listed)
      BY <2>2, <2>4 DEF IsResolved
    <3>2. jobs = <<>> => \A j \in ToSet(listed) : quality[j] = "unresolved"
      <4>1. ToSet(<<>>) = {}
        BY DEF ToSet
      <4>. QED  BY <2>2, <2>4, <4>1 DEF IsResolved
    <3>3. captured["descriptions"] # <<>> => \A i \in DOMAIN jobs :
            (body.is = "descriptions" /\ jobs[i] \in ToSet(body.of))
              \/ jobs[i] \notin ToSet(captured["descriptions"][1].of)
      <4>. SUFFICES ASSUME captured["descriptions"] # <<>>, body.is # "descriptions"
                    PROVE  ToSet(body.of) = {}
        OBVIOUS
      <4>1. body.of = <<>>
        BY <1>0, FirstIs, BodyIs DEF Kind
      <4>. QED  BY <4>1 DEF ToSet
    <3>. HIDE DEF body
    <3>. QED  BY <2>1, <2>4, <3>1, <3>2, <3>3, ReturnKeeps
  <2>. QED  BY <1>5, <2>3, <2>4 DEF TakeDescriptions
<1>6. CASE Close
  <2>1. PageOrder'
    BY <1>0, <1>6 DEF Close, PageOrder
  <2>. QED  BY <1>6, <2>1, SameResultKeeps DEF Close
<1>7. ASSUME NEW kind \in Kind, Respond(kind) PROVE PageInvariant'
  <2>1. \A response \in reading' : response.kind \in Kind /\ response.body \in Body(response.kind)
    BY <1>0, <1>7 DEF Respond, PageTypeOK
  <2>2. sent' \in 0..MaxResponses
    BY <1>0, <1>7, SearchPageAssumption DEF Respond, PageTypeOK
  <2>. QED  BY <1>0, <1>7, <2>1, <2>2, NetworkKeeps DEF Respond, PageTypeOK
<1>8. ASSUME NEW response \in reading, ReadBody(response) PROVE PageInvariant'
  <2>1. response.kind \in Kind /\ response.body \in Body(response.kind) /\ DOMAIN captured = Kind
    BY <1>0 DEF PageTypeOK
  <2>2. /\ DOMAIN captured' = Kind
        /\ \A kind \in Kind :
             \/ captured'[kind] = captured[kind]
             \/ \E body \in Body(kind) : captured'[kind] = Append(captured[kind], body)
    BY <1>8, <2>1 DEF ReadBody
  <2>. QED  BY <1>0, <1>8, <2>2, NetworkKeeps DEF ReadBody, PageTypeOK
<1>9. CASE UNCHANGED pageVars
  <2>1. \A kind \in Kind : Body(kind)' = Body(kind)
    BY <1>9 DEF Body, pageVars, site
  <2>2. PageTypeOK'
    BY <1>0, <1>9, <2>1 DEF PageTypeOK, pageVars, site, network
  <2>. QED  BY <1>9, <2>2 DEF PageInvariant, PageOrder, EmptyIsAnswered, CapturedIsUsed,
                              RecordsAreTheirOwn, Records, pageVars, site, network
<1>. QED
  BY <1>1, <1>2, <1>3, <1>4, <1>5, <1>6, <1>7, <1>8, <1>9 DEF PageNext, Step, PageOver

LEMMA PageInvariantAlways == PageSpec => []PageInvariant
BY PageInvariantInit, PageInvariantStep, PTL DEF PageSpec

(* M11.1: no page is taken for an empty one in silence: LinkedIn has answered  *)
(* the request for cards, with none, or with none that can be resolved.        *)
THEOREM EmptyPagesAreAnswered == PageSpec => []EmptyIsAnswered
BY PageInvariantAlways, PTL DEF PageInvariant

(* M10.2: whatever comes in late, twice or not at all: a captured answer is    *)
(* used, and no failure that is a lack of time throws captured cards away.     *)
THEOREM CapturedAnswersAreUsed == PageSpec => []CapturedIsUsed
BY PageInvariantAlways, PTL DEF PageInvariant

(* Records are of jobs on the page, in its order, and have their own texts,    *)
(* in whatever order cards and descriptions come and are read.                 *)
THEOREM RecordsStayTheirOwn == PageSpec => []RecordsAreTheirOwn
BY PageInvariantAlways, PTL DEF PageInvariant

LEMMA PagesAre ==
  ASSUME TypeOK, NEW q \in Query, NEW p \in Nat
  PROVE  Page(q, p) \in Pages
<1>. DEFINE list  == listing[q]
            first == p * PageSize + 1
            last  == IF (p + 1) * PageSize < Len(list) THEN (p + 1) * PageSize ELSE Len(list)
            cards == Page(q, p)
<1>1. list \in Seq(Job) /\ Len(list) \in Nat /\ IsInjective(list)
  BY ListsAre DEF TypeOK, Lists
<1>2. /\ PageSize \in Nat \ {0} /\ p * PageSize \in Nat
      /\ (p + 1) * PageSize = p * PageSize + PageSize
  BY PageSizeAssumption, OneMore
<1>3. first \in Nat \ {0} /\ last \in Nat /\ last <= Len(list) /\ last < first + PageSize
  BY <1>1, <1>2
<1>4. cards = SubSeq(list, first, last)
  BY DEF Page
<1>5. /\ cards \in Seq(Job) /\ Len(cards) <= PageSize
      /\ \A k \in 1..Len(cards) : cards[k] = list[first + k - 1] /\ first + k - 1 \in 1..Len(list)
  <2>. HIDE DEF first, last, cards, list
  <2>1. CASE first <= last
    <3>1. /\ cards \in Seq(Job) /\ Len(cards) = last - first + 1
          /\ \A k \in 1..Len(cards) : cards[k] = list[first + k - 1]
      BY <1>1, <1>3, <1>4, <2>1
    <3>. QED  BY <1>1, <1>2, <1>3, <2>1, <3>1
  <2>2. CASE ~(first <= last)
    <3>1. cards = <<>>
      BY <1>1, <1>3, <1>4, <2>2
    <3>. QED  BY <1>2, <3>1
  <2>. QED  BY <2>1, <2>2
<1>6. IsInjective(cards)
  <2>. HIDE DEF first, last, cards, list
  <2>. SUFFICES ASSUME NEW i \in 1..Len(cards), NEW k \in 1..Len(cards), cards[i] = cards[k]
                PROVE  i = k
    BY <1>5 DEF IsInjective
  <2>1. first + i - 1 = first + k - 1
    BY <1>1, <1>5 DEF IsInjective
  <2>. QED  BY <1>3, <2>1
<1>. QED  BY <1>2, <1>5, <1>6, SeqOfIsBounded DEF Pages

(* The two modules fit: every page that Collector asks for is one SearchPage   *)
(* reads, and what is returned of it is what Collector reckons with, in        *)
(* whatever state the one finds the lists and the other the network.           *)
THEOREM CollectorGetsItsPages ==
  ASSUME NEW q \in Query, NEW p \in Nat
  PROVE  Spec /\ PageSpec =>
           [](/\ Page(q, p) \in Pages
              /\ result.is = "page" /\ listed = Page(q, p) => JobsOf(result.cards) \in Delivered(q, p))
<1>1. Invariant /\ PageInvariant =>
        /\ Page(q, p) \in Pages
        /\ result.is = "page" /\ listed = Page(q, p) => JobsOf(result.cards) \in Delivered(q, p)
  BY PagesAre DEF Invariant, PageInvariant, RecordsAreTheirOwn, Delivered
<1>2. Spec => []Invariant
  BY InvariantInit, InvariantStep, PTL DEF Spec
<1>. QED  BY <1>1, <1>2, PageInvariantAlways, PTL
=============================================================================
