----------------------------- MODULE Collector -----------------------------
(***************************************************************************)
(* collection/collector.py, with retry.py, against a LinkedIn whose lists  *)
(* of results may change between two requests, whose requests may fail and *)
(* whose answers may lack jobs: the search queries (one for each location  *)
(* and department) are read page after page until a page is empty, a query *)
(* fails for good, the cap is reached or the circuit breaker trips.  A card*)
(* is represented by its job; how a page comes about is SearchPage.        *)
(***************************************************************************)
EXTENDS SearchResults

CONSTANTS
  Queries,           \* the number of queries
  MaxListed,         \* bound on the jobs a query has
  MaxJobsPerRun,     \* collection_limits.max_jobs_per_run
  RetryAttempts,     \* thresholds.linkedin_retry_attempts
  FailureThreshold   \* thresholds.linkedin_consecutive_failure_threshold

ASSUME CollectorAssumption ==
  /\ Queries \in Nat \ {0} /\ MaxListed \in Nat
  /\ MaxJobsPerRun \in Nat
  /\ RetryAttempts \in Nat \ {0} /\ FailureThreshold \in Nat \ {0}

VARIABLES
  listing,      \* the results of each query, in LinkedIn's order
  query, page,  \* the request that is next; page is 0-indexed
  attempt,      \* of retry_with_backoff()
  collected,
  consecutiveFailures,
  anyQueryFailed,
  outcome,      \* "running", or how the collection ended
  still,        \* the queries whose list has stayed as it was and was sent in full
  refused       \* requests in a row that failed

progress == <<query, page, attempt, collected, consecutiveFailures, anyQueryFailed, outcome>>
vars == <<listing, progress, still, refused>>

Query == 1..Queries
Outcome == {"running", "complete", "capped", "breaker", "queryFailed", "sessionInvalid"}

Lists == {list \in SeqOf(Job, MaxListed) : IsInjective(list)}

TypeOK ==
  /\ listing \in [Query -> Lists]
  /\ query \in Query /\ page \in 0..MaxJobsPerRun
  /\ attempt \in 1..RetryAttempts
  /\ collected \in SeqOf(Job, MaxJobsPerRun)
  /\ consecutiveFailures \in 0..FailureThreshold
  /\ anyQueryFailed \in BOOLEAN
  /\ outcome \in Outcome
  /\ still \in SUBSET Query
  /\ refused \in 0..(RetryAttempts * FailureThreshold)

Init ==
  /\ listing \in [Query -> Lists]
  /\ query = 1 /\ page = 0 /\ attempt = 1
  /\ collected = <<>>
  /\ consecutiveFailures = 0 /\ anyQueryFailed = FALSE
  /\ outcome = IF MaxJobsPerRun = 0 THEN "capped" ELSE "running"
  /\ still = Query
  /\ refused = 0

-----------------------------------------------------------------------------
(* What fetch_search_results_page() gets: the results from start = page *    *)
(* _RESULTS_PER_PAGE on.                                                     *)
Page(q, p) ==
  SubSeq(listing[q], p * PageSize + 1,
         IF (p + 1) * PageSize < Len(listing[q]) THEN (p + 1) * PageSize
                                                 ELSE Len(listing[q]))

(* What it returns (SearchPage!RecordsAreTheirOwn): some of them, since a job  *)
(* whose card cannot be resolved is left out, and an answer without elements, *)
(* an error whatever its HTTP status, is an empty page.                       *)
Delivered(q, p) == Deliverable(Page(q, p))

(* A slip: queries that failed on the way are forgotten at the end. *)
EndOfQueriesAnyhow(failed) == "complete"

(* How the collection ends after the last query. *)
EndOfQueries(failed) == IF failed THEN "queryFailed" ELSE "complete"

(* The next query from its first page, or the end. *)
NextQuery(failed) ==
  /\ page' = IF query = Queries THEN page ELSE 0
  /\ query' = IF query = Queries THEN query ELSE query + 1
  /\ outcome' = IF query = Queries THEN EndOfQueries(failed) ELSE "running"

(* A slip: a page is added whole before the cap is looked at. *)
KeptOfWholePage(cards) == collected \o cards

(* A page is cut where the cap is reached. *)
Kept(cards) == SubSeq(collected \o cards, 1, IF Len(collected) + Len(cards) > MaxJobsPerRun
                                               THEN MaxJobsPerRun
                                               ELSE Len(collected) + Len(cards))

(* A request is answered: an empty page ends the query. *)
Fetch(cards) ==
  /\ outcome = "running"
  /\ attempt' = 1 /\ consecutiveFailures' = 0 /\ refused' = 0
  /\ collected' = Kept(cards)
  /\ IF cards = <<>> THEN NextQuery(anyQueryFailed)
     ELSE IF Len(collected') >= MaxJobsPerRun
       THEN outcome' = "capped" /\ UNCHANGED <<query, page>>
       ELSE page' = page + 1 /\ UNCHANGED <<query, outcome>>
  /\ still' = IF cards = Page(query, page) THEN still ELSE still \ {query}
  /\ UNCHANGED <<listing, anyQueryFailed>>

(* A request fails, whatever the exception, and is tried again. *)
Retry ==
  /\ outcome = "running" /\ attempt < RetryAttempts
  /\ attempt' = attempt + 1 /\ refused' = refused + 1
  /\ UNCHANGED <<listing, query, page, collected, consecutiveFailures, anyQueryFailed,
                 outcome, still>>

(* A slip: a query that has used up its attempts is begun again. *)
GiveUpStartingOver ==
  /\ outcome = "running" /\ attempt = RetryAttempts
  /\ attempt' = 1 /\ page' = 0 /\ refused' = 0
  /\ anyQueryFailed' = TRUE
  /\ UNCHANGED <<listing, query, collected, consecutiveFailures, outcome, still>>

(* A slip: the failures of a query are counted from zero. *)
GiveUpCountingAfresh ==
  /\ outcome = "running" /\ attempt = RetryAttempts
  /\ attempt' = 1 /\ refused' = refused + 1
  /\ anyQueryFailed' = TRUE
  /\ consecutiveFailures' = 1
  /\ IF consecutiveFailures' >= FailureThreshold
       THEN outcome' = "breaker" /\ UNCHANGED <<query, page>>
       ELSE NextQuery(TRUE)
  /\ UNCHANGED <<listing, collected, still>>

(* The last attempt fails too: the breaker trips or the next query is taken. *)
GiveUp ==
  /\ outcome = "running" /\ attempt = RetryAttempts
  /\ attempt' = 1 /\ refused' = refused + 1
  /\ anyQueryFailed' = TRUE
  /\ consecutiveFailures' = consecutiveFailures + 1
  /\ IF consecutiveFailures' >= FailureThreshold
       THEN outcome' = "breaker" /\ UNCHANGED <<query, page>>
       ELSE NextQuery(TRUE)
  /\ UNCHANGED <<listing, collected, still>>

(* SessionInvalidError is not retried: the collection is left with it. *)
LoseSession ==
  /\ outcome = "running"
  /\ outcome' = "sessionInvalid"
  /\ UNCHANGED <<listing, query, page, attempt, collected, consecutiveFailures,
                 anyQueryFailed, still, refused>>

(* LinkedIn takes a job off the list that is being read, or puts one at its   *)
(* top.  What becomes of a list before or after it is read shows nowhere.     *)
ListChanges(list) ==
  /\ outcome = "running"
  /\ \/ \E i \in DOMAIN listing[query] : list = RemoveAt(listing[query], i)
     \/ \E j \in Job : list = <<j>> \o listing[query]
  /\ listing' = [listing EXCEPT ![query] = list]
  /\ still' = still \ {query}
  /\ UNCHANGED <<progress, refused>>

Done == outcome # "running" /\ UNCHANGED vars

Next ==
  \/ Retry \/ GiveUp \/ LoseSession \/ Done
  \/ \E cards \in Delivered(query, page) : Fetch(cards)
  \/ \E list \in Lists : ListChanges(list)

Spec == Init /\ [][Next]_vars

(* A request is answered or fails (SearchPage!PageEnds). *)
FairSpec ==
  Spec /\ WF_vars(\/ Retry \/ GiveUp \/ LoseSession
                  \/ \E cards \in Delivered(query, page) : Fetch(cards))
-----------------------------------------------------------------------------
(* FR-21: no more cards than max_jobs_per_run are kept; a collection that has  *)
(* that many is capped, and never called complete.  The first conjunct is the  *)
(* type of the state, which bounds pages and failures as well.                 *)
CapIsRespected ==
  /\ TypeOK
  /\ Len(collected) <= MaxJobsPerRun
  /\ Len(collected) = MaxJobsPerRun => outcome = "capped"

(* TDD 21: the breaker trips when FailureThreshold queries in a row have used *)
(* up their attempts: then at once, and never for failures that a valid       *)
(* answer, an empty page too, has come between.                               *)
BreakerIsExact ==
  outcome = "breaker" <=> refused >= RetryAttempts * FailureThreshold

(* CollectionResult.is_complete says that a job that is not in the scan is not *)
(* listed, which is what closing jobs relies on (FR-10).  It is so of every    *)
(* query whose list stayed as it was and was sent in full; one that shifts     *)
(* between two pages can carry a card past the reader, and an error answer     *)
(* without elements ends a query as an empty page does.                        *)
ScanIsWhole ==
  outcome = "complete" => \A q \in still : ToSet(listing[q]) \subseteq ToSet(collected)

(* The collection ends, whatever LinkedIn answers. *)
CollectionEnds == <>(outcome # "running")
=============================================================================
