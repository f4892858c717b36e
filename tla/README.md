# linkedinbot in TLA+

`linkedinbot` looks for jobs on LinkedIn on behalf of an account: a scheduled or manual *run* logs in with
a stored browser profile, collects postings page by page, compares them with the account's job history,
filters and scores the new ones with the help of an LLM, writes a Markdown report and updates the
history in PostgreSQL. This directory holds TLA+ models of the parts of it that keep state or run side by
side, TLC runs that check them on small instances, and TLAPS proofs, for every instance, of all the safety
properties that the passing runs check.

Paths are relative to the repository; `linkedinbot/` stands for `src/src/linkedinbot/`.
`PROJECT.json` maps every definition to the lines it translates.

    tlc -workers 2 -config MCRunLock.cfg MCRunLock     # one run
    tlapm RunLockProofs.tla                            # one module of proofs

## 1. Inventory

| Part | State it keeps | Operations | What is hard about it | What makes it correct |
|---|---|---|---|---|
| Run lock (`run/run_lock.py`, `run_locks`) | one row for each account | `acquire`, `release` | the holder dies; the lease ends under a holder; clocks are read before the lock is asked for | one holder within a lease; nobody is robbed; nobody is locked out for ever |
| Orchestrator (`run/orchestrator.py`, `bootstrap.py`) | a run's locals, `run_logs`, `reports`, report files | `run_account`, `run`, `_run_pipeline` | three early commits and a final one, an `except` that sometimes commits, a `finally`; crashes in between; a second run | all-or-nothing outcome; every ending is logged; the lock is returned |
| Job history (`history/`, `ranking/`, `reporting/compiler.py`, `evaluated_jobs`) | a row for each job | diff, reuse or evaluate, close, report, State Update | a sequence of runs, some failed, some incomplete, over a LinkedIn that changes | told once as NEW; closed only when gone; nothing lost; nothing shown that must not be |
| Collector (`collection/collector.py`, `retry.py`) | page, counters, collected cards | `collect_raw_job_cards`, retry | failures at two levels; a cap; lists that move | complete means whole; the breaker trips when it should, and only then |
| Scheduler (`adapters/scheduling/`, `main.py`) | `accounts.next_run_at`, the armed job, cancelled accounts | `schedule_next_run`, `cancel`, `_fire`, listeners | threads; cancel during a run; late triggers; restarts; a shared database session | always armed again; never after a cancel; runs apart by the interval |
| LinkedIn session (`session_manager.py`, `playwright_client.py`, `cli.py login`, `main.py`) | `linkedin_sessions`, the Chromium profile, `NEEDS_LOGIN.txt` | `validate`, `search_jobs_page`, login, re-check, alert | an unlocked second check; writes of changed columns only; rollbacks | one browser on a profile; no collection without acceptance; alert and row follow the truth |
| Shared catalogue (`companies`, `job_postings`, `company_scores`) | rows without an account | get-or-create, get-or-score, backfill | two accounts at the same time; check-then-insert; deadlock | no dangling keys; scores fresh and one for each run |
| Filters, scores, gateway (`filtering/`, `scoring/`, `adapters/llm/`) | one evaluation | filters, `LLMGateway.generate`, scores | errors, misfit answers, retries, missing figures, zero weights | cheap filters first; no invented score; a true mean |
| One page of results (`playwright_client.fetch_search_results_page`, `extract_records`) | captured bodies, the browser | launch, `_on_response`, `goto`, two waits, matching | answers arrive in any order, late, twice, broken or never, while a body is read | silence is not an empty page; nothing captured is lost; no description of another job; the browser is closed |
| Secrets store (`adapters/secrets/`) | `secrets.json`, the keychain's entry | `resolve_encryption_key`, `get`, `set` | processes of host and container share an unlocked file; the first makes the key; crashes | the file is never broken; what was set is there and can be decrypted |
| Configuration and seed (`config/`, `cli.py seed`) | accounts, profiles, versions of the configuration | `seed`, `load_account_context`, `validate_config` | a seed of three flushes; versions replaced while runs are prepared | a run sees a whole, valid configuration of its own time |
| Composition root (`bootstrap.py`, `cli.py run`, `main._on_trigger`) | an attempt's locals | `build_dependencies`, `run_account` | two loads, a secret and a look at the history, all before the lock | as above, and only a first run calls itself one |
| Normalisation, rendering, logging, prompts, ports, migrations, scripts | none that the rest depends on | – | – | – |

How they interact: the scheduler's worker thread (`main._on_trigger`) or the command line calls
`bootstrap.run_account`, which calls `orchestrator.run`. That takes the run lock, validates the session,
collects, reads the history, writes the catalogue, evaluates, writes the report and commits. Everything
that outlives a process is in PostgreSQL (READ COMMITTED), the reports directory and the browser profile;
everything else is lost in a crash. Processes meet only there.

## 2. Modules

| Module | Models | State ↔ code |
|---|---|---|
| `Lease` | what a lock promises: somebody has a lease or nobody has, and it can end | abstract |
| `RunLock` | `run_lock.py`; each owner reads the clock (the `now` it passes), acquires or is refused, releases, may crash | `lock` is the row (`lock_owner`, `lock_expires_at`; `Free` when its columns are NULL), `now` the argument, `pc` the caller |
| `Orchestrator` | `bootstrap.run_account` and `orchestrator.run`; uses RunLock's operators for the row | a step ends where the code commits, rolls back or touches something outside the transaction; `run[r]` is what the process keeps, flushed rows among it: `loaded` and `found` the session's status as `validate()` loaded and as it set it; `alone` whether another run worked when this one took the lock |
| `Reports` | what the reports of an account promise their reader: one tag for a job, NEW once, nothing closed | abstract |
| `JobHistory` | diff, reuse, evaluation, closing, ranking, report contents and State Update over many runs | `rows` is `evaluated_jobs`; `site` what LinkedIn lists while a scan goes on; `scan` is `current_scan` with the hash kept of each job |
| `SearchResults` | what `SearchPage` hands over and `Collector` is delivered: part of a page, in its order | no state |
| `Collector` | `collect_raw_job_cards` with its retries | `listing` LinkedIn's results; `still` which lists stood still and were sent in full; the other variables are the function's locals |
| `SearchPage` | `fetch_search_results_page` and what `extract_records` makes of its cards | `listed`, `quality` what LinkedIn sends; `reading` the handlers that wait for `response.text()`; `captured` the bodies of both kinds that were read; `pc` the function |
| `SecretsStore` | `local_keyring_adapter.py`, called by any number of processes | `file` is `secrets.json`, `keychain` its entry; `doing` where a call is; `stored`, `overtaken`, `rivals` tell what happened before |
| `Configuration` | the account's rows: seed, load, validation, replacement | `rows` committed, `flushed` of the seed's transaction, `breaks` which rules a version breaks |
| `Bootstrap` | `build_dependencies` and `run_account` up to the pipeline, by several processes | `at` the position; `first`, `used` the versions loaded; `isBootstrap`; `since`, `overlapped` what happened meanwhile |
| `Timetable` | what `SchedulerPort` promises: runs only while wanted, one at a time, and apart | abstract |
| `Scheduler` | `APSchedulerAdapter`, `run_forever`, the commit listeners, and of APScheduler what is used | `stored` and `row` are `accounts.next_run_at`, committed and as the shared session sees it; `job` what APScheduler has in memory; `cancelled`; `fire` where `_fire()` is; `undone`: a rollback or a failed commit has taken back a call that was not committed; `broken`: the shared session raises until it is rolled back |
| `LinkedInSession` | everybody who touches the session | row, uncommitted `UPDATE`, what each database session loaded, browsers open, alert file |
| `Catalogue` | eager writes of two accounts with PostgreSQL's keys, waits and deadlocks | `rows`, `scores` committed; `written` and `op` of each transaction; `cache` is `company_scores_this_run` |
| `JobEvaluation` | filters, questions, retries, repair, scores of one posting | `stage` is the position; `asked` which questions went to the LLM |

Composition: `Orchestrator` instantiates `RunLock` (`Lock == INSTANCE RunLock ...`): it takes and frees the lock with
RunLock's own operators, and `UsesRunLock == Lock!Spec` says that its runs, seen through `LockUse`, behave as
RunLock's owners. `RunLock` instantiates `Lease`, `JobHistory` instantiates `Reports` (its `report`, `reported` and
`announced` are the reader's) and `Scheduler` instantiates `Timetable` (`running` is `fire # "none"`). The others
cover one another's abstractions: `JobHistory!EndScan` takes from the collector that a complete scan has been
delivered what was listed throughout, but for lost cards (`ScanIsWhole`; a card that slips between two pages of a list
that changes is a lost one); `JobHistory!FinishSome` is one step because of `AtomicFinalState`; `LinkedInSession` and
`Catalogue` take the exclusion of one account's runs from `RunLock`. `Bootstrap` extends `Configuration` and
`SecretsStore`: the same processes seed, load, read and set secrets; `UsesSecretsStore` (a theorem) says that it does
so by the store's own calls. `Collector` and `SearchPage` extend `SearchResults`: `Deliverable` says what a page may
yield, some of its jobs in their order, or none for an answer without elements. The theorem `CollectorGetsItsPages`
says that what `SearchPage` returns is that; `Collector!FairSpec` rests on `PageEnds`. The theorem
`VerdictsAreTheHistorys` says that what `JobEvaluation` ends in is among the `Verdict`s that `JobHistory` lets filters
and model give.

`MC*` modules instantiate for TLC. Operators that a comment calls "A slip" are plausible bugs of the code
(a dropped guard, a missing reset, a swapped order), one or more for each property: put in the place of
the definition they precede, the property fails. They are never part of a specification.

### Abstractions worth knowing

- A card or posting is its job, and its content one of a few values. What the LLM or a filter says is any value
  of its type, except in `JobEvaluation`.
- In `Orchestrator` (and `LinkedInSession`) an `UPDATE` writes the columns whose value differs from the one loaded
  (`Committed`), and makes another's wait until its transaction ends (`RowIsLocked`; `last_validated_at` differs always).
  An account may begin with an expired row; logins while runs go on are in `LinkedInSession`. A commit of a run that
  fails is taken not to have reached the database. When the database fails the `except` or `finally` clause, the
  broken session takes no release either: that is `Crash`.
- In `Scheduler` a commit that raises may have reached the database or not. `Dispatch` merges APScheduler's submission
  of a job with the start of `on_trigger`: the pool has a worker to spare. A jitter as long as the interval is outside of
  its assumption (`JitterWindow < Interval`), though `schema.py:191-192` does not refuse it.
- `JobEvaluation` counts the attempts of the adapter; the Anthropic client repeats requests on its own account as
  well (`anthropic_adapter.py:75`).
- `NotLockedOut`, and the half of `AlertFollowsSession` about a good session, are about an account that has a row:
  without one `validate` refuses, whatever LinkedIn says, until a login has made it.
- In `LinkedInSession`, `search_jobs_page` reads the row anew before every page: SQLAlchemy's identity map
  holds objects weakly, and `validate` drops its own once it is flushed.
- In `SecretsStore` a key comes from a finite set, and a fresh one is one that is nowhere. `Bootstrap` leaves the
  lease of a living holder to `RunLock` and `Orchestrator`: its lock is taken, given back, or left by the dead.
- In `Configuration` a version is the set of rules of `schema.py` and `validator.py` that it breaks; one rule stands
  for all, since the loader refuses any. The bounds of `schema.py` are assumptions of the modules that depend on
  them (`CollectorAssumption`: at least one query, one attempt, a positive threshold).
- In `SearchPage` a card is its job, whole or not; a description is the job it belongs to.
- `LinkedInSession` takes the lease for granted (a run or login is shorter); `Orchestrator` studies what
  happens otherwise.
- A run that ends by an exception and a process that dies are different actions: the first rolls back or
  commits, logs and releases; the second leaves what was committed.

## 3. Runs

One run for each module that runs by itself, and two more that end in a counterexample: there the code departs from a
sentence of the documents or of its own comments, quoted in `PROJECT.json`, and TLC shows how.

| Run | Instance | Distinct states | Shows |
|---|---|---|---|
| `MCRunLock` | 3 owners, lease 2, clock to 7 | 97 000 | nobody is robbed of a running lease, whoever releases late or crashes; the row implements `Lease`; a crashed holder is outlived |
| `MCOrchestrator` | 2 runs, 2 jobs, lease 1, runs of up to 3, clock to 5 | 2 199 000 | when two runs work, one is past its lease; every end is recorded; history and report change in the one step that makes the outcome known; `first_seen_at` survives overlapping runs; failures keep the truth about the session, whatever its row said before and whoever else has loaded it; the lock is used as `RunLock` wants it |
| `MCJobHistory` | 2 jobs, 2 contents, 1 place in Top Matches; lost cards, or duplicates, or a changing blacklist | 4 749 000 | NEW is told once; departments show changes; nothing scored goes unreported; a closed job was missed; the reports keep the promise of `Reports`, of which Previously Reported is part |
| `MCBlacklisted` | 1 job, changing blacklist | – | finds a blacklisted job in a report |
| `MCCollector` | 2 queries, 3 jobs, pages of 2, cap 4, 2 attempts, breaker at 2, lists that change, answers that lack jobs | 561 000 | cap; breaker neither early nor late; a complete scan has every list that stood still and was sent in full; the collection ends |
| `MCSearchPage` | a page of up to 2 jobs, 4 responses | 1 301 000 | an empty page is an answered one; what was captured is used; records do not mix jobs; the browser is closed in the end |
| `MCBootstrap` | 2 processes, 3 keys, 2 secrets, 2 versions of the configuration | 2 649 000 | secrets survive and can be read; contexts are whole, valid and of the run's time; only a first run calls itself one |
| `MCScheduler` | interval 4, jitter 1; all faults but calls and failing commits together, and neither lateness nor a failing database | 2 200 | what is armed is stored; a cancel is kept, both unless a rollback or a failed commit took it back; `Timetable` is kept: runs are wanted, alone and apart; without late triggers and database errors the account runs again and again |
| `MCScheduleIsKept` | late triggers | – | finds the account never armed again |
| `MCLinkedInSession` | scheduled trigger, manual run, login, 2 faults | 8 000 | work under the lock, and on the profile nobody but its holder and the re-check; collection after acceptance, nobody locked out, alert follows the session |
| `MCCatalogue` | 2 accounts of different weights, 2 companies, 2 jobs, 2 days, 1 fault | 4 718 000 | no dangling key, fresh scores, one score for each run; nothing is stuck |
| `MCJobEvaluation` | every posting and answer, scores in fifths, 3 attempts, two weightings | 456 000 | cheap filters first, earned score, true mean |

The type invariant of a module is the first conjunct of one of its properties, with a comment that says so, and is
checked with it; those of `RunLock` and `Orchestrator` are proved instead.

What can go wrong besides is a variable (`faults` of `JobHistory` and `Scheduler`, `weights` of
`JobEvaluation`) that `Init` takes from a constant set: one run covers several settings, and a property that
needs one of them to be absent says so in its own condition (`DepartmentsShowChanges`, `ScheduleIsKeptInTime`).

### Bounds and why they are enough

- *Clock* (`MaxClock`): leases and runs are 1 to 3 units; the clock goes on long enough for a lease to be
  taken, to end, to be taken by another and to be released late by the first. `RunAccount` starts only while a
  whole lease fits below the bound.
- *Two runs of an account*: every race in the orchestrator is between a run and one that overlaps or
  follows it; RunLock is checked with three, where a release of the first meets a lease of the third.
- *Two jobs, two contents*: a job that is seen and one that is missed, competing for one place in Top Matches;
  a job changed and changed back. `MaxCount` 1 saturates `report_appearances_count`, of which only zero or
  not is ever tested; `MaxScore` 0 leaves "a score or none", as no property compares two. Runs are not bounded.
  Each set of faults is checked on its own, so that no history has a lost card and a duplicate.
- *Two queries, pages of two*: a list of a page and a half, a card that slips from the second page to the first,
  a cap met within a page and at its end, a failure of each query, and one followed by an answer and another
  failure.
- *Four responses to a page of two*: both answers, each twice, or broken before a good one; two jobs that can be
  confused with one another, or swapped.
- *Two processes, three keys, two secrets*: one key of an environment and one that each process makes; the API key and
  a secret next to it that a lost update loses. Keys are symmetric: the run has safety properties only.
- *Two versions*: the seeded one and one in its place, either of which may be invalid.
- *Interval 4, jitter 1*: an early and a late time with room between; times are kept as distances from now,
  so that the run of the daemon is not bounded. `MCScheduler` keeps calls and failing
  commits apart, because together they break the spacing of runs (section 4); `ArmedIsStored` and `CancelIsKept` are
  proved of the two together.
- *Faults* (`MaxFaults`): one in `MCCatalogue`, where each deadlock and integrity error is a failure as well;
  two in `MCLinkedInSession`, enough for a refusal after a crash.
- *Days* 0 and 1 with a window of 0: a score is fresh, and then is not.
- *Fifths*: both thresholds, both ends of the bands, and values between and beyond them.

`CHECK_DEADLOCK FALSE` stands in the runs of RunLock and Orchestrator only: every attempt is over and the
clock is at its bound. The other specifications never stop, or say where they may (`Done`, `Ended`). Runs with
a liveness property have no symmetry.

### Fairness

- `RunLock`: weak fairness of the clock, nothing else: the lease of a dead holder ends.
- `SearchPage`: weak fairness of the function itself: `goto` and both waits have a time-out, and closing the browser
  is taken to end. None for LinkedIn: it may never answer.
- `Collector`: weak fairness of "the request is answered, or fails": that is `PageEnds` of `SearchPage`, and
  `retry_with_backoff` bounds the attempts. No fairness on which of the two it is, and none for the lists.
- `Scheduler`: threads are scheduled, runs end, the container is started again (`restart: unless-stopped`).
  The scheduler and the clock get their turn between calls, however often somebody calls (strong fairness).
  That a trigger is taken in time and that the database answers, commits included, are not matters of fairness:
  `ScheduleIsKeptInTime` leaves those faults out, `MCScheduleIsKept` lets the first one in.
- `LinkedInSession`: whoever has begun goes on, a login has its time-out, a lease its end. The trigger fires
  again and again (`Scheduler`) and finds the lock free at times; a collection comes to the end of its pages
  (`Collector`); who waits for the row gets it, as PostgreSQL queues them: strong fairness of these three.
  Nobody has to log in, and LinkedIn may end a session at any time.
- `Orchestrator`, `JobHistory`, `Bootstrap`, `Catalogue` and `JobEvaluation` are checked for safety only.

## 4. Proofs

| Module | About | Inductive invariant |
|---|---|---|
| `RunLockProofs` | `RunLock`, `Lease` | `TypeOK`, `LeaseIsRow` |
| `OrchestratorProofs` | `Orchestrator` | `TypeOK`, `PositionTells`, `WorkingRunHoldsRow`, `FoundTells`, `LoadedTells` |
| `BootstrapProofs` | `SecretsStore`, `Configuration`, `Bootstrap` | `CallIsMade`, `EncryptedWithOneKey`, `RowsAreWhole`, `AttemptIsCurrent`, `FirstRunIsKnown` and types |
| `CollectorProofs` | `Collector`, `SearchPage`, `SearchResults` | `TypeOK`, `Progress`, `HasWhatItRead`; `PageInvariant` |
| `JobHistoryProofs` | `JobHistory`, `Reports`, `JobEvaluation` | `TypeOK`, `HistoryTells`, `ScanTells`; `EvaluationInvariant` |
| `LinkedInSessionProofs` | `LinkedInSession` | `TypeOK`, `HolderWorks`, `CheckIsHeld` |
| `SchedulerProofs` | `Scheduler`, `Timetable` | `TypeOK`, `DownIsEmpty`, `RowIsStored`, `ArmedIsRow`, `NobodyCalls`, `OneTimeToCome`, `CancelledStays`, `TimesAreApart` |
| `CatalogueProofs` | `Catalogue` | `TypeOK`, `RowsStand`, `WritesStand`, `CompaniesComeFirst`, `AskedOnce`, `UsedScoreIsFresh` |

They hold for any number of owners, runs, accounts, companies, jobs, queries, processes, logins, keys, secrets and
versions, any lease, clock bound, cap, threshold, interval, window and set of faults, from the named assumptions of the
modules (`NoOwner` is no owner, bounds are naturals, `None` is neither a key nor a row, jobs are not companies); four
theorems have a hypothesis of their own, given below.

*RunLock.* Exclusion is not inductive: it says nothing of the row. `LeaseIsRow` is: whoever is within its
lease is named by the row with the expiry it asked for, and nobody's `now` is later than the clock. A row
names one owner, so exclusion (`LeaseExclusion`) follows; the takeover needs `lock_expires_at < now`, and
`now <= clock`, so it comes after the lease. `RunningLeaseKept` and the refinement of `Lease` are action
properties under the same invariant. The lemmas say what one step does to the row: a grant makes it the
taker's lease (`GrantedRowIsLease`), a late release leaves another's alone (`ReleasedRowIsNobodys`), a takeover
finds nobody (`TakenWhenNobodyHolds`), anything else leaves the holder or nobody (`HeldUntilItEnds`).

*Orchestrator.* `TypeOK /\ PositionTells` is inductive. `PositionTells` says what the position of a run
tells: no log before its end, no file before `compile`, the file there at `update`, its postings
committed once it evaluates, the row of the lock not its own before it has taken it or after it gave it back.
From it follow `LockGivenBack` (a run that is over does not keep the account locked), `HistoryHasPostings`
(the foreign key of `evaluated_jobs`), `OutcomeIsRecorded`, and, as steps, `AtomicFinalState` and
`FirstSeenIsKept` (which rests on the unique constraint alone). `UsesRunLock` maps every step to a step of
RunLock or to a stutter.

`OneRunWithinLease` is proved through `WorkingRunHoldsRow`: a run that works within its lease is the one the
row names. FR-12 as the PRD has it, `OneRunAtATime`, follows with the extra hypothesis
`MaxRunTime <= LockDuration`, and fails without it (section 5).

`FailureKeepsSessionTruth` is about the step of the except clause that commits or rolls back. `FoundTells`: a run that
has found the session dead is on its way there with a session error, so that the clause that rolls back never meets
that finding. If the run loaded another status it writes EXPIRED. If it loaded EXPIRED it writes no status, and the row
must still say so: `LoadedTells`, for a run that took the lock when nobody else worked and is in its lease. Nobody takes
the lock from it (`LeaseIsRespected`), so it works alone, and what it loaded is what is committed. Two runs that overlap
are exempt, since another's VALID can come in between (section 5).

The proofs go action by action; the lemmas around `Becomes` turn the change of one run's record into facts
about its fields, so that each action is settled from its own definition.

*SecretsStore.* `SecretsAreKept` is inductive once the state is typed and `CallIsMade` says which call a process is
in: nothing but `os.replace` touches the file. `SecretsAreReadable` is about one answer; what makes it true is
`EncryptedWithOneKey`: as long as nobody replaced a key and the environments agree, all keys held, all tokens in the
file and all that a `set()` has read are of one key. When somebody makes the first key there can be no token yet,
since its key would have been nothing.

*Bootstrap* maps every step to one of the store or to a stutter (`UsesSecretsStore`). `ContextIsWhole` follows from
`RowsAreWhole` (a seed is committed with all its rows) and `AttemptIsCurrent`: the version active now is among those
active since the attempt began, and what was loaded is no newer than it and never changes. `BootstrapIsTruthful`
follows from `FirstRunIsKnown`, where the lock comes in: who works holds it, so that no other run ends beside it.

*Collector.* `CapIsRespected` and `BreakerIsExact` follow from `TypeOK` and `Progress`: a running collection has a card
for every page of the query it has left behind and is below the cap, and
`refused = consecutiveFailures * RetryAttempts + (attempt - 1)`, so that the requests refused since the last answer and
the two counters of the code tell the same. The products of constants are set apart in `OneMore`, `Fewer` and `Below`.

`ScanIsWhole` is the invariant at the end of `HasWhatItRead`: unless a query has failed, the scan has every card of the
lists behind it and, of the one it reads, the first `page * PageSize` cards, as long as they stood still and were sent in
full. The lemmas `KeptIs` and `PageIs` say what the cap and the offset leave of a page; `KeptOfNothing`, that an empty
page means the end of the list.

`RequestsAreBounded` is what can be proved of `CollectionEnds`: every request that is answered or fails raises
`RequestNumber` or ends the collection, and `RequestNumber` never exceeds `MaxRequests`. Every page asked for has given a
card that is kept or has ended its query, whence (cap + queries - 1) times attempts, a bound that is reached. What
is left to fairness is that the next request is made and answered at all.

*SearchPage.* `PageInvariant` is the three properties with `PageOrder`, which says that the steps of the function come
one after the other: descriptions are waited for only once the first captured body has cards, a result ends the
function, only a page has records, and no browser is open before it or after it. `EmptyIsAnswered` and
`CapturedIsUsed` are then read off the two steps that decide. The records' jobs are a part of the page (`IsPartOf`),
in its order; that is all Collector asks of a page (`CollectorGetsItsPages`), besides that a page of a list without
repetitions has none (`PagesAre`).

*JobHistory.* None of the properties is inductive, since `reported` and `announced` only remember. `HistoryTells` ties
them to the rows: a job announced has a row that is not closed (until a run closes it, and with that ends the
announcement); a row with an appearance, or with a score and a department, has been in a report. `NewIsToldOnce` then
rests on the diff, which calls NEW only what has no row or a closed one. `ScanTells` keeps what a complete scan is
worth between `EndScan` and `FinishSome`: what was listed throughout is in it or lost. `DepartmentsShowChanges` needs
in addition that hash and content kept of a job are of one posting, which a job found twice by a scan breaks.

`HistoryImplementsReports` puts the promises to a reader together: `FinishPublishes` shows that the end of a run is
one `Publish` of `Reports`, of the jobs it closes, and the start of the next puts the report away; every other step
leaves the reader alone. `OnlyTopMatchesEscapeTheBlacklist` states what holds in place of `BlacklistedIsNeverReported`
(section 5): a blacklisted job gets nowhere in a report but among the Top Matches, and there neither as new nor as
updated.

*JobEvaluation.* `EvaluationInvariant` adds to the three properties what the position tells of the questions asked
(`StageTells`: no question before the free filters, no score of a job that a paid filter turns away, no rationale without figures) and
what the verdict tells of the posting (`VerdictTells`). `ScoresAreMeans` is linear arithmetic once the products of
weights and figures are set apart: `Monotone` compares two of them, so that a sum lies between the least figure and
the scale times the weights that take part, whichever of them are 0. `VerdictsAreTheHistorys` joins the evaluation to
`JobHistory`, for a history whose scores go up to the scale (`MaxScore = Scale`, its only hypothesis).
`CallsAreBounded` counts calls as `RequestsAreBounded` counts requests: five questions, each put once more for repair,
each with its attempts.

*LinkedInSession.* `WorkIsUnderLock` follows from `HolderWorks`: whoever works has the lock, a browser is open only at
the two positions that use it, and the trigger starts no run before its re-check is over. The re-check has no lock,
which is why it stands as the exception in the property. `CollectsOnlyWhenAccepted` is `CheckIsHeld` read at the later
positions: the run wrote VALID, or loaded VALID and left it out of its `UPDATE`, and has been the row's writer since.

*Scheduler.* Three times can be to come: in memory, in the row as the shared session sees it, and in the row
committed. `ArmedIsRow` says that the first two agree until the database refuses a time, `RowIsStored` where the last
two may differ (a call not committed yet, `_fire()` between its write and the listener), `OneTimeToCome` that what is
to come is what is armed, `CancelledStays` what a cancellation leaves for a `_fire()` that has still to look,
`TimesAreApart` that each of the three is far enough from the last trigger; with all three, `RunsAreSpaced` holds
across a restart from any of them, and with it every step is one of `Timetable` or a stutter
(`SchedulerKeepsTimetable`), where `CancelledStays` is what makes a run after `cancel()` impossible. `ArmedIsStored`
and `CancelIsKept` are proved with all faults together; what they except is `undone`: calls and `_fire()` share a session, a
rollback for one takes back the other's writes, and a commit that fails in the listener leaves memory armed with the
old row (section 5). `OneTimeToCome` and `TimesAreApart`, and with them the theorems on spacing and timetable, need
`Plain`: no calls together with failing commits (a hypothesis of `RunsKeepTheirDistance` and
`SchedulerKeepsTimetable`). A call that stores a time while a run goes on, and the commit of the re-arming that should
replace it failing, leave a time in the row that a later call or restart honours, right after the run that was armed.
The daemon makes no call after its start (`main.py:291`); the adapter's interface allows it. Without calls,
`NobodyCalls` says that the row has no time to come while `_fire()` is under way, and a commit that fails leaves the
time that is armed or none. Times are cited by lemmas and never expanded next to `None`; the comment there says why.

*Catalogue.* `NothingDangles` is about a statement at the moment it is made; it is the end of an order: companies are
written before the postings that name them (`CompaniesComeFirst`), and what others have committed stays (`RowsStand`),
so that neither rollback nor deadlock of another run takes a company away (`WritesStand`). `OneScorePerRun` needs
`AskedOnce`: the companies still to be scored have no score in this run yet.

*Only model-checked*: the liveness properties below, and the two runs that end in a counterexample.

*Out of the prover's reach*, and left to TLC: liveness and anything with ENABLED (`CrashedHolderIsOutlived`,
`CollectionEnds`, `PageEnds`, `ScheduleIsKeptInTime`, `NotLockedOut`, `AlertFollowsSession`); induction over data. No
property needs the latter: `SearchPage` says what the records are by `IsPartOf` and a set rather than by `SelectSeq`, and
that there always are such records is left to TLC, where the step that returns them fires. No
module declares a RECURSIVE operator, so that all of them can be proved about.

## 5. Where code and documents part

Two departures have a run and a finding in `PROJECT.json`: a job blacklisted after its evaluation stays in the Top
Matches; a late trigger ends the schedule.

The others were met while the models were written, and are kept here with the sentence they depart from. `P`
is `src/LinkedInBot-PRD.md`, `T` is `src/LinkedInBot-TDD.md`, paths are in `linkedinbot/`.

| The code | The sentence |
|---|---|
| `collector.py:465` skips a card it cannot read, the scan stays complete, and a listed job is closed (`ClosedJobsWereMissed` is about jobs missing from the scan) | `run/orchestrator.py:599` "FR-10 "Closed Job Detection," yalnizca GERCEKTEN kapali ilanlar icindir" |
| `playwright_client.py:587` takes the first answer with the URL, an error without elements too, for an empty page, and the query ends as a complete one | `playwright_client.py:490` "YALNIZCA bir Job Cards yaniti GERCEKTEN geldiginde ve sifir kart icerdiginde" |
| `main.py:182` validates after a failed trigger without the lock, and opens the browser profile beside its holder (`WorkIsUnderLock` makes this one exception) | `cli.py:394` "AYNI hesabin kalici Chromium profilini ES ZAMANLI acmaya calismasini ... engeller" |
| `bootstrap.py:148` and `orchestrator.py:821` load the configuration twice for a run; retries and the run can go by different versions | T:570 "her Run'ın başında **bir kez** okunup `AccountContext` içine "dondurulur"" |
| `main.py:272` reads interval and jitter once, when the daemon starts | P:339 "konfigürasyonu günceller; bir sonraki çalıştırma yeni kriterlere göre sonuç üretir" |
| `bootstrap.py:148-152` can fail (no secret, invalid configuration) before `orchestrator.run()`: no run log | P:278 "sessiz hata oluşmaz" |
| `local_keyring_adapter.py:95`: two processes without a key each make one; what the first encrypted nobody can read (`rivals`) | `local_keyring_adapter.py:27` "keychain'deki mevcut anahtar > (hicbiri yoksa) yeni uretilip keychain'e kalici olarak yazilan bir anahtar" |
| `run_lock.py:130` takes over a row past its expiry, and nobody renews a lease (`bootstrap.py:70`, two hours): an overlong run works beside the next | P:264 "aynı anda birden fazla çalıştırma başlatılmaz" |
| `bootstrap.py:99` decides `is_bootstrap` before the lock is taken: a run that waited behind the first reports a second bootstrap | P:780 "Sistem ilk kez çalışıyor (Job History Store boş)" |
| `domain/run_log.py:75` refuses an empty `error_detail`: an exception without a message leaves no log (`OutcomeIsRecorded` allows for it: "mute") | P:278 "sessiz hata oluşmaz" |
| `collector.py:365` pages by offset: a card can slip to a page already read, and the scan is still complete (`ScanIsWhole` is about lists that stand still) | `collector.py:153` "bu varsayimin gecerli olup olmadigini temsil eden TEK, birlestirilmis alandir" |
| `orchestrator.py:506` keeps the last hash of a job found twice, `diff_engine.py` its first posting | `diff_engine.py:78` "ilk gorulen haliyle TEK bir sonuca indirgenir" |
| `orchestrator.py:326` reuses a row whatever `config_version_used` it has | `orchestrator.py:312` "ayni girdi + ayni config ayni sonucu uretecegi icin" |
| `orchestrator.py:326` makes an unchanged Excluded job Seen | `orchestrator.py:101` "kalici/yapiskan bir durum" |
| `domain/evaluated_job.py:114`: a re-evaluation sets `report_appearances_count` to 0, so that a job reported before can come back unmarked | P:602 "açıkça "Previously Reported" olarak işaretlenerek" |
| `ranker.py:59`: `thresholds.ai_match_score` keeps nothing out of a report | P:478 "rapora dahil edilmez" |
| `ranker.py:49`: borderline jobs are in the groups of the others | P:282 "ana departman gruplarından ayrı, açıkça etiketlenmiş şekilde sunulur" |
| `cli.py:464`: a login leaves `NEEDS_LOGIN.txt` to the next scheduled run | `main.py:142` "'su an cozulmemis bir oturum sorunu var' anlamina gelir" |
| `orchestrator.py:540`: look, then insert: two accounts' runs can fail each other by a duplicate key or a deadlock | T:495 "Bunlar idempotent ve hesaplar arası paylaşılabilir olduğundan" |
| `orchestrator.py:289`: company scores are shared by accounts of different weights | P:445 "o kullanıcı için ayrı bir skor kaydı tutulur" (a choice for V1, says `orchestrator.py:80`) |
| `main.py:243-255`: the error listener rolls back the session that `cancel()` and `schedule_next_run()` write to; a call made while a job fails is undone in the database before or at its commit, and memory and row part (`undone`) | `apscheduler_adapter.py:18` "(CLI/ana akisla PAYLASILMADIGINDAN) emin olmalidir - SQLAlchemy `Session` nesneleri thread-safe DEGILDIR" |
| `main.py:248`: a commit that fails in the executed-listener is only logged. Memory is armed, the row is not, nobody rolls back, the next re-arming raises and the account drops out | `apscheduler_adapter.py:208` "yeniden-kurma HER KOSULDA (basari VEYA hata) calismalidir" |
| `session_manager.py:217` writes no status when the row it loaded said EXPIRED: of two runs that overlap, the other's VALID can stay after it (`FailureKeepsSessionTruth` exempts them) | `orchestrator.py:848` "gercekte gecersiz olan bir oturumu sonsuza kadar \"valid\" gosterir halde birakirdi" |
| `orchestrator.py:843-856` commits the EXPIRED mark of a failed validation | `main.py:166-175` explains the second `validate()` by its rollback |

## 6. Not modelled

- The text of reports, prompts, logs and file names; the HTML and JSON of LinkedIn; parsing of dates, URLs
  and YAML: data without control that the properties would notice. `FilesystemReportStore.save` publishes a whole file
  under a name of its own by one `link(2)`: one step of `Orchestrator!CompileReport`.
- `SessionManager.ensure_session()`: no path of the program calls it.
- The prompt registry, structured logging, the ports: no state that another part reads. `config validate` reads files.
- File permissions of the secrets; that two calls of `set()` may lose one another's is admitted by
  `local_keyring_adapter.py` (line 166) and by `SecretsAreKept` (`overtaken`).
- Migrations, backup and container: run by hand, outside of the program.
- Delays and backoff times: only that they end.

## 7. Plan

Done: the modules of section 2, in the order lock, orchestrator, history, collector, scheduler, session, catalogue,
evaluation, page, secrets, configuration, bootstrap, then the abstract specifications of reports and timetable; the
proofs of section 4: every safety property and every refinement that a passing run checks, and how page and collection,
evaluation and history fit.

Next, in this order:

1. `JobHistory!FinishSome` from `Orchestrator`'s steps: both write `evaluated_jobs`, one with what a row says, the other
   with when it is committed; a common abstraction of the two would replace the argument by `AtomicFinalState`.
2. The trigger of `LinkedInSession` as a `Run` of `Timetable`, so that its fairness of the trigger is `Scheduler`'s.
3. Rendering, if the sections of a report come to depend on more than the status of a job.
