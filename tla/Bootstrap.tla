----------------------------- MODULE Bootstrap ------------------------------
(***************************************************************************)
(* How a run comes about: build_dependencies() and run_account() of        *)
(* bootstrap.py, called by the daemon and by the run command, down to the  *)
(* pipeline.  The account's rows are those of Configuration, the LLM's key *)
(* is one of the secrets of SecretsStore; both change while runs are being *)
(* prepared, and secrets are set by the same processes.                    *)
(***************************************************************************)
EXTENDS Configuration, SecretsStore

CONSTANTS
  ApiKey,    \* "anthropic_api_key"
  Dead       \* a holder of the lock that is no more

ASSUME BootstrapAssumption == ApiKey \in Name /\ None \notin Process /\ Dead \notin Process \cup {None}

VARIABLES
  at,           \* where each process is
  first, used,  \* the versions of its two calls of load_account_context()
  isBootstrap,  \* of run_account()
  since,        \* the versions that have been active since it began
  overlapped,   \* whether another run has ended since it looked at the history
  lock,         \* the holder of the account's lock
  history       \* whether the account has evaluated jobs

attempt == <<at, first, used, isBootstrap, since, overlapped>>
vars == <<tables, secretsVars, attempt, lock, history>>

TypeOK ==
  /\ ConfigurationTypeOK /\ SecretsTypeOK
  /\ at \in [Process -> {"idle", "setting", "context", "secret", "history", "again", "lock", "working"}]
  /\ first \in [Process -> 0..MaxVersions] /\ used \in [Process -> 0..MaxVersions]
  /\ isBootstrap \in [Process -> BOOLEAN] /\ overlapped \in [Process -> BOOLEAN]
  /\ since \in [Process -> SUBSET Version]
  /\ lock \in Process \cup {None, Dead} /\ history \in BOOLEAN

Init ==
  /\ ConfigurationInit /\ SecretsInit
  /\ at = [p \in Process |-> "idle"]
  /\ first = [p \in Process |-> 0] /\ used = [p \in Process |-> 0]
  /\ isBootstrap = [p \in Process |-> FALSE] /\ overlapped = [p \in Process |-> FALSE]
  /\ since = [p \in Process |-> {}]
  /\ lock = None /\ history = FALSE

-----------------------------------------------------------------------------
Goes(p, place) == at' = [at EXCEPT ![p] = place]

(* The attempt is over. *)
Ends(p) ==
  /\ Goes(p, "idle")
  /\ first' = [first EXCEPT ![p] = 0] /\ used' = [used EXCEPT ![p] = 0]
  /\ isBootstrap' = [isBootstrap EXCEPT ![p] = FALSE] /\ overlapped' = [overlapped EXCEPT ![p] = FALSE]
  /\ since' = [since EXCEPT ![p] = {}]

(* A trigger fires, or the run command is given. *)
Begin(p) ==
  /\ at[p] = "idle" /\ Goes(p, "context")
  /\ since' = [since EXCEPT ![p] = {rows.version} \ {0}]
  /\ UNCHANGED <<tables, secretsVars, first, used, isBootstrap, overlapped, lock, history>>

(* A slip: the context is that of the start of the process. *)
FirstLoadAtStart(p) ==
  /\ at[p] = "context" /\ rows.version # 0
  /\ Goes(p, "secret") /\ first' = [first EXCEPT ![p] = 1]
  /\ Ask(p, [op |-> "get", name |-> ApiKey, value |-> None])
  /\ UNCHANGED <<tables, used, isBootstrap, since, overlapped, lock, history>>

(* build_dependencies() loads the context for the retry parameters of the LLM *)
(* adapter.  Its failures leave no log of a run.                              *)
FirstLoad(p) ==
  /\ at[p] = "context"
  /\ IF Loaded # "context" THEN Ends(p) /\ UNCHANGED secretsVars
     ELSE /\ Goes(p, "secret") /\ first' = [first EXCEPT ![p] = rows.version]
          /\ Ask(p, [op |-> "get", name |-> ApiKey, value |-> None])
          /\ UNCHANGED <<used, isBootstrap, since, overlapped>>
  /\ UNCHANGED <<tables, lock, history>>

(* _require_secret() *)
RequireSecret(p) ==
  /\ at[p] = "secret"
  /\ IF answer[p] \in Value
       THEN Goes(p, "history") /\ UNCHANGED <<first, used, isBootstrap, since, overlapped>>
       ELSE Ends(p)
  /\ Return(p)
  /\ UNCHANGED <<tables, lock, history>>

(* A slip: the first run of a process is taken for that of the account. *)
CountHistoryOfProcess(p) ==
  /\ at[p] = "history" /\ Goes(p, "again")
  /\ isBootstrap' = [isBootstrap EXCEPT ![p] = TRUE]
  /\ UNCHANGED <<tables, secretsVars, first, used, since, overlapped, lock, history>>

(* run_account() looks whether there is a history, before there is a lock. *)
CountHistory(p) ==
  /\ at[p] = "history" /\ Goes(p, "again")
  /\ isBootstrap' = [isBootstrap EXCEPT ![p] = ~history]
  /\ UNCHANGED <<tables, secretsVars, first, used, since, overlapped, lock, history>>

(* run() loads the context once more; a failure of this one is logged. *)
SecondLoad(p) ==
  /\ at[p] = "again"
  /\ IF Loaded # "context" THEN Ends(p)
     ELSE /\ Goes(p, "lock") /\ used' = [used EXCEPT ![p] = rows.version]
          /\ UNCHANGED <<first, isBootstrap, since, overlapped>>
  /\ UNCHANGED <<tables, secretsVars, lock, history>>

Acquire(p) ==
  /\ at[p] = "lock"
  /\ IF lock # None THEN Ends(p) /\ UNCHANGED lock
     ELSE /\ Goes(p, "working") /\ lock' = p
          /\ UNCHANGED <<first, used, isBootstrap, since, overlapped>>
  /\ UNCHANGED <<tables, secretsVars, history>>

(* The pipeline ends, with jobs evaluated or without, and the lock is released. *)
Finish(p) ==
  /\ at[p] = "working" /\ lock' = None
  /\ history' \in {history, TRUE}
  /\ Goes(p, "idle")
  /\ first' = [first EXCEPT ![p] = 0] /\ used' = [used EXCEPT ![p] = 0]
  /\ isBootstrap' = [isBootstrap EXCEPT ![p] = FALSE]
  /\ since' = [since EXCEPT ![p] = {}]
  /\ overlapped' = [q \in Process |-> q # p /\ (overlapped[q] \/ at[q] \in {"again", "lock"})]
  /\ UNCHANGED <<tables, secretsVars>>

(* Somebody sets a secret, as docker-compose.yml tells how to. *)
BeginSet(p) ==
  /\ at[p] = "idle" /\ Goes(p, "setting")
  /\ \E name \in Name, value \in Value : Ask(p, [op |-> "set", name |-> name, value |-> value])
  /\ UNCHANGED <<tables, first, used, isBootstrap, since, overlapped, lock, history>>

EndSet(p) ==
  /\ at[p] = "setting" /\ Goes(p, "idle") /\ Return(p)
  /\ UNCHANGED <<tables, first, used, isBootstrap, since, overlapped, lock, history>>

(* The process dies; the lease of a lock that it holds goes on. *)
Crash(p) ==
  /\ at[p] # "idle" /\ Ends(p)
  /\ IF doing[p] = "nothing" THEN UNCHANGED secretsVars ELSE ProcessDies(p)
  /\ lock' = IF lock = p THEN Dead ELSE lock
  /\ UNCHANGED <<tables, history>>

LeaseEnds ==
  /\ lock = Dead /\ lock' = None
  /\ UNCHANGED <<tables, secretsVars, attempt, history>>

UseSecrets(p) == Work(p) /\ UNCHANGED <<tables, attempt, lock, history>>

Configure ==
  /\ ConfigurationNext
  /\ since' = [p \in Process |-> IF at[p] \in {"idle", "setting"} THEN {}
                                 ELSE since[p] \cup ({rows'.version} \ {0})]
  /\ UNCHANGED <<secretsVars, at, first, used, isBootstrap, overlapped, lock, history>>

Next ==
  \/ Configure \/ LeaseEnds
  \/ \E p \in Process :
       \/ Begin(p) \/ FirstLoad(p) \/ RequireSecret(p) \/ CountHistory(p) \/ SecondLoad(p)
       \/ Acquire(p) \/ Finish(p) \/ BeginSet(p) \/ EndSet(p) \/ Crash(p) \/ UseSecrets(p)

Spec == Init /\ [][Next]_vars
-----------------------------------------------------------------------------
(* TDD 23: a run works with a context that was whole and valid at one moment   *)
(* since it was begun, and so do its retries, if perhaps not with the same:    *)
(* of a seed all rows are seen or none, and what makes a version invalid stops *)
(* the run whenever it is activated.  (The first conjunct types the state.)    *)
ContextIsWhole ==
  /\ TypeOK
  /\ Loaded \notin {"noProfile", "noConfig"}
  /\ \A p \in Process :
       /\ first[p] # 0 => first[p] \in since[p] /\ Valid(first[p])
       /\ used[p] # 0 => used[p] \in since[p] /\ Valid(used[p]) /\ first[p] <= used[p]

(* FR-20: a run takes itself for the account's first one if and only if there   *)
(* is no history, unless another run ended between its look and its lock.      *)
BootstrapIsTruthful ==
  \A p \in Process :
    at[p] = "working" => (isBootstrap[p] = ~history) \/ (isBootstrap[p] /\ overlapped[p])
=============================================================================
