--------------------------- MODULE Configuration ----------------------------
(***************************************************************************)
(* The account's rows as the seed command writes them and load_account_    *)
(* context() reads them, with validate_config().  A version of the         *)
(* configuration is known by the rules it breaks; changing the active one  *)
(* is done outside the program, in one transaction.                        *)
(***************************************************************************)
EXTENDS Naturals

CONSTANTS
  Rule,         \* the rules of schema.py and validator.py
  MaxVersions   \* bound on the versions of the configuration

ASSUME ConfigurationAssumption == MaxVersions \in Nat \ {0}

VARIABLES
  breaks,    \* the rules that each version breaks which has been written
  rows,      \* what is committed; version 0 is no active configuration
  flushed    \* what a seed has written and not committed

tables == <<breaks, rows, flushed>>

Version == 1..MaxVersions
Rows == [account : BOOLEAN, profile : BOOLEAN, version : 0..MaxVersions]
NoRows == [account |-> FALSE, profile |-> FALSE, version |-> 0]

ConfigurationTypeOK ==
  /\ breaks \in [Version -> SUBSET Rule]
  /\ rows \in Rows /\ flushed \in Rows

ConfigurationInit ==
  /\ breaks = [version \in Version |-> {}]
  /\ rows = NoRows /\ flushed = NoRows

-----------------------------------------------------------------------------
(* validate_config(): whatever is broken, the configuration is refused. *)
Valid(version) == breaks[version] = {}

(* load_account_context(): what it returns or raises. *)
Loaded ==
  IF ~rows.account THEN "noAccount"
  ELSE IF ~rows.profile THEN "noProfile"
  ELSE IF rows.version = 0 THEN "noConfig"
  ELSE IF ~Valid(rows.version) THEN "invalid"
  ELSE "context"

(* What a version that is written breaks. *)
Written(version) == \E rules \in SUBSET Rule : breaks' = [breaks EXCEPT ![version] = rules]

(* seed() flushes the account, the profile and version 1 one after the other, *)
(* without looking at what is in the files beyond their keys.                 *)
Seed ==
  /\ rows = NoRows
  /\ \/ ~flushed.account /\ flushed' = [flushed EXCEPT !.account = TRUE] /\ UNCHANGED breaks
     \/ flushed.account /\ ~flushed.profile /\ flushed' = [flushed EXCEPT !.profile = TRUE] /\ UNCHANGED breaks
     \/ flushed.profile /\ flushed.version = 0 /\ flushed' = [flushed EXCEPT !.version = 1] /\ Written(1)
  /\ UNCHANGED rows

(* _run_seed_command(): commit. *)
SeedCommits ==
  /\ rows = NoRows /\ flushed.version = 1
  /\ rows' = flushed /\ flushed' = NoRows /\ UNCHANGED breaks

(* A key is missing in the files, or the command dies: nothing is written. *)
SeedFails ==
  /\ rows = NoRows /\ flushed # NoRows
  /\ flushed' = NoRows /\ breaks' = [breaks EXCEPT ![1] = {}] /\ UNCHANGED rows

(* Somebody puts a new version in the place of the active one. *)
ChangeVersion ==
  /\ rows.version \in 1..(MaxVersions - 1)
  /\ rows' = [rows EXCEPT !.version = @ + 1] /\ Written(rows.version + 1)
  /\ UNCHANGED flushed

ConfigurationNext == Seed \/ SeedCommits \/ SeedFails \/ ChangeVersion
=============================================================================
