-------------------------- MODULE BootstrapProofs ---------------------------
(***************************************************************************)
(* Proofs about SecretsStore and Bootstrap, for any number of processes,   *)
(* keys, secrets, rules and versions.                                      *)
(***************************************************************************)
EXTENDS Bootstrap, TLAPS

-----------------------------------------------------------------------------
(* The secrets. *)

(* What a process is about to do tells which call it makes. *)
CallIsMade ==
  \A p \in Process :
    /\ doing[p] # "nothing" => call[p] \in Calls
    /\ doing[p] \in {"write", "replace"} => call[p].op = "set"
    /\ doing[p] \in {"read", "write", "replace"} => key[p] \in Key
    /\ doing[p] = "storeKey" => env[p] = None

LEMMA SecretsTypeInit == SecretsInit => SecretsTypeOK /\ CallIsMade
  BY DEF SecretsInit, SecretsTypeOK, CallIsMade, Empty, Contents

LEMMA CallStep == SecretsTypeOK /\ CallIsMade /\ [SecretsNext]_secretsVars => CallIsMade'
<1> SUFFICES ASSUME SecretsTypeOK, CallIsMade, [SecretsNext]_secretsVars PROVE CallIsMade'
  OBVIOUS
<1> USE SecretsStoreAssumption
<1>1. ASSUME NEW p \in Process, NEW request \in Calls, Ask(p, request) PROVE CallIsMade'
  BY <1>1 DEF SecretsTypeOK, CallIsMade, Ask, Proceed, store
<1>2. ASSUME NEW p \in Process, Resolve(p) PROVE CallIsMade'
  BY <1>2 DEF SecretsTypeOK, CallIsMade, Resolve, Hold, Proceed, Answer, store
<1>3. ASSUME NEW p \in Process, StoreKey(p) PROVE CallIsMade'
  BY <1>3 DEF SecretsTypeOK, CallIsMade, StoreKey, Fresh, Hold, Proceed, Answer, store
<1>4. ASSUME NEW p \in Process, Read(p) PROVE CallIsMade'
  BY <1>4 DEF SecretsTypeOK, CallIsMade, Read, Proceed, Answer, store, Calls
<1>5. ASSUME NEW p \in Process, Write(p) PROVE CallIsMade'
  BY <1>5 DEF SecretsTypeOK, CallIsMade, Write, Proceed, Answer, store
<1>6. ASSUME NEW p \in Process, Replace(p) PROVE CallIsMade'
  BY <1>6 DEF SecretsTypeOK, CallIsMade, Replace, Answer
<1>7. ASSUME NEW p \in Process, Return(p) \/ ProcessDies(p) PROVE CallIsMade'
  BY <1>7 DEF SecretsTypeOK, CallIsMade, Return, ProcessDies, Forget, store
<1>8. CASE UNCHANGED secretsVars
  BY <1>8 DEF CallIsMade, secretsVars, store, provider
<1> QED
  BY <1>1, <1>2, <1>3, <1>4, <1>5, <1>6, <1>7, <1>8 DEF SecretsNext, Work

LEMMA SecretsTypeStep == SecretsTypeOK /\ CallIsMade /\ [SecretsNext]_secretsVars => SecretsTypeOK'
<1> SUFFICES ASSUME SecretsTypeOK, CallIsMade, [SecretsNext]_secretsVars PROVE SecretsTypeOK'
  OBVIOUS
<1>e. Empty \in Contents
  BY DEF Empty, Contents
<1>1. ASSUME NEW p \in Process, NEW request \in Calls, Ask(p, request) PROVE SecretsTypeOK'
  BY <1>1 DEF SecretsTypeOK, Ask, Proceed, store
<1>2. ASSUME NEW p \in Process, Resolve(p) PROVE SecretsTypeOK'
  BY <1>2, <1>e DEF SecretsTypeOK, Resolve, Hold, Proceed, Answer, store, Errors
<1>3. ASSUME NEW p \in Process, StoreKey(p) PROVE SecretsTypeOK'
  <2>1. ASSUME NEW k \in Key, keychain' = k, rivals' = (rivals \/ keychain # None), Hold(p, k),
               UNCHANGED <<env, file, stored, overtaken>>
        PROVE  SecretsTypeOK'
    <3>1. rivals' \in BOOLEAN
      BY <2>1
    <3> QED
      BY <2>1, <3>1 DEF SecretsTypeOK, Hold, Proceed
  <2>2. CASE Answer(p, "noKey") /\ UNCHANGED store
    BY <2>2, <1>e DEF SecretsTypeOK, Answer, store, Errors
  <2> QED
    BY <1>3, <2>1, <2>2 DEF StoreKey, Fresh
<1>4. ASSUME NEW p \in Process, Read(p) PROVE SecretsTypeOK'
  <2>1. ASSUME NEW result \in Value \cup Errors \cup {None}, Answer(p, result), UNCHANGED store
        PROVE  SecretsTypeOK'
    BY <2>1, <1>e DEF SecretsTypeOK, Answer, store
  <2>2. CASE file = Broken
    BY <1>4, <2>1, <2>2 DEF Read, Errors
  <2>3. CASE file # Broken /\ call[p].op = "get"
    <3>1. call[p] \in Calls
      BY <1>4 DEF Read, CallIsMade
    <3>2. file[call[p].name] \in Token \cup {None}
      BY <2>3, <3>1 DEF SecretsTypeOK, Contents, Calls
    <3>3. Decrypted(file[call[p].name], key[p]) \in Value \cup Errors \cup {None}
      BY <3>2 DEF Decrypted, Token, Errors
    <3> QED
      BY <1>4, <2>1, <2>3, <3>3 DEF Read
  <2>4. CASE file # Broken /\ call[p].op # "get"
    BY <1>4, <2>4 DEF SecretsTypeOK, Read, Proceed, store
  <2> QED
    BY <2>2, <2>3, <2>4
<1>5. ASSUME NEW p \in Process, Write(p) PROVE SecretsTypeOK'
  BY <1>5, <1>e DEF SecretsTypeOK, Write, Proceed, Answer, store, Errors
<1>6. ASSUME NEW p \in Process, Replace(p) PROVE SecretsTypeOK'
  <2>1. call[p] \in Calls /\ call[p].op = "set" /\ key[p] \in Key
    BY <1>6 DEF Replace, CallIsMade
  <2>2. call[p].name \in Name /\ call[p].value \in Value
    BY <2>1 DEF Calls
  <2>3. file' \in Contents /\ stored' \in [Name -> Value \cup {None}]
    BY <1>6, <2>1, <2>2 DEF SecretsTypeOK, Replace, Contents, Token
  <2>4. overtaken' \in BOOLEAN
    BY <1>6 DEF Replace
  <2> QED
    BY <1>6, <1>e, <2>3, <2>4 DEF SecretsTypeOK, Replace, Answer
<1>7. ASSUME NEW p \in Process, Return(p) \/ ProcessDies(p) PROVE SecretsTypeOK'
  BY <1>7, <1>e DEF SecretsTypeOK, Return, ProcessDies, Forget, store
<1>8. CASE UNCHANGED secretsVars
  BY <1>8 DEF SecretsTypeOK, secretsVars, store, provider
<1> QED
  BY <1>1, <1>2, <1>3, <1>4, <1>5, <1>6, <1>7, <1>8 DEF SecretsNext, Work

(* Crashes and failing writes included, the file can be read and holds what   *)
(* was stored last, unless a set() replaced a file that it had not read.      *)
LEMMA KeptStep == SecretsTypeOK /\ CallIsMade /\ SecretsAreKept /\ [SecretsNext]_secretsVars => SecretsAreKept'
<1> SUFFICES ASSUME SecretsTypeOK, CallIsMade, SecretsAreKept, [SecretsNext]_secretsVars PROVE SecretsAreKept'
  OBVIOUS
<1>1. CASE UNCHANGED <<file, stored, overtaken>>
  BY <1>1 DEF SecretsAreKept
<1>2. ASSUME NEW p \in Process, Replace(p) PROVE SecretsAreKept'
  <2> DEFINE name == call[p].name
             token == [key |-> key[p], value |-> call[p].value]
  <2>1. name \in Name /\ token \in Token /\ call[p].value \in Value /\ seen[p] \in Contents
    BY <1>2 DEF Replace, CallIsMade, SecretsTypeOK, Calls, Token
  <2>2. file' = [seen[p] EXCEPT ![name] = token] /\ stored' = [stored EXCEPT ![name] = call[p].value]
    BY <1>2 DEF Replace
  <2>3. file' \in Contents
    BY <2>1, <2>2 DEF Contents
  <2>4. ASSUME ~overtaken', NEW n \in Name
        PROVE  stored'[n] = IF file'[n] = None THEN None ELSE file'[n].value
    <3>1. ~overtaken /\ file = seen[p]
      BY <1>2, <2>4 DEF Replace
    <3>2. CASE n = name
      BY <2>1, <2>2, <3>2, SecretsStoreAssumption DEF SecretsTypeOK, Contents
    <3>3. CASE n # name
      BY <2>1, <2>2, <3>1, <3>3 DEF SecretsTypeOK, Contents, SecretsAreKept
    <3> QED
      BY <3>2, <3>3
  <2> QED
    BY <2>3, <2>4, SecretsStoreAssumption DEF SecretsAreKept
<1> QED
  BY <1>1, <1>2 DEF SecretsNext, Work, Ask, Resolve, StoreKey, Read, Write, Return, ProcessDies, Answer, Hold,
                    secretsVars, store

-----------------------------------------------------------------------------
(* The key that p uses while nobody has replaced one. *)
KeyOf(p) == IF env[p] = None THEN keychain ELSE env[p]

OneKey == ~rivals /\ \A p, q \in Process : env[p] = env[q]

(* All that is encrypted is encrypted with it. *)
EncryptedWithOneKey ==
  OneKey =>
    \A p \in Process :
      /\ key[p] # None => key[p] = KeyOf(p)
      /\ \A q \in Process, n \in Name : seen[q][n] # None => seen[q][n].key = KeyOf(p)
      /\ file # Broken => \A n \in Name : file[n] # None => file[n].key = KeyOf(p)
      /\ answer[p] # "invalidToken"

LEMMA OneKeyStep ==
  SecretsTypeOK /\ CallIsMade /\ EncryptedWithOneKey /\ [SecretsNext]_secretsVars => EncryptedWithOneKey'
<1> SUFFICES ASSUME SecretsTypeOK, CallIsMade, EncryptedWithOneKey, [SecretsNext]_secretsVars, OneKey'
             PROVE  EncryptedWithOneKey'
  BY DEF EncryptedWithOneKey
<1> USE SecretsStoreAssumption
<1>a. ASSUME NEW p \in Process, NEW result, result # "invalidToken", Answer(p, result), UNCHANGED store
      PROVE  EncryptedWithOneKey'
  BY <1>a DEF SecretsTypeOK, EncryptedWithOneKey, OneKey, KeyOf, Answer, store, Empty
<1>h. ASSUME NEW p \in Process, NEW k, Hold(p, k), UNCHANGED store, OneKey => k = KeyOf(p)
      PROVE  EncryptedWithOneKey'
  BY <1>h DEF SecretsTypeOK, EncryptedWithOneKey, OneKey, KeyOf, Hold, store
<1>1. ASSUME NEW p \in Process, NEW request \in Calls, Ask(p, request) PROVE EncryptedWithOneKey'
  BY <1>1 DEF EncryptedWithOneKey, OneKey, KeyOf, Ask, store
<1>2. ASSUME NEW p \in Process, Resolve(p) PROVE EncryptedWithOneKey'
  <2>1. CASE Answer(p, "noKey") /\ UNCHANGED store
    BY <2>1, <1>a
  <2>2. CASE env[p] # None /\ Hold(p, env[p]) /\ UNCHANGED store
    BY <2>2, <1>h DEF KeyOf
  <2>3. CASE env[p] = None /\ Hold(p, keychain) /\ UNCHANGED store
    BY <2>3, <1>h DEF KeyOf
  <2>4. CASE UNCHANGED <<store, key, seen, answer>>
    BY <2>4 DEF EncryptedWithOneKey, OneKey, KeyOf, store
  <2> QED
    BY <1>2, <2>1, <2>2, <2>3, <2>4 DEF Resolve
<1>3. ASSUME NEW p \in Process, StoreKey(p) PROVE EncryptedWithOneKey'
  <2>1. CASE Answer(p, "noKey") /\ UNCHANGED store
    BY <2>1, <1>a
  <2>2. ASSUME NEW k \in Key, keychain' = k, rivals' = (rivals \/ keychain # None), Hold(p, k),
               UNCHANGED <<env, file, stored, overtaken>>
        PROVE  EncryptedWithOneKey'
    <3>1. OneKey /\ keychain = None
      BY <2>2 DEF OneKey
    <3>2. env[p] = None
      BY <1>3 DEF StoreKey, CallIsMade
    <3>3. \A q \in Process : env[q] = None /\ KeyOf(q) = None
      BY <3>1, <3>2 DEF OneKey, KeyOf
    (* A key that is held, or a token, would have no key. *)
    <3>4. \A q \in Process : key[q] = None
      BY <3>1, <3>3 DEF EncryptedWithOneKey
    <3>5. file # Broken => \A n \in Name : file[n] = None
      BY <3>1, <3>3 DEF EncryptedWithOneKey, SecretsTypeOK, Contents, Token
    <3>6. \A q \in Process, n \in Name : seen[q][n] = None
      BY <3>1, <3>3 DEF EncryptedWithOneKey, SecretsTypeOK, Contents, Token
    <3>7. \A q \in Process : KeyOf(q)' = k
      BY <2>2, <3>3 DEF KeyOf
    <3>8. key' = [key EXCEPT ![p] = k] /\ UNCHANGED <<seen, answer, file>>
      BY <2>2 DEF Hold
    <3> QED
      BY <3>1, <3>4, <3>5, <3>6, <3>7, <3>8 DEF EncryptedWithOneKey, SecretsTypeOK
  <2> QED
    BY <1>3, <2>1, <2>2 DEF StoreKey, Fresh
<1>4. ASSUME NEW p \in Process, Read(p) PROVE EncryptedWithOneKey'
  <2>1. key[p] \in Key /\ call[p] \in Calls
    BY <1>4 DEF Read, CallIsMade
  <2>2. CASE file = Broken
    BY <1>4, <2>2, <1>a DEF Read
  <2>3. CASE file # Broken /\ call[p].op = "get"
    <3> DEFINE token == file[call[p].name]
    <3>1. token \in Token \cup {None}
      BY <2>1, <2>3 DEF SecretsTypeOK, Contents, Calls
    <3>2. OneKey
      BY <1>4 DEF OneKey, Read, store
    <3>3. token # None => token.key = key[p]
      BY <2>1, <2>3, <3>2 DEF EncryptedWithOneKey, Calls
    <3>4. Decrypted(token, key[p]) # "invalidToken"
      BY <3>1, <3>3 DEF Decrypted, Token, Errors
    <3> QED
      BY <1>4, <2>3, <3>4, <1>a DEF Read
  <2>4. CASE file # Broken /\ call[p].op # "get"
    <3>1. seen' = [seen EXCEPT ![p] = file] /\ UNCHANGED <<key, answer>> /\ UNCHANGED store
      BY <1>4, <2>4 DEF Read
    <3> QED
      BY <2>4, <3>1 DEF SecretsTypeOK, EncryptedWithOneKey, OneKey, KeyOf, store
  <2> QED
    BY <2>2, <2>3, <2>4
<1>5. ASSUME NEW p \in Process, Write(p) PROVE EncryptedWithOneKey'
  <2>1. CASE Answer(p, "writeError") /\ UNCHANGED store
    BY <2>1, <1>a
  <2>2. CASE UNCHANGED <<store, key, seen, answer>>
    BY <2>2 DEF EncryptedWithOneKey, OneKey, KeyOf, store
  <2> QED
    BY <1>5, <2>1, <2>2 DEF Write
<1>6. ASSUME NEW p \in Process, Replace(p) PROVE EncryptedWithOneKey'
  <2> DEFINE name == call[p].name
             token == [key |-> key[p], value |-> call[p].value]
  <2>1. name \in Name /\ key[p] \in Key
    BY <1>6 DEF Replace, CallIsMade, Calls
  <2>2. OneKey /\ UNCHANGED <<env, keychain, rivals>>
    BY <1>6 DEF OneKey, Replace
  <2>3. file' = [seen[p] EXCEPT ![name] = token] /\ seen[p] \in Contents
    BY <1>6 DEF Replace, SecretsTypeOK
  <2>4. ASSUME NEW q \in Process, NEW n \in Name, file'[n] # None PROVE file'[n].key = KeyOf(q)
    <3>1. CASE n = name
      <4>1. key[p] = KeyOf(q)
        BY <2>1, <2>2 DEF EncryptedWithOneKey, OneKey, KeyOf
      <4> QED
        BY <2>1, <2>3, <3>1, <4>1 DEF Contents
    <3>2. CASE n # name
      BY <2>2, <2>3, <2>4, <3>2 DEF Contents, EncryptedWithOneKey
    <3> QED
      BY <3>1, <3>2
  <2>5. \A q \in Process : KeyOf(q)' = KeyOf(q)
    BY <2>2 DEF KeyOf
  <2>6. Answer(p, None)
    BY <1>6 DEF Replace
  <2>7. \A q \in Process, n \in Name : seen'[q][n] # None => q # p /\ seen'[q][n] = seen[q][n]
    BY <2>6 DEF Answer, Empty, SecretsTypeOK
  <2>8. \A q \in Process : /\ key'[q] # None => key'[q] = key[q]
                           /\ answer'[q] # "invalidToken"
    BY <2>2, <2>6 DEF Answer, SecretsTypeOK, EncryptedWithOneKey, Errors
  <2> QED
    BY <2>2, <2>4, <2>5, <2>7, <2>8 DEF EncryptedWithOneKey
<1>7. ASSUME NEW p \in Process, Return(p) \/ ProcessDies(p) PROVE EncryptedWithOneKey'
  <2>1. Forget(p) /\ UNCHANGED store
    BY <1>7 DEF Return, ProcessDies
  <2>2. OneKey /\ UNCHANGED <<env, keychain, file>> /\ \A q \in Process : KeyOf(q)' = KeyOf(q)
    BY <2>1 DEF OneKey, store, KeyOf
  <2>3. \A q \in Process, n \in Name : seen'[q][n] # None => seen'[q][n] = seen[q][n]
    BY <2>1 DEF Forget, Empty, SecretsTypeOK
  <2>4. \A q \in Process : /\ key'[q] # None => key'[q] = key[q]
                           /\ answer'[q] # "invalidToken"
    BY <2>1, <2>2 DEF Forget, SecretsTypeOK, EncryptedWithOneKey, Errors
  <2> QED
    BY <2>2, <2>3, <2>4 DEF EncryptedWithOneKey
<1>8. CASE UNCHANGED secretsVars
  BY <1>8 DEF EncryptedWithOneKey, OneKey, KeyOf, secretsVars, store, provider
<1> QED
  BY <1>1, <1>2, <1>3, <1>4, <1>5, <1>6, <1>7, <1>8 DEF SecretsNext, Work

-----------------------------------------------------------------------------
(* SecretsStore, whoever uses it. *)
SecretsInvariant == SecretsTypeOK /\ CallIsMade /\ SecretsAreKept /\ EncryptedWithOneKey

LEMMA SecretsInvariantInit == SecretsInit => SecretsInvariant
<1> SUFFICES ASSUME SecretsInit PROVE SecretsInvariant
  OBVIOUS
<1>1. SecretsAreKept
  BY SecretsStoreAssumption DEF SecretsInit, SecretsAreKept, Empty, Contents
<1>2. EncryptedWithOneKey
  BY SecretsStoreAssumption DEF SecretsInit, EncryptedWithOneKey, Empty, Errors
<1> QED
  BY <1>1, <1>2, SecretsTypeInit DEF SecretsInvariant

LEMMA SecretsInvariantStep == SecretsInvariant /\ [SecretsNext]_secretsVars => SecretsInvariant'
  BY SecretsTypeStep, CallStep, KeptStep, OneKeyStep DEF SecretsInvariant

(* The types of the secrets store, for all that its processes do. *)
THEOREM SecretsTyping == SecretsSpec => []SecretsTypeOK
<1>1. SecretsInvariant => SecretsTypeOK
  BY DEF SecretsInvariant
<1> QED
  BY <1>1, SecretsInvariantInit, SecretsInvariantStep, PTL DEF SecretsSpec

(* Crashes and failing writes included, secrets.json can be read and has what  *)
(* was stored last, unless a set() replaced a file that it had not read.       *)
THEOREM SecretsKept == SecretsSpec => []SecretsAreKept
<1>1. SecretsInvariant => SecretsAreKept
  BY DEF SecretsInvariant
<1> QED
  BY <1>1, SecretsInvariantInit, SecretsInvariantStep, PTL DEF SecretsSpec

(* What one process encrypts another can decrypt, if they agree on the key of  *)
(* the environment and no key was put in the place of another.                 *)
THEOREM SecretsReadable == SecretsSpec => []SecretsAreReadable
<1>1. SecretsInvariant => SecretsAreReadable
  <2> SUFFICES ASSUME SecretsInvariant, NEW p \in Process, answer[p] = "invalidToken", ~rivals
               PROVE  \E q \in Process : env[q] # env[p]
    BY DEF SecretsAreReadable
  <2>1. ~OneKey
    BY DEF SecretsInvariant, EncryptedWithOneKey
  <2> QED
    BY <2>1 DEF OneKey
<1> QED
  BY <1>1, SecretsInvariantInit, SecretsInvariantStep, PTL DEF SecretsSpec

-----------------------------------------------------------------------------
(* Every step of a run that comes about is one of the secrets store or does    *)
(* not concern it.                                                             *)
LEMMA StepOfSecrets == [Next]_vars => [SecretsNext]_secretsVars
<1> SUFFICES ASSUME [Next]_vars PROVE [SecretsNext]_secretsVars
  OBVIOUS
<1>1. ASSUME NEW p \in Process, FirstLoad(p) PROVE SecretsNext \/ UNCHANGED secretsVars
  <2>1. [op |-> "get", name |-> ApiKey, value |-> None] \in Calls
    BY BootstrapAssumption DEF Calls
  <2> QED
    BY <1>1, <2>1 DEF FirstLoad, SecretsNext
<1>2. ASSUME NEW p \in Process, BeginSet(p) PROVE SecretsNext
  <2>1. PICK name \in Name, value \in Value : Ask(p, [op |-> "set", name |-> name, value |-> value])
    BY <1>2 DEF BeginSet
  <2>2. [op |-> "set", name |-> name, value |-> value] \in Calls
    BY DEF Calls
  <2> QED
    BY <2>1, <2>2 DEF SecretsNext
<1>3. ASSUME NEW p \in Process, RequireSecret(p) \/ EndSet(p) \/ UseSecrets(p) PROVE SecretsNext
  BY <1>3 DEF RequireSecret, EndSet, UseSecrets, SecretsNext
<1>4. ASSUME NEW p \in Process, Crash(p) PROVE SecretsNext \/ UNCHANGED secretsVars
  BY <1>4 DEF Crash, SecretsNext
<1>5. ASSUME NEW p \in Process,
             Begin(p) \/ CountHistory(p) \/ SecondLoad(p) \/ Acquire(p) \/ Finish(p)
      PROVE  UNCHANGED secretsVars
  BY <1>5 DEF Begin, CountHistory, SecondLoad, Acquire, Finish
<1>6. CASE Configure \/ LeaseEnds
  BY <1>6 DEF Configure, LeaseEnds
<1>7. CASE UNCHANGED vars
  BY <1>7 DEF vars
<1> QED
  BY <1>1, <1>2, <1>3, <1>4, <1>5, <1>6, <1>7 DEF Next

(* bootstrap.py and the operator use the secrets store by its calls only. *)
THEOREM UsesSecretsStore == Spec => SecretsSpec
<1>1. Init => SecretsInit
  BY DEF Init
<1> QED
  BY <1>1, StepOfSecrets, PTL DEF Spec, SecretsSpec

-----------------------------------------------------------------------------
(* How a run comes about. *)

LEMMA ConfigurationTypeStep == ConfigurationTypeOK /\ ConfigurationNext => ConfigurationTypeOK'
<1> SUFFICES ASSUME ConfigurationTypeOK, ConfigurationNext PROVE ConfigurationTypeOK'
  OBVIOUS
<1>0. 1 \in Version /\ 0 \in 0..MaxVersions /\ 1 \in 0..MaxVersions
  BY ConfigurationAssumption DEF Version
<1>1. CASE Seed
  BY <1>1, <1>0 DEF Seed, Written, ConfigurationTypeOK, Rows
<1>2. CASE SeedCommits
  BY <1>2, <1>0 DEF SeedCommits, ConfigurationTypeOK, Rows, NoRows
<1>3. CASE SeedFails
  BY <1>3, <1>0 DEF SeedFails, ConfigurationTypeOK, Rows, NoRows
<1>4. CASE ChangeVersion
  <2>1. rows.version + 1 \in Version /\ rows.version + 1 \in 0..MaxVersions
    BY <1>4, ConfigurationAssumption DEF ChangeVersion, Version
  <2> QED
    BY <1>4, <2>1 DEF ChangeVersion, Written, ConfigurationTypeOK, Rows
<1> QED
  BY <1>1, <1>2, <1>3, <1>4 DEF ConfigurationNext

AttemptTypeOK ==
  /\ at \in [Process -> {"idle", "setting", "context", "secret", "history", "again", "lock", "working"}]
  /\ first \in [Process -> 0..MaxVersions] /\ used \in [Process -> 0..MaxVersions]
  /\ isBootstrap \in [Process -> BOOLEAN] /\ overlapped \in [Process -> BOOLEAN]
  /\ since \in [Process -> SUBSET Version]
  /\ lock \in Process \cup {None, Dead} /\ history \in BOOLEAN

LEMMA AttemptTypeStep == ConfigurationTypeOK /\ AttemptTypeOK /\ [Next]_vars => AttemptTypeOK'
<1> SUFFICES ASSUME ConfigurationTypeOK, AttemptTypeOK, [Next]_vars PROVE AttemptTypeOK'
  OBVIOUS
<1>0. /\ rows.version \in 0..MaxVersions /\ {rows.version} \ {0} \subseteq Version
      /\ 0 \in 0..MaxVersions
  BY ConfigurationAssumption DEF ConfigurationTypeOK, Rows, Version
<1>e. ASSUME NEW p \in Process, Ends(p), lock' \in Process \cup {None, Dead}, history' = history
      PROVE  AttemptTypeOK'
  BY <1>0, <1>e DEF AttemptTypeOK, Ends, Goes
<1>1. ASSUME NEW p \in Process, Begin(p) PROVE AttemptTypeOK'
  BY <1>0, <1>1 DEF AttemptTypeOK, Begin, Goes
<1>2. ASSUME NEW p \in Process, FirstLoad(p) PROVE AttemptTypeOK'
  <2>1. CASE Ends(p)
    BY <1>2, <1>e, <2>1 DEF FirstLoad, AttemptTypeOK
  <2>2. CASE ~Ends(p)
    BY <1>0, <1>2, <2>2 DEF AttemptTypeOK, FirstLoad, Goes
  <2> QED
    BY <2>1, <2>2
<1>3. ASSUME NEW p \in Process, RequireSecret(p) PROVE AttemptTypeOK'
  <2>1. CASE Ends(p)
    BY <1>3, <1>e, <2>1 DEF RequireSecret, AttemptTypeOK
  <2>2. CASE ~Ends(p)
    BY <1>0, <1>3, <2>2 DEF AttemptTypeOK, RequireSecret, Goes
  <2> QED
    BY <2>1, <2>2
<1>4. ASSUME NEW p \in Process, CountHistory(p) PROVE AttemptTypeOK'
  BY <1>4 DEF AttemptTypeOK, CountHistory, Goes
<1>5. ASSUME NEW p \in Process, SecondLoad(p) PROVE AttemptTypeOK'
  <2>1. CASE Ends(p)
    BY <1>5, <1>e, <2>1 DEF SecondLoad, AttemptTypeOK
  <2>2. CASE ~Ends(p)
    BY <1>0, <1>5, <2>2 DEF AttemptTypeOK, SecondLoad, Goes
  <2> QED
    BY <2>1, <2>2
<1>6. ASSUME NEW p \in Process, Acquire(p) PROVE AttemptTypeOK'
  <2>1. CASE Ends(p)
    BY <1>6, <1>e, <2>1 DEF Acquire, AttemptTypeOK
  <2>2. CASE ~Ends(p)
    BY <1>6, <2>2 DEF AttemptTypeOK, Acquire, Goes
  <2> QED
    BY <2>1, <2>2
<1>7. ASSUME NEW p \in Process, Finish(p) PROVE AttemptTypeOK'
  <2>1. \A q \in Process : (q # p /\ (overlapped[q] \/ at[q] \in {"again", "lock"})) \in BOOLEAN
    OBVIOUS
  <2>2. overlapped' \in [Process -> BOOLEAN]
    BY <1>7, <2>1 DEF Finish
  <2> QED
    BY <1>0, <1>7, <2>2 DEF AttemptTypeOK, Finish, Goes
<1>8. ASSUME NEW p \in Process, BeginSet(p) \/ EndSet(p) PROVE AttemptTypeOK'
  BY <1>8 DEF AttemptTypeOK, BeginSet, EndSet, Goes
<1>9. ASSUME NEW p \in Process, Crash(p) PROVE AttemptTypeOK'
  BY <1>9, <1>e DEF AttemptTypeOK, Crash
<1>10. ASSUME NEW p \in Process, UseSecrets(p) PROVE AttemptTypeOK'
  BY <1>10 DEF AttemptTypeOK, UseSecrets, attempt
<1>11. CASE LeaseEnds
  BY <1>11 DEF AttemptTypeOK, LeaseEnds, attempt
<1>12. CASE Configure
  <2>1. rows'.version \in 0..MaxVersions
    BY <1>12, ConfigurationTypeStep DEF Configure, ConfigurationTypeOK, Rows
  <2>2. {rows'.version} \ {0} \subseteq Version
    BY <2>1, ConfigurationAssumption DEF Version
  <2>3. since' \in [Process -> SUBSET Version]
    BY <1>12, <2>2 DEF Configure, AttemptTypeOK
  <2> QED
    BY <1>12, <2>3 DEF AttemptTypeOK, Configure
<1>13. CASE UNCHANGED vars
  BY <1>13 DEF AttemptTypeOK, vars, attempt
<1> QED
  BY <1>1, <1>2, <1>3, <1>4, <1>5, <1>6, <1>7, <1>8, <1>9, <1>10, <1>11, <1>12, <1>13 DEF Next

LEMMA TypeOKSplits == TypeOK <=> ConfigurationTypeOK /\ SecretsTypeOK /\ AttemptTypeOK
  BY DEF TypeOK, AttemptTypeOK

(* A seed is committed whole. *)
RowsAreWhole ==
  /\ rows # NoRows => rows.account /\ rows.profile /\ rows.version # 0
  /\ flushed.profile => flushed.account
  /\ flushed.version # 0 => flushed.profile /\ flushed.version = 1

LEMMA RowsStep == ConfigurationTypeOK /\ RowsAreWhole /\ [Next]_vars => RowsAreWhole'
<1> SUFFICES ASSUME ConfigurationTypeOK, RowsAreWhole, [Next]_vars PROVE RowsAreWhole'
  OBVIOUS
<1>1. CASE UNCHANGED tables
  BY <1>1 DEF RowsAreWhole, tables
<1>2. CASE Seed
  BY <1>2 DEF Seed, RowsAreWhole, ConfigurationTypeOK, Rows, NoRows
<1>3. CASE SeedCommits
  BY <1>3 DEF SeedCommits, RowsAreWhole, ConfigurationTypeOK, Rows, NoRows
<1>4. CASE SeedFails
  BY <1>4 DEF SeedFails, RowsAreWhole, ConfigurationTypeOK, Rows, NoRows
<1>5. CASE ChangeVersion
  <2>1. rows # NoRows /\ rows.version \in Nat
    BY <1>5 DEF ChangeVersion, NoRows, ConfigurationTypeOK, Rows
  <2>2. rows'.version = rows.version + 1 /\ rows'.account /\ rows'.profile /\ flushed' = flushed
    BY <1>5, <2>1 DEF ChangeVersion, RowsAreWhole, ConfigurationTypeOK, Rows
  <2> QED
    BY <2>1, <2>2 DEF RowsAreWhole
<1> QED
  BY <1>1, <1>2, <1>3, <1>4, <1>5
     DEF Next, Configure, ConfigurationNext, LeaseEnds, Begin, FirstLoad, RequireSecret, CountHistory, SecondLoad,
         Acquire, Finish, BeginSet, EndSet, Crash, UseSecrets, vars

(* What p has loaded was active since it began and is valid. *)
Current(p, version) == version \in since[p] /\ Valid(version) /\ version <= rows.version

(* An attempt knows the versions since its beginning, the one that is active   *)
(* now among them, and those that it has loaded.                               *)
AttemptIsCurrent ==
  \A p \in Process :
    /\ at[p] \in {"idle", "setting", "context"} => first[p] = 0
    /\ at[p] \notin {"lock", "working"} => used[p] = 0
    /\ at[p] \notin {"idle", "setting"} /\ rows.version # 0 => rows.version \in since[p]
    /\ first[p] # 0 => Current(p, first[p])
    /\ used[p] # 0 => Current(p, used[p]) /\ first[p] <= used[p]

LEMMA CurrentStep ==
  ConfigurationTypeOK /\ AttemptTypeOK /\ AttemptIsCurrent /\ [Next]_vars => AttemptIsCurrent'
<1> SUFFICES ASSUME ConfigurationTypeOK, AttemptTypeOK, AttemptIsCurrent, [Next]_vars PROVE AttemptIsCurrent'
  OBVIOUS
<1>0. rows.version \in Nat /\ \A p \in Process : first[p] \in Nat /\ used[p] \in Nat
  BY ConfigurationAssumption DEF ConfigurationTypeOK, AttemptTypeOK, Rows
<1>e. ASSUME NEW p \in Process, Ends(p), UNCHANGED tables PROVE AttemptIsCurrent'
  <2>1. at'[p] = "idle" /\ first'[p] = 0 /\ used'[p] = 0
    BY <1>e DEF Ends, Goes, AttemptTypeOK
  <2>2. \A q \in Process \ {p} : at'[q] = at[q] /\ first'[q] = first[q] /\ used'[q] = used[q] /\ since'[q] = since[q]
    BY <1>e DEF Ends, Goes, AttemptTypeOK
  <2> QED
    BY <1>e, <2>1, <2>2 DEF AttemptIsCurrent, Current, Valid, tables
<1>u. ASSUME UNCHANGED <<at, first, used, since>>, UNCHANGED tables PROVE AttemptIsCurrent'
  BY <1>u DEF AttemptIsCurrent, Current, Valid, tables
<1>s. ASSUME NEW p \in Process, NEW place, Goes(p, place),
             UNCHANGED <<first, used, since>>, UNCHANGED tables,
             \/ at[p] \in {"idle", "setting"} /\ place \in {"idle", "setting"}
             \/ at[p] = "secret" /\ place = "history"
             \/ at[p] = "history" /\ place = "again"
             \/ at[p] = "lock" /\ place = "working"
      PROVE  AttemptIsCurrent'
  <2>1. at'[p] = place /\ \A q \in Process \ {p} : at'[q] = at[q]
    BY <1>s DEF Goes, AttemptTypeOK
  <2> QED
    BY <1>s, <2>1 DEF AttemptIsCurrent, Current, Valid, tables
<1>1. ASSUME NEW p \in Process, Begin(p) PROVE AttemptIsCurrent'
  <2>1. at[p] = "idle" /\ at'[p] = "context" /\ since'[p] = {rows.version} \ {0}
    BY <1>1 DEF Begin, Goes, AttemptTypeOK
  <2>2. \A q \in Process \ {p} : at'[q] = at[q] /\ since'[q] = since[q]
    BY <1>1 DEF Begin, Goes, AttemptTypeOK
  <2>3. UNCHANGED <<first, used, tables>> /\ rows' = rows
    BY <1>1 DEF Begin, tables
  <2> QED
    BY <2>1, <2>2, <2>3 DEF AttemptIsCurrent, Current, Valid, tables
<1>2. ASSUME NEW p \in Process, FirstLoad(p) PROVE AttemptIsCurrent'
  <2>1. CASE Loaded # "context"
    BY <1>2, <1>e, <2>1 DEF FirstLoad
  <2>2. CASE Loaded = "context"
    <3>1. rows.version # 0 /\ Valid(rows.version)
      BY <2>2 DEF Loaded
    <3>2. at[p] = "context" /\ at'[p] = "secret" /\ first' = [first EXCEPT ![p] = rows.version]
      BY <1>2, <2>2 DEF FirstLoad, Goes, AttemptTypeOK
    <3>3. \A q \in Process \ {p} : at'[q] = at[q] /\ first'[q] = first[q]
      BY <1>2, <2>2 DEF FirstLoad, Goes, AttemptTypeOK
    <3>4. UNCHANGED <<used, since, tables>> /\ first'[p] = rows.version
      BY <1>2, <2>2, <3>2 DEF FirstLoad, AttemptTypeOK
    <3>5. used[p] = 0
      BY <3>2 DEF AttemptIsCurrent
    <3> QED
      BY <1>0, <3>1, <3>2, <3>3, <3>4, <3>5 DEF AttemptIsCurrent, Current, Valid, tables
  <2> QED
    BY <2>1, <2>2
<1>3. ASSUME NEW p \in Process, RequireSecret(p) PROVE AttemptIsCurrent'
  <2>1. CASE answer[p] \in Value
    BY <1>3, <1>s, <2>1 DEF RequireSecret
  <2>2. CASE answer[p] \notin Value
    BY <1>3, <1>e, <2>2 DEF RequireSecret
  <2> QED
    BY <2>1, <2>2
<1>4. ASSUME NEW p \in Process, CountHistory(p) PROVE AttemptIsCurrent'
  BY <1>4, <1>s DEF CountHistory
<1>5. ASSUME NEW p \in Process, SecondLoad(p) PROVE AttemptIsCurrent'
  <2>1. CASE Loaded # "context"
    BY <1>5, <1>e, <2>1 DEF SecondLoad
  <2>2. CASE Loaded = "context"
    <3>1. rows.version # 0 /\ Valid(rows.version)
      BY <2>2 DEF Loaded
    <3>2. at[p] = "again" /\ at'[p] = "lock" /\ used' = [used EXCEPT ![p] = rows.version]
      BY <1>5, <2>2 DEF SecondLoad, Goes, AttemptTypeOK
    <3>3. \A q \in Process \ {p} : at'[q] = at[q] /\ used'[q] = used[q]
      BY <1>5, <2>2 DEF SecondLoad, Goes, AttemptTypeOK
    <3>4. UNCHANGED <<first, since, tables>> /\ used'[p] = rows.version
      BY <1>5, <2>2, <3>2 DEF SecondLoad, AttemptTypeOK
    <3>5. first[p] <= rows.version
      BY <1>0 DEF AttemptIsCurrent, Current
    <3> QED
      BY <1>0, <3>1, <3>2, <3>3, <3>4, <3>5 DEF AttemptIsCurrent, Current, Valid, tables
  <2> QED
    BY <2>1, <2>2
<1>6. ASSUME NEW p \in Process, Acquire(p) PROVE AttemptIsCurrent'
  <2>1. CASE lock # None
    BY <1>6, <1>e, <2>1 DEF Acquire
  <2>2. CASE lock = None
    BY <1>6, <1>s, <2>2 DEF Acquire
  <2> QED
    BY <2>1, <2>2
<1>7. ASSUME NEW p \in Process, Finish(p) PROVE AttemptIsCurrent'
  <2>1. at'[p] = "idle" /\ first'[p] = 0 /\ used'[p] = 0
    BY <1>7 DEF Finish, Goes, AttemptTypeOK
  <2>2. \A q \in Process \ {p} : at'[q] = at[q] /\ first'[q] = first[q] /\ used'[q] = used[q] /\ since'[q] = since[q]
    BY <1>7 DEF Finish, Goes, AttemptTypeOK
  <2>3. UNCHANGED tables
    BY <1>7 DEF Finish
  <2> QED
    BY <2>1, <2>2, <2>3 DEF AttemptIsCurrent, Current, Valid, tables
<1>8. ASSUME NEW p \in Process, BeginSet(p) \/ EndSet(p) PROVE AttemptIsCurrent'
  BY <1>8, <1>s DEF BeginSet, EndSet
<1>9. ASSUME NEW p \in Process, Crash(p) PROVE AttemptIsCurrent'
  BY <1>9, <1>e DEF Crash
<1>10. CASE LeaseEnds \/ UNCHANGED vars \/ \E p \in Process : UseSecrets(p)
  BY <1>10, <1>u DEF LeaseEnds, UseSecrets, vars, attempt
<1>11. CASE Configure
  <2>1. UNCHANGED <<at, first, used>>
    BY <1>11 DEF Configure
  <2>2. rows'.version \in Nat /\ rows.version <= rows'.version
    BY <1>11, ConfigurationAssumption
       DEF Configure, ConfigurationNext, Seed, SeedCommits, SeedFails, ChangeVersion, ConfigurationTypeOK, Rows, NoRows
  <2>3. \A q \in Process : at[q] \notin {"idle", "setting"} =>
          since[q] \subseteq since'[q] /\ (rows'.version # 0 => rows'.version \in since'[q])
    BY <1>11 DEF Configure, AttemptTypeOK
  <2>4. ASSUME NEW version \in Nat \ {0}, version <= rows.version, Valid(version) PROVE Valid(version)'
    <3>1. rows # NoRows
      BY <1>0, <2>4 DEF NoRows
    <3>2. CASE ChangeVersion
      BY <1>0, <2>4, <3>2 DEF ChangeVersion, Written, Valid, ConfigurationTypeOK, Version
    <3> QED
      BY <1>11, <2>4, <3>1, <3>2 DEF Configure, ConfigurationNext, Seed, SeedCommits, SeedFails, Valid
  <2>5. ASSUME NEW q \in Process, NEW version \in Nat \ {0}, at[q] \notin {"idle", "setting"}, Current(q, version)
        PROVE  Current(q, version)'
    BY <1>0, <2>2, <2>3, <2>4, <2>5 DEF Current
  <2> QED
    BY <1>0, <2>1, <2>3, <2>5 DEF AttemptIsCurrent
<1> QED
  BY <1>1, <1>2, <1>3, <1>4, <1>5, <1>6, <1>7, <1>8, <1>9, <1>10, <1>11 DEF Next

(* A run that is about to work knows whether it is the first, as far as it can. *)
FirstRunIsKnown ==
  \A p \in Process :
    /\ at[p] \in {"again", "lock", "working"} =>
         IF history THEN isBootstrap[p] => overlapped[p] ELSE isBootstrap[p]
    /\ at[p] = "working" => lock = p

LEMMA FirstRunStep == AttemptTypeOK /\ FirstRunIsKnown /\ [Next]_vars => FirstRunIsKnown'
<1> SUFFICES ASSUME AttemptTypeOK, FirstRunIsKnown, [Next]_vars PROVE FirstRunIsKnown'
  OBVIOUS
<1>s. ASSUME UNCHANGED <<history, lock>>,
             \A q \in Process : at'[q] \in {"again", "lock", "working"} =>
               at'[q] = at[q] /\ isBootstrap'[q] = isBootstrap[q] /\ overlapped'[q] = overlapped[q]
      PROVE  FirstRunIsKnown'
  BY <1>s DEF FirstRunIsKnown
<1>e. ASSUME NEW p \in Process, Ends(p), UNCHANGED <<history, lock>> PROVE FirstRunIsKnown'
  BY <1>e, <1>s DEF Ends, Goes, AttemptTypeOK
<1>1. ASSUME NEW p \in Process, Begin(p) \/ BeginSet(p) \/ EndSet(p) PROVE FirstRunIsKnown'
  BY <1>1, <1>s DEF Begin, BeginSet, EndSet, Goes, AttemptTypeOK
<1>2. ASSUME NEW p \in Process, FirstLoad(p) PROVE FirstRunIsKnown'
  <2>1. CASE Loaded # "context"
    BY <1>2, <1>e, <2>1 DEF FirstLoad
  <2>2. CASE Loaded = "context"
    BY <1>2, <1>s, <2>2 DEF FirstLoad, Goes, AttemptTypeOK
  <2> QED
    BY <2>1, <2>2
<1>3. ASSUME NEW p \in Process, RequireSecret(p) PROVE FirstRunIsKnown'
  <2>1. CASE answer[p] \in Value
    BY <1>3, <1>s, <2>1 DEF RequireSecret, Goes, AttemptTypeOK
  <2>2. CASE answer[p] \notin Value
    BY <1>3, <1>e, <2>2 DEF RequireSecret
  <2> QED
    BY <2>1, <2>2
<1>4. ASSUME NEW p \in Process, CountHistory(p) PROVE FirstRunIsKnown'
  <2>1. at' = [at EXCEPT ![p] = "again"] /\ UNCHANGED <<history, lock, overlapped>>
    BY <1>4 DEF CountHistory, Goes
  <2>2. isBootstrap' = [isBootstrap EXCEPT ![p] = ~history]
    BY <1>4 DEF CountHistory
  <2>3. isBootstrap'[p] = ~history
    BY <2>2 DEF AttemptTypeOK
  <2>4. \A q \in Process \ {p} : isBootstrap'[q] = isBootstrap[q] /\ at'[q] = at[q]
    BY <2>1, <2>2 DEF AttemptTypeOK
  <2>5. at'[p] = "again"
    BY <2>1 DEF AttemptTypeOK
  <2> QED
    BY <2>1, <2>3, <2>4, <2>5 DEF FirstRunIsKnown
<1>5. ASSUME NEW p \in Process, SecondLoad(p) PROVE FirstRunIsKnown'
  <2>1. CASE Loaded # "context"
    BY <1>5, <1>e, <2>1 DEF SecondLoad
  <2>2. CASE Loaded = "context"
    <3>1. at[p] = "again" /\ at' = [at EXCEPT ![p] = "lock"] /\ UNCHANGED <<history, lock, isBootstrap, overlapped>>
      BY <1>5, <2>2 DEF SecondLoad, Goes
    <3> QED
      BY <3>1 DEF AttemptTypeOK, FirstRunIsKnown
  <2> QED
    BY <2>1, <2>2
<1>6. ASSUME NEW p \in Process, Acquire(p) PROVE FirstRunIsKnown'
  <2>1. CASE lock # None
    BY <1>6, <1>e, <2>1 DEF Acquire
  <2>2. CASE lock = None
    <3>1. /\ at[p] = "lock" /\ at' = [at EXCEPT ![p] = "working"] /\ lock' = p
          /\ UNCHANGED <<history, isBootstrap, overlapped>>
      BY <1>6, <2>2 DEF Acquire, Goes
    <3>2. \A q \in Process : at[q] # "working"
      BY <2>2, BootstrapAssumption DEF FirstRunIsKnown
    <3> QED
      BY <3>1, <3>2 DEF AttemptTypeOK, FirstRunIsKnown
  <2> QED
    BY <2>1, <2>2
<1>7. ASSUME NEW p \in Process, Finish(p) PROVE FirstRunIsKnown'
  <2>1. at[p] = "working" /\ at' = [at EXCEPT ![p] = "idle"]
    BY <1>7 DEF Finish, Goes
  <2>2. \A q \in Process : at'[q] \in {"again", "lock", "working"} => q # p /\ at'[q] = at[q]
    BY <2>1 DEF AttemptTypeOK
  <2>3. \A q \in Process : q # p => at[q] # "working"
    BY <2>1 DEF FirstRunIsKnown
  <2>4. \A q \in Process : q # p /\ at[q] \in {"again", "lock"} => overlapped'[q]
    BY <1>7 DEF Finish
  <2>5. \A q \in Process : q # p => isBootstrap'[q] = isBootstrap[q]
    BY <1>7 DEF Finish, AttemptTypeOK
  <2>6. ~history' => ~history
    BY <1>7 DEF Finish
  <2> QED
    BY <2>2, <2>3, <2>4, <2>5, <2>6 DEF FirstRunIsKnown
<1>8. ASSUME NEW p \in Process, Crash(p) PROVE FirstRunIsKnown'
  <2>1. /\ \A q \in Process : at'[q] \in {"again", "lock", "working"} => q # p /\ at'[q] = at[q]
        /\ \A q \in Process : q # p => isBootstrap'[q] = isBootstrap[q] /\ overlapped'[q] = overlapped[q]
    BY <1>8 DEF Crash, Ends, Goes, AttemptTypeOK
  <2>2. history' = history /\ (lock # p => lock' = lock)
    BY <1>8 DEF Crash
  <2> QED
    BY <2>1, <2>2 DEF FirstRunIsKnown
<1>9. ASSUME LeaseEnds PROVE FirstRunIsKnown'
  <2>1. lock = Dead /\ UNCHANGED <<at, isBootstrap, overlapped, history>>
    BY <1>9 DEF LeaseEnds, attempt
  <2>2. \A q \in Process : at[q] # "working"
    BY <2>1, BootstrapAssumption DEF FirstRunIsKnown
  <2> QED
    BY <2>1, <2>2 DEF FirstRunIsKnown
<1>10. CASE Configure \/ UNCHANGED vars \/ \E p \in Process : UseSecrets(p)
  BY <1>10, <1>s DEF Configure, UseSecrets, vars, attempt
<1> QED
  BY <1>1, <1>2, <1>3, <1>4, <1>5, <1>6, <1>7, <1>8, <1>9, <1>10 DEF Next

-----------------------------------------------------------------------------
RunInvariant == TypeOK /\ CallIsMade /\ RowsAreWhole /\ AttemptIsCurrent /\ FirstRunIsKnown

LEMMA RunInvariantInit == Init => RunInvariant
<1> SUFFICES ASSUME Init PROVE RunInvariant
  OBVIOUS
<1>1. ConfigurationTypeOK
  BY ConfigurationAssumption DEF Init, ConfigurationInit, ConfigurationTypeOK, Rows, NoRows
<1>2. AttemptTypeOK
  <2>1. 0 \in 0..MaxVersions
    BY ConfigurationAssumption
  <2>2. isBootstrap \in [Process -> BOOLEAN] /\ overlapped \in [Process -> BOOLEAN] /\ history \in BOOLEAN
    BY DEF Init
  <2>3. at \in [Process -> {"idle"}] /\ since \in [Process -> SUBSET Version]
    BY DEF Init
  <2>4. first \in [Process -> 0..MaxVersions] /\ used \in [Process -> 0..MaxVersions] /\ lock = None
    BY <2>1 DEF Init
  <2> QED
    BY <2>2, <2>3, <2>4 DEF AttemptTypeOK
<1>3. RowsAreWhole
  BY DEF Init, ConfigurationInit, RowsAreWhole, NoRows
<1>4. AttemptIsCurrent
  <2>1. \A p \in Process : at[p] = "idle" /\ first[p] = 0 /\ used[p] = 0
    BY DEF Init
  <2> QED
    BY <2>1 DEF AttemptIsCurrent
<1>5. FirstRunIsKnown
  BY DEF Init, FirstRunIsKnown
<1>6. SecretsTypeOK /\ CallIsMade
  BY SecretsTypeInit DEF Init
<1> QED
  BY <1>1, <1>2, <1>3, <1>4, <1>5, <1>6, TypeOKSplits DEF RunInvariant

LEMMA RunInvariantStep == RunInvariant /\ [Next]_vars => RunInvariant'
<1> SUFFICES ASSUME RunInvariant, [Next]_vars PROVE RunInvariant'
  OBVIOUS
<1>1. ConfigurationTypeOK /\ SecretsTypeOK /\ AttemptTypeOK
  BY TypeOKSplits DEF RunInvariant
<1>2. ConfigurationTypeOK'
  <2>1. CASE UNCHANGED tables
    BY <1>1, <2>1 DEF tables, ConfigurationTypeOK
  <2>2. CASE ConfigurationNext
    BY <1>1, <2>2, ConfigurationTypeStep
  <2> QED
    BY <2>1, <2>2
       DEF Next, Configure, LeaseEnds, Begin, FirstLoad, RequireSecret, CountHistory, SecondLoad, Acquire, Finish,
           BeginSet, EndSet, Crash, UseSecrets, vars
<1>3. SecretsTypeOK' /\ CallIsMade'
  BY <1>1, StepOfSecrets, SecretsTypeStep, CallStep DEF RunInvariant
<1>4. AttemptTypeOK'
  BY <1>1, AttemptTypeStep
<1>5. TypeOK'
  BY <1>2, <1>3, <1>4 DEF TypeOK, AttemptTypeOK
<1> QED
  BY <1>1, <1>3, <1>5, RowsStep, CurrentStep, FirstRunStep DEF RunInvariant

(* TDD 23: the context of a run was whole, valid and active at a moment since *)
(* the run was begun, and so was that of its retries.                         *)
THEOREM RunContextIsWhole == Spec => []ContextIsWhole
<1>1. RunInvariant => ContextIsWhole
  <2> SUFFICES ASSUME RunInvariant PROVE ContextIsWhole
    OBVIOUS
  <2>1. Loaded \notin {"noProfile", "noConfig"}
    BY DEF RunInvariant, RowsAreWhole, Loaded, NoRows
  <2>2. ASSUME NEW p \in Process
        PROVE  /\ first[p] # 0 => first[p] \in since[p] /\ Valid(first[p])
               /\ used[p] # 0 => used[p] \in since[p] /\ Valid(used[p]) /\ first[p] <= used[p]
    BY DEF RunInvariant, AttemptIsCurrent, Current
  <2> QED
    BY <2>1, <2>2 DEF ContextIsWhole, RunInvariant
<1> QED
  BY <1>1, RunInvariantInit, RunInvariantStep, PTL DEF Spec

(* FR-20: a run takes itself for the first one exactly if there is no history, *)
(* unless another ended between its look at the history and its lock.          *)
THEOREM FirstRunIsTruthful == Spec => []BootstrapIsTruthful
<1>1. RunInvariant => BootstrapIsTruthful
  <2> SUFFICES ASSUME RunInvariant, NEW p \in Process, at[p] = "working"
               PROVE  (isBootstrap[p] = ~history) \/ (isBootstrap[p] /\ overlapped[p])
    BY DEF BootstrapIsTruthful
  <2>1. isBootstrap[p] \in BOOLEAN /\ history \in BOOLEAN
    BY DEF RunInvariant, TypeOK
  <2>2. IF history THEN isBootstrap[p] => overlapped[p] ELSE isBootstrap[p]
    BY DEF RunInvariant, FirstRunIsKnown
  <2> QED
    BY <2>1, <2>2
<1> QED
  BY <1>1, RunInvariantInit, RunInvariantStep, PTL DEF Spec
=============================================================================
