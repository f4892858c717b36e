---------------------------- MODULE SecretsStore ----------------------------
(***************************************************************************)
(* local_keyring_adapter.py: secrets in one file, each encrypted with a    *)
(* key that comes from the environment of the process or else from the     *)
(* keychain, where the first process that finds none puts one.  Processes  *)
(* on the host and in the container share the file; nothing locks it.      *)
(***************************************************************************)
EXTENDS Naturals

CONSTANTS
  Process, Key, Name, Value,
  Broken,     \* a file that is not JSON
  None

VARIABLES
  env,        \* LINKEDINBOT_SECRETS_ENCRYPTION_KEY of each process
  keychain,   \* the one entry of the keychain
  file,       \* secrets.json: the token of each name
  doing,      \* what each process is about to do
  call,       \* the call it makes
  key,        \* the encryption_key of its provider
  seen,       \* what its set() has read
  answer,     \* what get() has returned or raised
  stored,     \* the value of the last set() of each name that got through
  overtaken,  \* whether a set() has ever replaced a file that it had not read
  rivals      \* whether a key has ever been put in the place of another

store == <<env, keychain, file, stored, overtaken, rivals>>
provider == <<doing, call, key, seen, answer>>
secretsVars == <<store, provider>>

Token == [key : Key, value : Value]
Contents == [Name -> Token \cup {None}]
Empty == [n \in Name |-> None]
Calls == [op : {"get"}, name : Name, value : {None}] \cup [op : {"set"}, name : Name, value : Value]
Errors == {"noKey", "invalidToken", "unreadable", "writeError"}

ASSUME SecretsStoreAssumption ==
  /\ None \notin Key \cup Value \cup Token \cup Calls
  /\ Broken \notin Contents
  /\ Errors \cap (Value \cup {None}) = {}

SecretsTypeOK ==
  /\ env \in [Process -> Key \cup {None}] /\ keychain \in Key \cup {None}
  /\ file = Broken \/ file \in Contents
  /\ doing \in [Process -> {"nothing", "resolve", "storeKey", "read", "write", "replace", "answered"}]
  /\ call \in [Process -> Calls \cup {None}]
  /\ key \in [Process -> Key \cup {None}]
  /\ seen \in [Process -> Contents]
  /\ answer \in [Process -> Value \cup Errors \cup {None}]
  /\ stored \in [Name -> Value \cup {None}]
  /\ overtaken \in BOOLEAN /\ rivals \in BOOLEAN

SecretsInit ==
  /\ env \in [Process -> Key \cup {None}] /\ keychain = None
  /\ file = Empty /\ stored = Empty /\ overtaken = FALSE /\ rivals = FALSE
  /\ doing = [p \in Process |-> "nothing"] /\ call = [p \in Process |-> None]
  /\ key = [p \in Process |-> None] /\ seen = [p \in Process |-> Empty]
  /\ answer = [p \in Process |-> None]

-----------------------------------------------------------------------------
(* Fernet.generate_key(): a key that is nowhere yet. *)
Fresh == Key \ ({env[p] : p \in Process} \cup {key[p] : p \in Process} \cup {keychain}
                \cup IF file = Broken THEN {} ELSE {file[n].key : n \in {m \in Name : file[m] # None}})

Proceed(p, next) == doing' = [doing EXCEPT ![p] = next]

(* The provider is built for one call, which is how the program and its       *)
(* instructions (docker-compose.yml) use it, and thrown away after it.        *)
Answer(p, result) ==
  /\ doing' = [doing EXCEPT ![p] = "answered"]
  /\ answer' = [answer EXCEPT ![p] = result]
  /\ key' = [key EXCEPT ![p] = None] /\ seen' = [seen EXCEPT ![p] = Empty]
  /\ UNCHANGED call

Ask(p, request) ==
  /\ doing[p] = "nothing"
  /\ Proceed(p, "resolve") /\ call' = [call EXCEPT ![p] = request]
  /\ UNCHANGED <<store, key, seen, answer>>

Hold(p, k) == Proceed(p, "read") /\ key' = [key EXCEPT ![p] = k] /\ UNCHANGED <<call, seen, answer>>

(* resolve_encryption_key(): the environment first, then the keychain.  The   *)
(* keychain may be out of reach, and Fernet may refuse what is found.         *)
Resolve(p) ==
  /\ doing[p] = "resolve"
  /\ \/ env[p] # None /\ Hold(p, env[p])
     \/ env[p] = None /\ keychain # None /\ Hold(p, keychain)
     \/ env[p] = None /\ keychain = None /\ Proceed(p, "storeKey") /\ UNCHANGED <<call, key, seen, answer>>
     \/ Answer(p, "noKey")
  /\ UNCHANGED store

(* A slip: the new key is used, but not put into the keychain. *)
StoreKeyNowhere(p) ==
  /\ doing[p] = "storeKey"
  /\ \E k \in Fresh : Hold(p, k)
  /\ UNCHANGED store

(* set_password() of a new key, in place of what is there by now. *)
StoreKey(p) ==
  /\ doing[p] = "storeKey"
  /\ \/ \E k \in Fresh :
          /\ keychain' = k /\ rivals' = (rivals \/ keychain # None)
          /\ Hold(p, k) /\ UNCHANGED <<env, file, stored, overtaken>>
     \/ Answer(p, "noKey") /\ UNCHANGED store

Decrypted(token, k) ==
  IF token = None THEN None ELSE IF token.key = k THEN token.value ELSE "invalidToken"

(* _read_all(), of which get() is the rest. *)
Read(p) ==
  /\ doing[p] = "read"
  /\ IF file = Broken THEN Answer(p, "unreadable")
     ELSE IF call[p].op = "get" THEN Answer(p, Decrypted(file[call[p].name], key[p]))
     ELSE Proceed(p, "write") /\ seen' = [seen EXCEPT ![p] = file] /\ UNCHANGED <<call, key, answer>>
  /\ UNCHANGED store

(* A slip: the file itself is opened for writing. *)
WriteInPlace(p) ==
  /\ doing[p] = "write"
  /\ Proceed(p, "replace") /\ file' = Broken
  /\ UNCHANGED <<call, key, seen, answer, env, keychain, stored, overtaken, rivals>>

(* _write_all(): the temporary file, which an exception removes again. *)
Write(p) ==
  /\ doing[p] = "write"
  /\ \/ Proceed(p, "replace") /\ UNCHANGED <<call, key, seen, answer>>
     \/ Answer(p, "writeError")
  /\ UNCHANGED store

(* os.replace(), and the end of set(). *)
Replace(p) ==
  /\ doing[p] = "replace"
  /\ LET request == call[p]
     IN /\ file' = [seen[p] EXCEPT ![request.name] = [key |-> key[p], value |-> request.value]]
        /\ stored' = [stored EXCEPT ![request.name] = request.value]
  /\ overtaken' = (overtaken \/ file # seen[p])
  /\ Answer(p, None)
  /\ UNCHANGED <<env, keychain, rivals>>

Forget(p) ==
  /\ doing' = [doing EXCEPT ![p] = "nothing"] /\ call' = [call EXCEPT ![p] = None]
  /\ key' = [key EXCEPT ![p] = None] /\ seen' = [seen EXCEPT ![p] = Empty]
  /\ answer' = [answer EXCEPT ![p] = None]

(* The caller takes the answer. *)
Return(p) == doing[p] = "answered" /\ Forget(p) /\ UNCHANGED store

(* The process dies: a temporary file stays behind, which nobody reads. *)
ProcessDies(p) == doing[p] # "nothing" /\ Forget(p) /\ UNCHANGED store

Work(p) == Resolve(p) \/ StoreKey(p) \/ Read(p) \/ Write(p) \/ Replace(p)

SecretsNext ==
  \E p \in Process :
    Work(p) \/ Return(p) \/ ProcessDies(p) \/ \E request \in Calls : Ask(p, request)

SecretsSpec == SecretsInit /\ [][SecretsNext]_secretsVars
-----------------------------------------------------------------------------
(* Crashes and failing writes included, the file can always be read, and has   *)
(* of every name the value of the last set() that got through - as long as no  *)
(* set() replaced a file that another had changed since it was read, the lost  *)
(* update that _write_all() admits.                                            *)
SecretsAreKept ==
  /\ file # Broken
  /\ ~overtaken => \A n \in Name : stored[n] = IF file[n] = None THEN None ELSE file[n].value

(* What one process has set another can decrypt, if their environments agree   *)
(* on the key, and whoever had to make a key did not replace one: two          *)
(* processes that find the keychain empty at the same time both make one.      *)
SecretsAreReadable ==
  \A p \in Process :
    answer[p] = "invalidToken" => rivals \/ \E q \in Process : env[q] # env[p]
=============================================================================
