---------------------------- MODULE OpenDatabase ----------------------------
(***************************************************************************)
(* Opening a database: the plan, the key, the cipher profiles and the      *)
(* first access to the file (DatabaseBuilder::open and                     *)
(* DatabasePoolBuilder::open in crates/csgdb, prepare_open and resolve_key *)
(* in crates/csgdb-core/src/open.rs, Connection::open_with_access in       *)
(* crates/csgdb-storage/src/lib.rs).  Several threads of one process open  *)
(* the same path at the same time, and the process may die at any step.    *)
(* The key provider and the engine are external.  In-memory databases have *)
(* no file and are left out.                                               *)
(***************************************************************************)
EXTENDS OpenPolicy, FiniteSets

CONSTANTS Openers,    \* threads that open the database
          Requests,   \* what they may ask for
          Keys,       \* key material
          InitKeys,   \* keys that are not the provider's: of callers and old files
          None,       \* no key, no thread
          Plain       \* the "key" of a plaintext file

ASSUME KeysAssumption == InitKeys \subseteq Keys /\ None \notin Keys /\ Plain \notin Keys
ASSUME RequestsAssumption ==
    /\ None \notin Requests
    /\ \A r \in Requests :
          /\ r.source \in {"provider", "no provider", "raw", "passphrase", "empty passphrase"}
          /\ r.source \in {"raw", "passphrase"} => r.key \in InitKeys
ASSUME OpenersAssumption == IsFiniteSet(Openers) /\ None \notin Openers

\* The cipher settings of a profile, in the order open_with_access tries them.
Profiles == {"Current", "Previous", "Legacy"}
Hmac(p) == IF p = "Legacy" THEN "SHA512" ELSE "SHA256"
PageSize(p) == IF p = "Current" THEN 1024 ELSE 4096
Settings(p) == <<Hmac(p), PageSize(p)>>

VARIABLES
    file,       \* [len, key, settings]: the database file
    store,      \* the provider's key for this path, or None
    hmac, page, \* the engine's process-wide cipher defaults
    lock,       \* CIPHER_PROFILE_LOCK
    pc, req, key,
    candidate,  \* legacy_candidate
    profile,    \* the profile of the current attempt
    settings,   \* the settings the engine connection was keyed with
    primary,    \* the error of the attempt with the current profile
    opened,     \* connections this open has made so far
    result,     \* Ok, or the error the open returned
    disturbed,  \* did a lock held elsewhere disturb a check of the key?
    raced       \* history: was a key made while another opener was about to?

plan == <<req, key>>
attempt == <<candidate, profile, settings, primary, disturbed>>
world == <<file, store, raced>>
cipher == <<hmac, page, lock>>
vars == <<file, store, hmac, page, lock, pc, req, key, candidate, profile,
          settings, primary, opened, result, disturbed, raced>>

NoSettings == <<"none", 0>>
PlainSettings == <<"plain", 0>>
AllSettings == {NoSettings, PlainSettings} \union {Settings(p) : p \in Profiles}

\* A request: a plain Database (no pool options) or a pool, with its flags and
\* its key source.
Encrypted(t) == "PLAINTEXT" \notin Normalized(req[t].flags)
IsPool(t) == req[t].readers > 0
Connections(t) == 1 + req[t].readers

\* Only the first connection of an open is writable (a pool's readers are not).
ReadOnly(t) == opened[t] > 0 \/ "READONLY" \in req[t].flags
EngineFlags(t) ==
    LET flags == Normalized(req[t].flags)
        access == IF opened[t] > 0 THEN readonly_open_flags(flags) ELSE flags
    IN  sqlite_open_flags(IF IsPool(t) THEN single_owner_open_flags(access) ELSE access)

PCs == {"idle", "load", "create", "metadata", "open", "lock", "hmac", "page", "key",
        "verify", "configure", "done"}

\* The ErrorCodes an open returns.
Codes == {"Ok", "InvalidPath", "InvalidOpenFlags", "InvalidVfs", "InvalidKeyLength",
          "KeyStoreUnavailable", "KeyRequired", "InvalidPoolConfiguration", "Storage",
          "EncryptionBackendUnavailable", "InvalidDatabaseKey", "DatabaseCorrupt",
          "DatabaseBusy"}

\* map_open_error: what the engine says of a page it cannot authenticate, "not a
\* database" or "corrupt".
WrongKeyErrors == {"InvalidDatabaseKey", "DatabaseCorrupt"}

TypeOK ==
    /\ file \in [len : {"absent", "empty", "data"}, key : Keys \union {None, Plain},
                 settings : AllSettings]
    /\ store \in Keys \union {None}
    /\ hmac \in {"SHA256", "SHA512"} /\ page \in {1024, 4096}
    /\ lock \in Openers \union {None}
    /\ pc \in [Openers -> PCs]
    /\ req \in [Openers -> Requests \union {None}]
    /\ key \in [Openers -> Keys \union {None, Plain}]
    /\ candidate \in [Openers -> BOOLEAN] /\ profile \in [Openers -> Profiles]
    /\ settings \in [Openers -> AllSettings]
    /\ primary \in [Openers -> Codes] /\ result \in [Openers -> Codes]
    /\ opened \in [Openers -> Nat]
    /\ disturbed \in [Openers -> BOOLEAN] /\ raced \in BOOLEAN

InitFiles ==
    {[len |-> "absent", key |-> None, settings |-> NoSettings],
     [len |-> "data", key |-> Plain, settings |-> PlainSettings]}
    \union [len : {"data"}, key : InitKeys, settings : {Settings(p) : p \in Profiles}]

\* An existing file was made by this library or an earlier version of it, with
\* the provider's key or with one that was given explicitly.
Init ==
    /\ file \in InitFiles
    /\ store \in {None} \union (IF file.key \in InitKeys THEN {file.key} ELSE {})
    /\ hmac = "SHA512" /\ page = 4096 /\ lock = None
    /\ pc = [t \in Openers |-> "idle"]
    /\ req = [t \in Openers |-> None]
    /\ key = [t \in Openers |-> None]
    /\ candidate = [t \in Openers |-> FALSE]
    /\ profile = [t \in Openers |-> "Current"]
    /\ settings = [t \in Openers |-> NoSettings]
    /\ primary = [t \in Openers |-> "Ok"]
    /\ opened = [t \in Openers |-> 0]
    /\ result = [t \in Openers |-> "Ok"]
    /\ disturbed = [t \in Openers |-> FALSE] /\ raced = FALSE

-----------------------------------------------------------------------------
(* The plan                                                                *)

\* An open that fails drops every connection it has made, and the guard of the
\* profile lock if it holds it.
Fail(t, error) ==
    /\ pc' = [pc EXCEPT ![t] = "done"]
    /\ result' = [result EXCEPT ![t] = error]
    /\ opened' = [opened EXCEPT ![t] = 0]
    /\ lock' = IF lock = t THEN None ELSE lock

Goto(t, label) ==
    /\ pc' = [pc EXCEPT ![t] = label]
    /\ UNCHANGED <<result, opened>>

\* The open goes on to the file; a pool checks its options first, when the key
\* is resolved already.
PlanReady(t, r) ==
    IF /\ r.readers > 0
       /\ ~(/\ PoolOptionsAccepted(r.options, Normalized(r.flags))
            /\ CacheAccepted(r.options.budget, r.options.cache, r.readers))
    THEN Fail(t, "InvalidPoolConfiguration")
    ELSE Goto(t, "metadata") /\ UNCHANGED lock

\* The first check of a request that fails; a plaintext open looks at no key.
PlanError(r) ==
    IF ~r.path THEN "InvalidPath"
    ELSE IF ~FlagsAccepted(r.flags) THEN "InvalidOpenFlags"
    ELSE IF ~VfsAccepted(r.vfs) THEN "InvalidVfs"
    ELSE IF "PLAINTEXT" \in r.flags THEN "Ok"
    ELSE IF r.source = "empty passphrase" THEN "InvalidKeyLength"
    ELSE IF r.source = "no provider" THEN "KeyStoreUnavailable"
    ELSE "Ok"

\* prepare_open and the key sources that need no provider.
Plan(t, r) ==
    /\ pc[t] = "idle"
    /\ req' = [req EXCEPT ![t] = r]
    /\ key' = [key EXCEPT ![t] = IF "PLAINTEXT" \in r.flags THEN Plain
                                 ELSE IF r.source \in {"raw", "passphrase"} THEN r.key
                                 ELSE None]
    /\ IF PlanError(r) # "Ok" THEN Fail(t, PlanError(r))
       ELSE IF "PLAINTEXT" \notin r.flags /\ r.source = "provider"
       THEN Goto(t, "load") /\ UNCHANGED lock
       ELSE PlanReady(t, r)
    /\ UNCHANGED <<world, hmac, page, attempt>>

\* Mutant: whoever may create a database makes a new key without looking.
LoadSkipped(t) ==
    /\ pc[t] = "load"
    /\ \/ Fail(t, "KeyStoreUnavailable") /\ UNCHANGED key
       \/ /\ store # None /\ "CREATE" \notin req[t].flags
          /\ key' = [key EXCEPT ![t] = store]
          /\ PlanReady(t, req[t])
       \/ /\ "CREATE" \in req[t].flags
          /\ Goto(t, "create") /\ UNCHANGED <<key, lock>>
       \/ /\ store = None /\ "CREATE" \notin req[t].flags
          /\ Fail(t, "KeyRequired") /\ UNCHANGED key
    /\ UNCHANGED <<world, hmac, page, req, attempt>>

\* load_or_create_key, the load: an error of the provider is returned, a missing
\* key is created only when the flags allow a new database.
Load(t) ==
    /\ pc[t] = "load"
    /\ \/ Fail(t, "KeyStoreUnavailable") /\ UNCHANGED key
       \/ /\ store # None
          /\ key' = [key EXCEPT ![t] = store]
          /\ PlanReady(t, req[t])
       \/ /\ store = None /\ "CREATE" \in req[t].flags
          /\ Goto(t, "create") /\ UNCHANGED <<key, lock>>
       \/ /\ store = None /\ "CREATE" \notin req[t].flags
          /\ Fail(t, "KeyRequired") /\ UNCHANGED key
    /\ UNCHANGED <<world, hmac, page, req, attempt>>

\* KeyProvider::create, external: "Creates and persists a new key" (key.rs:123),
\* also when there is one by now, which it replaces.
ProviderKeys ==
    Keys \ (InitKeys \union {file.key, store} \union {key[u] : u \in Openers})

\* load_or_create_key, the creation.
Create(t) ==
    /\ pc[t] = "create"
    /\ \/ Fail(t, "KeyStoreUnavailable") /\ UNCHANGED <<key, store, raced>>
       \/ /\ \E k \in ProviderKeys : key' = [key EXCEPT ![t] = k] /\ store' = k
          /\ raced' = (raced \/ \E u \in Openers \ {t} : pc[u] = "create")
          /\ PlanReady(t, req[t])
    /\ UNCHANGED <<file, hmac, page, req, attempt>>

-----------------------------------------------------------------------------
(* open_with_access, for each connection of the open                       *)

\* The file's length is looked at before the engine opens it.
Metadata(t) ==
    /\ pc[t] = "metadata"
    /\ candidate' = [candidate EXCEPT ![t] = file.len = "data"]
    /\ Goto(t, "open")
    /\ UNCHANGED <<world, cipher, plan, profile, settings, primary, disturbed>>

\* open_engine_connection creates an absent file, empty, when asked to.
OpenEngine(t) ==
    /\ pc[t] = "open"
    /\ IF file.len = "absent" /\ "CREATE" \notin EngineFlags(t)
       THEN Fail(t, "Storage") /\ UNCHANGED <<file, settings>>
       ELSE /\ file' = IF file.len = "absent" THEN [file EXCEPT !.len = "empty"] ELSE file
            /\ settings' = [settings EXCEPT ![t] = IF Encrypted(t) THEN NoSettings
                                                                   ELSE PlainSettings]
            /\ Goto(t, IF Encrypted(t) THEN "lock" ELSE "verify")
            /\ UNCHANGED lock
    /\ UNCHANGED <<store, raced, hmac, page, plan, candidate, profile, primary, disturbed>>

\* Mutant: the profile lock is not taken.
LockSkipped(t) ==
    /\ pc[t] = "lock"
    /\ Goto(t, "hmac")
    /\ UNCHANGED <<world, cipher, plan, attempt>>

\* apply_key_with_profile: the engine takes the cipher settings of a new key
\* from process-wide defaults, so they are set and used under one lock.
TakeLock(t) ==
    /\ pc[t] = "lock" /\ lock = None
    /\ lock' = t
    /\ Goto(t, "hmac")
    /\ UNCHANGED <<world, hmac, page, plan, attempt>>

SetHmac(t) ==
    /\ pc[t] = "hmac"
    /\ hmac' = Hmac(profile[t])
    /\ Goto(t, "page")
    /\ UNCHANGED <<world, page, lock, plan, attempt>>

SetPage(t) ==
    /\ pc[t] = "page"
    /\ page' = PageSize(profile[t])
    /\ Goto(t, "key")
    /\ UNCHANGED <<world, hmac, lock, plan, attempt>>

\* apply_key: sqlite3_key reads the defaults.
ApplyKey(t) ==
    /\ pc[t] = "key"
    /\ \/ Fail(t, "EncryptionBackendUnavailable") /\ UNCHANGED settings
       \/ /\ settings' = [settings EXCEPT ![t] = <<hmac, page>>]
          /\ lock' = IF lock = t THEN None ELSE lock
          /\ Goto(t, "verify")
    /\ UNCHANGED <<world, hmac, page, plan, candidate, profile, primary, disturbed>>

\* The engine can read the file with this connection.
Matches(t) == file.len = "data" => file.key = key[t] /\ file.settings = settings[t]

\* Mutant: the oldest profile is not tried.
FallbackOnce(t, error) ==
    IF Encrypted(t) /\ profile[t] = "Current" /\ candidate[t]
    THEN /\ primary' = [primary EXCEPT ![t] = error]
         /\ profile' = [profile EXCEPT ![t] = "Previous"]
         /\ Goto(t, "open") /\ UNCHANGED lock
    ELSE /\ Fail(t, IF profile[t] = "Current" THEN error ELSE primary[t])
         /\ UNCHANGED <<profile, primary>>

\* A failed check goes on with the next older profile when the file was there
\* before; after the last one the first error is returned.
Fallback(t, error) ==
    IF Encrypted(t) /\ profile[t] = "Current" /\ candidate[t]
    THEN /\ primary' = [primary EXCEPT ![t] = error]
         /\ profile' = [profile EXCEPT ![t] = "Previous"]
         /\ Goto(t, "open") /\ UNCHANGED lock
    ELSE IF profile[t] = "Previous"
    THEN /\ profile' = [profile EXCEPT ![t] = "Legacy"]
         /\ Goto(t, "open") /\ UNCHANGED <<lock, primary>>
    ELSE /\ Fail(t, IF profile[t] = "Current" THEN error ELSE primary[t])
         /\ UNCHANGED <<profile, primary>>

\* verify_database reads the schema.  A file this connection cannot read is
\* reported as a wrong key or as corrupt; a lock held by another connection is a
\* storage error.
Verify(t) ==
    /\ pc[t] = "verify"
    /\ \/ /\ Matches(t)
          /\ Goto(t, "configure") /\ UNCHANGED <<profile, primary, lock, disturbed>>
       \/ /\ ~Matches(t)
          /\ \E error \in WrongKeyErrors : Fallback(t, error)
          /\ UNCHANGED disturbed
       \/ /\ file.len = "data"
          /\ Fallback(t, "DatabaseBusy")
          /\ disturbed' = [disturbed EXCEPT ![t] = TRUE]
    /\ UNCHANGED <<world, hmac, page, plan, candidate, settings>>

\* The file after journal_mode = WAL, which writes the first page of a new one.
Written(t) ==
    IF ReadOnly(t) \/ file.len = "data" THEN file
    ELSE [len |-> "data", key |-> key[t], settings |-> settings[t]]

\* configure_connection: switching to WAL needs to read an existing file, and a
\* pragma after it may fail.  A pool then opens its next reader.
Configure(t) ==
    /\ pc[t] = "configure"
    /\ \/ /\ ReadOnly(t) \/ Matches(t)
          /\ file' = Written(t)
          /\ opened' = [opened EXCEPT ![t] = @ + 1]
          /\ IF opened'[t] = Connections(t)
             THEN /\ pc' = [pc EXCEPT ![t] = "done"]
                  /\ result' = [result EXCEPT ![t] = "Ok"]
                  /\ UNCHANGED profile
             ELSE /\ pc' = [pc EXCEPT ![t] = "metadata"]
                  /\ profile' = [profile EXCEPT ![t] = "Current"]
                  /\ UNCHANGED result
          /\ UNCHANGED lock
       \/ /\ ~ReadOnly(t) /\ ~Matches(t)
          /\ Fail(t, "Storage") /\ UNCHANGED <<file, profile>>
       \/ /\ Fail(t, "DatabaseBusy") /\ UNCHANGED profile
          /\ file' \in {file} \union (IF Matches(t) THEN {Written(t)} ELSE {})
    /\ UNCHANGED <<store, raced, hmac, page, plan, candidate, settings, primary, disturbed>>

-----------------------------------------------------------------------------

\* The caller is done with the answer: the connections of a successful open are
\* closed.
Close(t) ==
    /\ pc[t] = "done"
    /\ pc' = [pc EXCEPT ![t] = "idle"]
    /\ req' = [req EXCEPT ![t] = None]
    /\ key' = [key EXCEPT ![t] = None]
    /\ candidate' = [candidate EXCEPT ![t] = FALSE]
    /\ profile' = [profile EXCEPT ![t] = "Current"]
    /\ settings' = [settings EXCEPT ![t] = NoSettings]
    /\ primary' = [primary EXCEPT ![t] = "Ok"]
    /\ opened' = [opened EXCEPT ![t] = 0]
    /\ result' = [result EXCEPT ![t] = "Ok"]
    /\ disturbed' = [disturbed EXCEPT ![t] = FALSE]
    /\ UNCHANGED <<world, cipher>>

\* The process dies and starts again: the file and the provider's store stay.
Crash ==
    /\ \E t \in Openers : pc[t] # "idle"
    /\ hmac' = "SHA512" /\ page' = 4096 /\ lock' = None
    /\ pc' = [t \in Openers |-> "idle"]
    /\ req' = [t \in Openers |-> None]
    /\ key' = [t \in Openers |-> None]
    /\ candidate' = [t \in Openers |-> FALSE]
    /\ profile' = [t \in Openers |-> "Current"]
    /\ settings' = [t \in Openers |-> NoSettings]
    /\ primary' = [t \in Openers |-> "Ok"]
    /\ opened' = [t \in Openers |-> 0]
    /\ result' = [t \in Openers |-> "Ok"]
    /\ disturbed' = [t \in Openers |-> FALSE]
    /\ UNCHANGED world

Next ==
    \/ \E t \in Openers :
           \/ \E r \in Requests : Plan(t, r)
           \/ Load(t) \/ Create(t) \/ Metadata(t) \/ OpenEngine(t)
           \/ TakeLock(t) \/ SetHmac(t) \/ SetPage(t) \/ ApplyKey(t)
           \/ Verify(t) \/ Configure(t) \/ Close(t)
    \/ Crash

Spec == Init /\ [][Next]_vars

-----------------------------------------------------------------------------

\* Every connection is keyed with the profile its opener asked for, although
\* the engine takes the settings from defaults that all openers of the process
\* write (a new file would otherwise be created in an old format, or an old one
\* refused).
KeyedAsAsked ==
    \A t \in Openers : pc[t] \in {"verify", "configure"} /\ Encrypted(t) =>
        settings[t] = Settings(profile[t])

\* A database encrypted with a key the provider made can be opened again: the
\* provider still has that key, wherever the process died and whoever opened in
\* between.  load_or_create_key looks for a key and creates one in two steps, so
\* the exception is real: of two openers that both found no key, the second
\* replaces the key the first may already have written a database with.
KeyNotLost ==
    file.key \in Keys \ InitKeys => store = file.key \/ raced

\* An open reports a wrong key, or a corrupt file, only for a wrong key: a file
\* of an earlier profile is found by the fallback.  (A lock that disturbs the
\* check of an older profile hides it; those opens are excepted.)
WrongKeyIsWrong ==
    \A t \in Openers :
        pc[t] = "done" /\ result[t] \in WrongKeyErrors /\ ~disturbed[t] =>
            file.len = "data" /\ file.key # key[t]

\* docs/public-api.md:86-87: for an existing database the key is looked up by
\* the database's identity, and KEY_REQUIRED or KEYSTORE_UNAVAILABLE is returned
\* when there is none.  So an open that relies on the provider is not told that
\* the key of an existing encrypted database is wrong (load_or_create_key).
MissingKeyReported ==
    \A t \in Openers :
        /\ pc[t] = "done" /\ ~disturbed[t]
        /\ req[t].source = "provider" /\ file.key \in InitKeys
        => result[t] \notin WrongKeyErrors

=============================================================================
