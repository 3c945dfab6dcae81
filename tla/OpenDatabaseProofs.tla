------------------------- MODULE OpenDatabaseProofs -------------------------
(***************************************************************************)
(* Opening one path from any number of threads, for any requests and keys: *)
(* the inductive invariant behind the properties of OpenDatabase, and the  *)
(* theorems about the rules a request passes first.                        *)
(***************************************************************************)
EXTENDS OpenDatabase, TLAPS

(* The rules of OpenPolicy.                                                *)

\* Whatever accepted flags a caller passes, the plan has exactly one access mode
\* and exactly one encryption mode, it is plaintext only when the caller asked
\* for plaintext, it creates only what it may write, and planning it again (a
\* plan passes through DatabasePool and Connection) changes nothing.
THEOREM NormalizedIsDecided ==
    ASSUME NEW flags \in SUBSET Flags, FlagsAccepted(flags)
    PROVE  /\ "READONLY" \in Normalized(flags) <=> "READWRITE" \notin Normalized(flags)
           /\ "ENCRYPTED" \in Normalized(flags) <=> "PLAINTEXT" \notin Normalized(flags)
           /\ "PLAINTEXT" \in Normalized(flags) => "PLAINTEXT" \in flags
           /\ "CREATE" \in Normalized(flags) => "READWRITE" \in Normalized(flags)
           /\ FlagsAccepted(Normalized(flags))
           /\ Normalized(Normalized(flags)) = Normalized(flags)
<1> DEFINE access == WithAccess(flags)
<1>1. /\ "READONLY" \in access <=> "READWRITE" \notin access
      /\ "CREATE" \in access => "READWRITE" \in access
      /\ \A f \in {"ENCRYPTED", "PLAINTEXT", "FULLMUTEX", "NOMUTEX"} : f \in access <=> f \in flags
  BY Zenon DEF WithAccess, Default, FlagsAccepted
<1>2. /\ "ENCRYPTED" \in Normalized(flags) <=> "PLAINTEXT" \notin Normalized(flags)
      /\ \A f : f # "ENCRYPTED" => (f \in Normalized(flags) <=> f \in access)
  BY <1>1, Zenon DEF Normalized, Default, FlagsAccepted
<1>3. WithAccess(Normalized(flags)) = Normalized(flags)
  BY <1>1, <1>2, Zenon DEF WithAccess, Default
<1>4. Normalized(Normalized(flags)) = Normalized(flags)
  BY <1>2, <1>3, Zenon DEF Normalized, Default
<1>5. FlagsAccepted(Normalized(flags))
  BY <1>1, <1>2, <1>3, Zenon DEF FlagsAccepted
<1> QED
  BY <1>1, <1>2, <1>4, <1>5, Zenon

\* The engine opens a pool's readers without write access and without the right
\* to create the file, and hands the connection to one owner at a time.
LEMMA ReadersCannotWrite ==
    ASSUME NEW flags \in SUBSET Flags
    PROVE  LET reader == sqlite_open_flags(single_owner_open_flags(readonly_open_flags(flags)))
           IN  /\ "READONLY" \in reader /\ "READWRITE" \notin reader /\ "CREATE" \notin reader
               /\ "NOMUTEX" \in reader /\ "FULLMUTEX" \notin reader
BY Zenon DEF sqlite_open_flags, single_owner_open_flags, readonly_open_flags

\* The writer and the readers of a pool share its memory budget: whatever the
\* budget, the cache size asked for and the number of readers, the shares fit
\* (pool_cache_bytes_per_connection).
THEOREM SharesFitBudget ==
    ASSUME NEW budget \in Nat, NEW cache \in Nat, NEW readers \in Nat
    PROVE  /\ CacheShare(budget, cache, readers) \in Nat
           /\ CacheShare(budget, cache, readers) <= cache
           /\ CacheShare(budget, cache, readers) * (readers + 1) <= budget
<1> DEFINE n == readers + 1
           share == budget \div n
           least == IF cache < share THEN cache ELSE share
           pages == least \div KIB
<1>1. n \in Nat /\ n > 0 /\ share \in Nat /\ share * n <= budget
  OBVIOUS
<1>2. least \in Nat /\ least <= cache /\ least <= share
  BY <1>1
<1>3. pages * KIB \in Nat /\ pages * KIB <= least
  <2> HIDE DEF least
  <2>. QED  BY <1>2 DEF KIB
<1>4. CacheShare(budget, cache, readers) = pages * KIB
  BY Zenon DEF CacheShare
<1>5. pages * KIB <= share
  BY <1>1, <1>2, <1>3
<1>6. \A a, b, c \in Nat : a <= b => a * c <= b * c
  OBVIOUS
<1>7. (pages * KIB) * n <= share * n
  <2> HIDE DEF pages, share, n
  <2>. QED  BY <1>1, <1>3, <1>5, <1>6, Zenon
<1>8. (pages * KIB) * n <= budget
  <2>1. (pages * KIB) * n \in Nat /\ share * n \in Nat
    <3> HIDE DEF pages, share, n
    <3>. QED  BY <1>1, <1>3
  <2> HIDE DEF pages, share, n
  <2>. QED  BY <1>1, <1>7, <2>1
<1>. QED  BY <1>2, <1>3, <1>4, <1>8

-----------------------------------------------------------------------------
(* The inductive invariant.                                                *)

\* A readable file is plaintext, or encrypted in the format of some profile.
FileOK ==
    file.len = "data" =>
        \/ file.key = Plain /\ file.settings = PlainSettings
        \/ file.key \in Keys /\ \E p \in Profiles : file.settings = Settings(p)

\* A key that the provider made is the one it keeps, unless openers raced.
KeyKept(k) == k \in Keys \ InitKeys => store = k \/ raced

\* From the first look at the file to the last step of the connection.
Looking == {"open", "lock", "hmac", "page", "key", "verify", "configure"}

\* The process-wide defaults belong to the thread that holds the lock.
DefaultsOK(t) ==
    /\ pc[t] \in {"hmac", "page", "key"} => lock = t
    /\ pc[t] \in {"page", "key"} => hmac = Hmac(profile[t])
    /\ pc[t] = "key" => page = PageSize(profile[t])
    /\ pc[t] \in {"verify", "configure"} =>
          settings[t] = IF Encrypted(t) THEN Settings(profile[t]) ELSE PlainSettings

\* The key is resolved before the file is looked at; one that is about to be made
\* is still missing, unless openers raced.
PlanOK(t) ==
    /\ pc[t] = "create" => store = None \/ raced
    /\ pc[t] \in {"load", "create", "lock", "hmac", "page", "key"} => Encrypted(t)
    /\ pc[t] \in Looking \union {"metadata"} =>
          IF Encrypted(t) THEN key[t] \in Keys ELSE key[t] = Plain
    /\ KeyKept(key[t])

\* The file cannot be read with the format of this profile and the thread's key.
Refuted(t, p) == file.key # key[t] \/ file.settings # Settings(p)

\* An older profile is tried only on a file that was there before, after the
\* newer ones were refuted; a file that was not there yet has the newest format.
ProfileOK(t) ==
    /\ pc[t] \in {"idle", "load", "create", "metadata"} => profile[t] = "Current"
    /\ candidate[t] => file.len = "data"
    /\ profile[t] # "Current" => candidate[t] /\ Encrypted(t) /\ key[t] \in Keys
    /\ pc[t] \in Looking /\ ~candidate[t] /\ file.len = "data" /\ file.key \in Keys =>
          file.settings = Settings("Current")
    /\ profile[t] # "Current" /\ ~disturbed[t] => Refuted(t, "Current")
    /\ profile[t] = "Legacy" /\ ~disturbed[t] => Refuted(t, "Previous")

AnswerOK(t) ==
    pc[t] = "done" /\ result[t] \in WrongKeyErrors /\ ~disturbed[t] =>
        file.len = "data" /\ file.key # key[t]

ThreadOK(t) == DefaultsOK(t) /\ PlanOK(t) /\ ProfileOK(t) /\ AnswerOK(t)

IInv ==
    /\ TypeOK
    /\ FileOK /\ KeyKept(file.key)
    /\ \A t \in Openers : ThreadOK(t)

-----------------------------------------------------------------------------
(* What a step of one thread does to the others.                           *)

OthersSame(t) ==
    \A u \in Openers \ {t} :
        /\ pc'[u] = pc[u] /\ req'[u] = req[u] /\ key'[u] = key[u]
        /\ candidate'[u] = candidate[u] /\ profile'[u] = profile[u]
        /\ settings'[u] = settings[u] /\ disturbed'[u] = disturbed[u]
        /\ result'[u] = result[u]

\* The lock and the defaults under it are left to the thread that holds it, a
\* database is written once and in the newest format, a key is stored once
\* unless openers raced.
SharedMoves(t) ==
    /\ \A u \in Openers \ {t} : lock = u => lock' = u /\ hmac' = hmac /\ page' = page
    /\ \/ file' = file
       \/ /\ file.len # "data"
          /\ file'.len = "data" /\ file'.key \in Keys => file'.settings = Settings("Current")
    /\ \/ store' = store /\ raced' = raced
       \/ store = None /\ \A u \in Openers \ {t} : pc[u] # "create"
       \/ raced'
    /\ raced => raced'

\* Such a step keeps what is known of every other thread.
LEMMA OthersKeep ==
    ASSUME IInv, NEW t \in Openers, OthersSame(t), SharedMoves(t),
           NEW u \in Openers \ {t}
    PROVE  ThreadOK(u)'
<1>1. ThreadOK(u) /\ u \in Openers
  BY Zenon DEF IInv
<1>2. /\ pc'[u] = pc[u] /\ req'[u] = req[u] /\ key'[u] = key[u]
      /\ candidate'[u] = candidate[u] /\ profile'[u] = profile[u]
      /\ settings'[u] = settings[u] /\ disturbed'[u] = disturbed[u]
      /\ result'[u] = result[u]
  BY Zenon DEF OthersSame
<1>3. Encrypted(u)' <=> Encrypted(u)
  BY <1>2, Zenon DEF Encrypted
<1>4. DefaultsOK(u)'
  BY <1>1, <1>2, <1>3, Zenon DEF ThreadOK, DefaultsOK, SharedMoves
<1>5. PlanOK(u)'
  BY <1>1, <1>2, <1>3, KeysAssumption, Zenon DEF ThreadOK, PlanOK, SharedMoves, KeyKept
<1>6. ProfileOK(u)'
  BY <1>1, <1>2, <1>3, Zenon DEF ThreadOK, ProfileOK, SharedMoves, Refuted
<1>7. AnswerOK(u)'
  BY <1>1, <1>2, Zenon DEF ThreadOK, AnswerOK, SharedMoves
<1>. QED  BY <1>4, <1>5, <1>6, <1>7, Zenon DEF ThreadOK

\* A step of t keeps the invariant when it keeps what is known of t, of the
\* types and of the file.
LEMMA StepOf ==
    ASSUME IInv, NEW t \in Openers, OthersSame(t), SharedMoves(t),
           TypeOK', FileOK', KeyKept(file.key)', ThreadOK(t)'
    PROVE  IInv'
BY OthersKeep, Zenon DEF IInv

\* Only PLAINTEXT makes a plan plaintext.
LEMMA PlaintextAsked ==
    ASSUME NEW flags
    PROVE  "PLAINTEXT" \in Normalized(flags) <=> "PLAINTEXT" \in flags
BY Zenon DEF Normalized, WithAccess, Default

\* How a step of t leaves the program counters, the answers and the lock.
LEMMA Moves ==
    ASSUME IInv, NEW t \in Openers,
           \/ \E error \in Codes : Fail(t, error)
           \/ \E label \in PCs : Goto(t, label) /\ lock' = lock
    PROVE  /\ pc' \in [Openers -> PCs] /\ result' \in [Openers -> Codes]
           /\ lock' \in Openers \union {None} /\ opened' \in [Openers -> Nat]
           /\ \A u \in Openers \ {t} : /\ pc'[u] = pc[u] /\ result'[u] = result[u]
                                       /\ lock = u => lock' = u
BY DEF IInv, TypeOK, Fail, Goto, PCs

\* A thread that gives up has only its answer to account for.
LEMMA GivesUp ==
    ASSUME IInv, NEW t \in Openers, NEW error \in Codes, Fail(t, error),
           error \in WrongKeyErrors /\ ~disturbed'[t] =>
               file'.len = "data" /\ file'.key # key'[t]
    PROVE  pc'[t] = "done" /\ DefaultsOK(t)' /\ AnswerOK(t)'
<1>1. pc'[t] = "done" /\ result'[t] = error
  BY DEF Fail, IInv, TypeOK
<1>. QED  BY <1>1, Zenon DEF DefaultsOK, AnswerOK

\* A thread that goes on is where it went.
LEMMA GoesOn ==
    ASSUME IInv, NEW t \in Openers, NEW label \in PCs, Goto(t, label)
    PROVE  pc'[t] = label /\ result'[t] = result[t]
BY DEF Goto, IInv, TypeOK

-----------------------------------------------------------------------------
(* The steps.                                                              *)

\* After the plan a pool with bad options is refused, and others go on.
LEMMA PlanReadyOutcome ==
    ASSUME NEW t, NEW r, PlanReady(t, r)
    PROVE  Fail(t, "InvalidPoolConfiguration") \/ (Goto(t, "metadata") /\ lock' = lock)
BY Zenon DEF PlanReady

\* prepare_open
LEMMA PlanStep ==
    ASSUME IInv, NEW t \in Openers, NEW r \in Requests, Plan(t, r)
    PROVE  IInv'
<1>1. /\ pc[t] = "idle" /\ profile[t] = "Current" /\ (candidate[t] => file.len = "data")
      /\ TypeOK /\ FileOK /\ KeyKept(file.key)
  BY Zenon DEF Plan, IInv, ThreadOK, ProfileOK
<1>2. /\ UNCHANGED <<file, store, raced, hmac, page, candidate, profile, settings, primary, disturbed>>
      /\ req' = [req EXCEPT ![t] = r]
      /\ key' = [key EXCEPT ![t] = IF "PLAINTEXT" \in r.flags THEN Plain
                                   ELSE IF r.source \in {"raw", "passphrase"} THEN r.key
                                   ELSE None]
  BY Zenon DEF Plan, world, attempt
<1>3. \/ \E error \in Codes \ WrongKeyErrors : Fail(t, error)
      \/ Goto(t, "load") /\ lock' = lock /\ "PLAINTEXT" \notin r.flags
      \/ /\ Goto(t, "metadata") /\ lock' = lock
         /\ "PLAINTEXT" \in r.flags \/ r.source \in {"raw", "passphrase"}
  <2>1. CASE PlanError(r) # "Ok"
    <3>1. Fail(t, PlanError(r))
      BY <2>1, Zenon DEF Plan
    <3>2. PlanError(r) \in Codes \ WrongKeyErrors
      BY Zenon DEF PlanError, Codes, WrongKeyErrors
    <3>. QED  BY <3>1, <3>2, Zenon
  <2>2. CASE PlanError(r) = "Ok" /\ "PLAINTEXT" \notin r.flags /\ r.source = "provider"
    BY <2>2, Zenon DEF Plan
  <2>3. CASE PlanError(r) = "Ok" /\ ~("PLAINTEXT" \notin r.flags /\ r.source = "provider")
    <3>1. PlanReady(t, r)
      BY <2>3, Zenon DEF Plan
    <3>2. "PLAINTEXT" \in r.flags \/ r.source \in {"raw", "passphrase"}
      BY <2>3, RequestsAssumption, Zenon DEF PlanError
    <3>3. "InvalidPoolConfiguration" \in Codes \ WrongKeyErrors
      BY Zenon DEF Codes, WrongKeyErrors
    <3>4. Fail(t, "InvalidPoolConfiguration") \/ (Goto(t, "metadata") /\ lock' = lock)
      BY <3>1, PlanReadyOutcome, Zenon
    <3>. QED  BY <3>2, <3>3, <3>4, Zenon
  <2>. QED  BY <2>1, <2>2, <2>3, Zenon
<1>4. /\ pc' \in [Openers -> PCs] /\ result' \in [Openers -> Codes]
      /\ lock' \in Openers \union {None} /\ opened' \in [Openers -> Nat]
      /\ \A u \in Openers \ {t} : pc'[u] = pc[u] /\ result'[u] = result[u]
                                  /\ (lock = u => lock' = u)
  BY <1>3, Moves, Zenon DEF PCs
<1>5. /\ req'[t] = r /\ key'[t] \in InitKeys \union {Plain, None}
      /\ "PLAINTEXT" \in r.flags => key'[t] = Plain
      /\ "PLAINTEXT" \notin r.flags /\ r.source \in {"raw", "passphrase"} => key'[t] \in InitKeys
      /\ req' \in [Openers -> Requests \union {None}]
      /\ key' \in [Openers -> Keys \union {None, Plain}]
  <2> DEFINE k == IF "PLAINTEXT" \in r.flags THEN Plain
                  ELSE IF r.source \in {"raw", "passphrase"} THEN r.key ELSE None
  <2>1. /\ k \in InitKeys \union {Plain, None}
        /\ "PLAINTEXT" \in r.flags => k = Plain
        /\ "PLAINTEXT" \notin r.flags /\ r.source \in {"raw", "passphrase"} => k \in InitKeys
    BY RequestsAssumption, Zenon
  <2>2. key' = [key EXCEPT ![t] = k]
    BY <1>2, Zenon
  <2> HIDE DEF k
  <2>3. /\ key \in [Openers -> Keys \union {None, Plain}]
        /\ req \in [Openers -> Requests \union {None}]
    BY <1>1 DEF TypeOK
  <2>. QED  BY <1>2, <2>1, <2>2, <2>3, KeysAssumption
<1>6. Encrypted(t)' <=> "PLAINTEXT" \notin r.flags
  BY <1>5, PlaintextAsked, Zenon DEF Encrypted
<1>7. OthersSame(t) /\ SharedMoves(t)
  BY <1>1, <1>2, <1>4 DEF OthersSame, SharedMoves, TypeOK
<1>8. TypeOK' /\ FileOK' /\ KeyKept(file.key)'
  BY <1>1, <1>2, <1>4, <1>5 DEF TypeOK, FileOK, KeyKept
<1>9. PlanOK(t)' /\ DefaultsOK(t)' /\ AnswerOK(t)' /\ pc'[t] \in {"done", "load", "metadata"}
  <2>1. KeyKept(key[t])'
    BY <1>5, KeysAssumption, Zenon DEF KeyKept
  <2>2. ASSUME NEW error \in Codes \ WrongKeyErrors, Fail(t, error)
        PROVE  pc'[t] = "done" /\ DefaultsOK(t)' /\ AnswerOK(t)'
    BY <2>2, GivesUp, Zenon
  <2>3. CASE pc'[t] = "done" /\ DefaultsOK(t)' /\ AnswerOK(t)'
    BY <2>1, <2>3, Zenon DEF PlanOK, Looking
  <2>4. CASE Goto(t, "load") /\ "PLAINTEXT" \notin r.flags
    <3>1. pc'[t] = "load"
      BY <2>4, GoesOn, Zenon DEF PCs
    <3>. QED  BY <1>6, <2>1, <2>4, <3>1, Zenon DEF PlanOK, Looking, DefaultsOK, AnswerOK
  <2>5. CASE Goto(t, "metadata") /\ ("PLAINTEXT" \in r.flags \/ r.source \in {"raw", "passphrase"})
    <3>1. pc'[t] = "metadata"
      BY <2>5, GoesOn, Zenon DEF PCs
    <3>2. IF Encrypted(t)' THEN key'[t] \in Keys ELSE key'[t] = Plain
      BY <1>5, <1>6, <2>5, KeysAssumption, Zenon
    <3>. QED  BY <2>1, <3>1, <3>2, Zenon DEF PlanOK, Looking, DefaultsOK, AnswerOK
  <2>. QED  BY <1>3, <2>2, <2>3, <2>4, <2>5, Zenon
<1>10. ProfileOK(t)'
  BY <1>1, <1>2, <1>9, Zenon DEF ProfileOK, Looking
<1>. QED  BY <1>7, <1>8, <1>9, <1>10, StepOf, Zenon DEF ThreadOK

\* load_or_create_key: the key that is there, or a new one, is the provider's.
LEMMA ProviderStep ==
    ASSUME IInv, NEW t \in Openers, Load(t) \/ Create(t)
    PROVE  IInv'
<1>1. /\ pc[t] \in {"load", "create"} /\ profile[t] = "Current" /\ Encrypted(t)
      /\ (candidate[t] => file.len = "data") /\ KeyKept(key[t])
      /\ (pc[t] = "create" => store = None \/ raced)
      /\ TypeOK /\ FileOK /\ KeyKept(file.key)
  BY Zenon DEF Load, Create, IInv, ThreadOK, ProfileOK, PlanOK
<1>2. /\ UNCHANGED <<file, hmac, page, req, candidate, profile, settings, primary, disturbed>>
  BY Zenon DEF Load, Create, world, attempt
<1>3. \/ /\ \E error \in {"KeyStoreUnavailable", "KeyRequired"} : Fail(t, error)
         /\ UNCHANGED <<key, store, raced>>
      \/ Goto(t, "create") /\ UNCHANGED <<key, store, raced, lock>> /\ store = None
      \/ /\ \E k \in Keys : key' = [key EXCEPT ![t] = k] /\ store' = k
         /\ Fail(t, "InvalidPoolConfiguration") \/ (Goto(t, "metadata") /\ lock' = lock)
  <2>1. store \in Keys \union {None}
    BY <1>1 DEF TypeOK
  <2>2. CASE Load(t)
    BY <2>1, <2>2, PlanReadyOutcome, Zenon DEF Load, world
  <2>3. CASE Create(t)
    <3>1. ProviderKeys \subseteq Keys
      BY Zenon DEF ProviderKeys
    <3>. QED  BY <2>3, <3>1, PlanReadyOutcome, Zenon DEF Create
  <2>. QED  BY <2>2, <2>3, Zenon
<1>4. /\ raced' \in BOOLEAN /\ (raced => raced')
       /\ \/ store' = store /\ raced' = raced
          \/ store = None /\ \A u \in Openers \ {t} : pc[u] # "create"
          \/ raced'
  <2>1. raced \in BOOLEAN
    BY <1>1 DEF TypeOK
  <2>2. CASE Load(t)
    BY <2>1, <2>2, Zenon DEF Load, world
  <2>3. CASE Create(t)
    BY <1>1, <2>1, <2>3, Zenon DEF Create
  <2>. QED  BY <2>2, <2>3, Zenon
<1>5. \/ \E error \in Codes \ WrongKeyErrors : Fail(t, error)
      \/ \E label \in {"create", "metadata"} : Goto(t, label) /\ lock' = lock
  <2>1. {"KeyStoreUnavailable", "KeyRequired", "InvalidPoolConfiguration"}
            \subseteq Codes \ WrongKeyErrors
    BY Zenon DEF Codes, WrongKeyErrors
  <2>. QED  BY <1>3, <2>1, Zenon
<1>6. /\ pc' \in [Openers -> PCs] /\ result' \in [Openers -> Codes]
      /\ lock' \in Openers \union {None} /\ opened' \in [Openers -> Nat]
      /\ \A u \in Openers \ {t} : pc'[u] = pc[u] /\ result'[u] = result[u]
                                  /\ (lock = u => lock' = u)
  BY <1>5, Moves, Zenon DEF PCs
<1>7. /\ key' \in [Openers -> Keys \union {None, Plain}] /\ store' \in Keys \union {None}
      /\ \A u \in Openers \ {t} : key'[u] = key[u]
      /\ KeyKept(key[t])'
      /\ pc'[t] = "metadata" => key'[t] \in Keys
  <2>1. key \in [Openers -> Keys \union {None, Plain}] /\ store \in Keys \union {None}
        /\ pc \in [Openers -> PCs]
    BY <1>1 DEF TypeOK
  <2>2. CASE UNCHANGED <<key, store, raced>>
    <3>1. pc'[t] # "metadata" \/ key'[t] \in Keys
      BY <1>3, <2>1, Zenon DEF Fail, Goto
    <3>. QED  BY <1>1, <2>1, <2>2, <3>1, Zenon DEF KeyKept
  <2>3. ASSUME NEW k \in Keys, key' = [key EXCEPT ![t] = k], store' = k
        PROVE  /\ key' \in [Openers -> Keys \union {None, Plain}] /\ store' \in Keys \union {None}
               /\ \A u \in Openers \ {t} : key'[u] = key[u]
               /\ KeyKept(key[t])' /\ key'[t] \in Keys
    BY <2>1, <2>3, Zenon DEF KeyKept
  <2>. QED  BY <1>3, <2>2, <2>3, Zenon
<1>8. Encrypted(t)' <=> Encrypted(t)
  BY <1>2, Zenon DEF Encrypted
<1>9. KeyKept(file.key)'
  BY <1>1, <1>2, <1>4, KeysAssumption, Zenon DEF KeyKept
<1>10. OthersSame(t) /\ SharedMoves(t) /\ TypeOK' /\ FileOK'
  <2>1. OthersSame(t) /\ SharedMoves(t)
    BY <1>2, <1>6, <1>7, <1>4, Zenon DEF OthersSame, SharedMoves
  <2>2. TypeOK'
    BY <1>1, <1>2, <1>6, <1>7, <1>4 DEF TypeOK
  <2>. QED  BY <1>1, <1>2, <2>1, <2>2, Zenon DEF FileOK
<1>11. PlanOK(t)' /\ DefaultsOK(t)' /\ AnswerOK(t)' /\ pc'[t] \in {"done", "create", "metadata"}
  <2>1. ASSUME NEW error \in Codes \ WrongKeyErrors, Fail(t, error)
        PROVE  pc'[t] = "done" /\ DefaultsOK(t)' /\ AnswerOK(t)'
    BY <2>1, GivesUp, Zenon
  <2>2. ASSUME NEW label \in {"create", "metadata"}, Goto(t, label)
        PROVE  pc'[t] = label /\ DefaultsOK(t)' /\ AnswerOK(t)'
    <3>1. pc'[t] = label
      BY <2>2, GoesOn, Zenon DEF PCs
    <3>. QED  BY <3>1, Zenon DEF DefaultsOK, AnswerOK
  <2>3. pc'[t] \in {"done", "create", "metadata"} /\ DefaultsOK(t)' /\ AnswerOK(t)'
    BY <1>5, <2>1, <2>2, Zenon
  <2>4. pc'[t] = "create" => store' = None \/ raced'
    <3>1. pc \in [Openers -> PCs]
      BY <1>1 DEF TypeOK
    <3>. QED  BY <1>3, <3>1, Zenon DEF Fail, Goto
  <2>. QED  BY <1>1, <1>7, <1>8, <2>3, <2>4, Zenon DEF PlanOK, Looking
<1>12. ProfileOK(t)'
  BY <1>1, <1>2, <1>11, Zenon DEF ProfileOK, Looking
<1>. QED  BY <1>9, <1>10, <1>11, <1>12, StepOf, Zenon DEF ThreadOK

\* open_with_access looks at the file's length.
LEMMA MetadataStep ==
    ASSUME IInv, NEW t \in Openers, Metadata(t)
    PROVE  IInv'
<1>1. /\ pc[t] = "metadata" /\ profile[t] = "Current" /\ PlanOK(t)
      /\ TypeOK /\ FileOK /\ KeyKept(file.key)
  BY Zenon DEF Metadata, IInv, ThreadOK, ProfileOK
<1>2. /\ UNCHANGED <<file, store, raced, hmac, page, lock, req, key, profile, settings, primary, disturbed>>
      /\ Goto(t, "open")
  BY Zenon DEF Metadata, world, cipher, plan
<1>3. /\ candidate' \in [Openers -> BOOLEAN] /\ candidate'[t] = (file.len = "data")
      /\ \A u \in Openers \ {t} : candidate'[u] = candidate[u]
  <2> DEFINE there == file.len = "data"
  <2>1. there \in BOOLEAN /\ candidate' = [candidate EXCEPT ![t] = there]
    BY Zenon DEF Metadata
  <2> HIDE DEF there
  <2>2. /\ candidate' \in [Openers -> BOOLEAN] /\ candidate'[t] = there
        /\ \A u \in Openers \ {t} : candidate'[u] = candidate[u]
    BY <1>1, <2>1 DEF TypeOK
  <2>. QED  BY <2>2, Zenon DEF there
<1>4. /\ pc' \in [Openers -> PCs] /\ result' \in [Openers -> Codes]
      /\ opened' \in [Openers -> Nat] /\ pc'[t] = "open"
      /\ \A u \in Openers \ {t} : pc'[u] = pc[u] /\ result'[u] = result[u]
  BY <1>2, Moves, GoesOn, Zenon DEF PCs
<1>5. Encrypted(t)' <=> Encrypted(t)
  BY <1>2, Zenon DEF Encrypted
<1>6. OthersSame(t) /\ SharedMoves(t) /\ TypeOK' /\ FileOK' /\ KeyKept(file.key)'
  <2>1. OthersSame(t) /\ SharedMoves(t)
    BY <1>2, <1>3, <1>4, Zenon DEF OthersSame, SharedMoves
  <2>2. TypeOK'
    BY <1>1, <1>2, <1>3, <1>4 DEF TypeOK
  <2>. QED  BY <1>1, <1>2, <2>1, <2>2, Zenon DEF FileOK, KeyKept
<1>7. ProfileOK(t)'
  <2>1. candidate'[t] <=> file'.len = "data"
    BY <1>2, <1>3, Zenon
  <2>. QED  BY <1>1, <1>2, <1>4, <2>1, Zenon DEF ProfileOK
<1>8. PlanOK(t)' /\ DefaultsOK(t)' /\ AnswerOK(t)'
  BY <1>1, <1>2, <1>4, <1>5, Zenon DEF PlanOK, DefaultsOK, AnswerOK, KeyKept, Looking
<1>. QED  BY <1>6, <1>7, <1>8, StepOf, Zenon DEF ThreadOK

\* open_engine_connection may create the file, still empty.
LEMMA OpenEngineStep ==
    ASSUME IInv, NEW t \in Openers, OpenEngine(t)
    PROVE  IInv'
<1>1. /\ pc[t] = "open" /\ ProfileOK(t) /\ PlanOK(t)
      /\ TypeOK /\ FileOK /\ KeyKept(file.key)
  BY Zenon DEF OpenEngine, IInv, ThreadOK
<1>2. UNCHANGED <<store, raced, hmac, page, req, key, candidate, profile, primary, disturbed>>
  BY Zenon DEF OpenEngine, plan
<1>3. \/ Fail(t, "Storage") /\ UNCHANGED <<file, settings>>
      \/ /\ Goto(t, IF Encrypted(t) THEN "lock" ELSE "verify") /\ lock' = lock
         /\ file' = IF file.len = "absent" THEN [file EXCEPT !.len = "empty"] ELSE file
         /\ settings' = [settings EXCEPT ![t] = IF Encrypted(t) THEN NoSettings ELSE PlainSettings]
  BY Zenon DEF OpenEngine
<1>4. /\ file' = file \/ (file.len # "data" /\ file'.len = "empty" /\ file'.key = file.key)
      /\ file' \in [len : {"absent", "empty", "data"}, key : Keys \union {None, Plain},
                    settings : AllSettings]
      /\ settings' \in [Openers -> AllSettings]
      /\ \A u \in Openers \ {t} : settings'[u] = settings[u]
  BY <1>1, <1>3 DEF TypeOK, AllSettings
<1>5. /\ pc' \in [Openers -> PCs] /\ result' \in [Openers -> Codes]
      /\ lock' \in Openers \union {None} /\ opened' \in [Openers -> Nat]
      /\ \A u \in Openers \ {t} : pc'[u] = pc[u] /\ result'[u] = result[u]
                                  /\ (lock = u => lock' = u)
  <2>1. "Storage" \in Codes /\ "lock" \in PCs /\ "verify" \in PCs
    BY Zenon DEF Codes, PCs
  <2>2. (IF Encrypted(t) THEN "lock" ELSE "verify") \in PCs
    BY <2>1, Zenon
  <2>. QED  BY <1>3, <2>1, <2>2, Moves, Zenon
<1>6. Encrypted(t)' <=> Encrypted(t)
  BY <1>2, Zenon DEF Encrypted
<1>7. OthersSame(t) /\ SharedMoves(t) /\ TypeOK' /\ FileOK' /\ KeyKept(file.key)'
  <2>1. OthersSame(t) /\ SharedMoves(t)
    BY <1>2, <1>4, <1>5, Zenon DEF OthersSame, SharedMoves
  <2>2. TypeOK'
    BY <1>1, <1>2, <1>4, <1>5 DEF TypeOK
  <2>. QED  BY <1>1, <1>2, <1>4, <2>1, <2>2, Zenon DEF FileOK, KeyKept
<1>8. /\ pc'[t] \in {"done", "lock", "verify"} /\ (pc'[t] = "lock" => Encrypted(t))
      /\ DefaultsOK(t)' /\ AnswerOK(t)'
  <2>1. CASE Fail(t, "Storage")
    BY <2>1, GivesUp, Zenon DEF Codes, WrongKeyErrors
  <2>2. CASE /\ Goto(t, IF Encrypted(t) THEN "lock" ELSE "verify")
             /\ settings' = [settings EXCEPT ![t] = IF Encrypted(t) THEN NoSettings
                                                    ELSE PlainSettings]
    <3>1. settings'[t] = IF Encrypted(t) THEN NoSettings ELSE PlainSettings
      BY <1>1, <2>2 DEF TypeOK
    <3>2. pc'[t] = IF Encrypted(t) THEN "lock" ELSE "verify"
      BY <1>1, <2>2 DEF TypeOK, Goto
    <3>. QED  BY <1>6, <3>1, <3>2, Zenon DEF DefaultsOK, AnswerOK
  <2>. QED  BY <1>3, <2>1, <2>2, Zenon
<1>9. PlanOK(t)' /\ ProfileOK(t)'
  BY <1>1, <1>2, <1>4, <1>6, <1>8, Zenon DEF PlanOK, ProfileOK, KeyKept, Refuted, Looking
<1>. QED  BY <1>7, <1>8, <1>9, StepOf, Zenon DEF ThreadOK

\* apply_key_with_profile: the defaults are set, and used, by the lock's holder.
LEMMA KeyingStep ==
    ASSUME IInv, NEW t \in Openers, TakeLock(t) \/ SetHmac(t) \/ SetPage(t) \/ ApplyKey(t)
    PROVE  IInv'
<1>1. /\ pc[t] \in {"lock", "hmac", "page", "key"} /\ ThreadOK(t)
      /\ TypeOK /\ FileOK /\ KeyKept(file.key)
  BY Zenon DEF TakeLock, SetHmac, SetPage, ApplyKey, IInv
<1>2. UNCHANGED <<file, store, raced, req, key, candidate, profile, primary, disturbed>>
  BY Zenon DEF TakeLock, SetHmac, SetPage, ApplyKey, world, plan, attempt
<1>3. /\ hmac' \in {"SHA256", "SHA512"} /\ page' \in {1024, 4096}
      /\ settings' \in [Openers -> AllSettings]
      /\ \A u \in Openers \ {t} : settings'[u] = settings[u]
      /\ \A u \in Openers \ {t} : lock = u => hmac' = hmac /\ page' = page
  <2>1. CASE TakeLock(t)
    BY <1>1, <2>1 DEF TakeLock, attempt, TypeOK
  <2>2. CASE SetHmac(t) \/ SetPage(t)
    BY <1>1, <2>2 DEF SetHmac, SetPage, attempt, TypeOK, Hmac, PageSize, ThreadOK, DefaultsOK
  <2>3. CASE ApplyKey(t)
    <3>1. hmac = Hmac(profile[t]) /\ page = PageSize(profile[t]) /\ profile[t] \in Profiles
      BY <1>1, <2>3 DEF ApplyKey, ThreadOK, DefaultsOK, TypeOK
    <3>2. <<hmac, page>> \in AllSettings
      BY <3>1, Zenon DEF AllSettings, Settings
    <3>. QED  BY <1>1, <2>3, <3>2 DEF ApplyKey, TypeOK
  <2>. QED  BY <2>1, <2>2, <2>3
<1>4. /\ pc' \in [Openers -> PCs] /\ result' \in [Openers -> Codes]
      /\ lock' \in Openers \union {None} /\ opened' \in [Openers -> Nat]
      /\ \A u \in Openers \ {t} : pc'[u] = pc[u] /\ result'[u] = result[u]
                                  /\ (lock = u => lock' = u)
  BY <1>1, OpenersAssumption DEF TakeLock, SetHmac, SetPage, ApplyKey, Goto, Fail, TypeOK, PCs, Codes
<1>5. Encrypted(t)' <=> Encrypted(t)
  BY <1>2, Zenon DEF Encrypted
<1>6. OthersSame(t) /\ SharedMoves(t) /\ TypeOK' /\ FileOK' /\ KeyKept(file.key)'
  <2>1. OthersSame(t) /\ SharedMoves(t)
    BY <1>2, <1>3, <1>4 DEF OthersSame, SharedMoves
  <2>2. TypeOK'
    BY <1>1, <1>2, <1>3, <1>4 DEF TypeOK
  <2>. QED  BY <1>1, <1>2, <2>1, <2>2, Zenon DEF FileOK, KeyKept
<1>7. DefaultsOK(t)' /\ AnswerOK(t)' /\ pc'[t] \in {"hmac", "page", "key", "verify", "done"}
  <2>1. CASE TakeLock(t) \/ SetHmac(t) \/ SetPage(t)
    BY <1>1, <1>2, <2>1 DEF TakeLock, SetHmac, SetPage, Goto, TypeOK, DefaultsOK, AnswerOK, ThreadOK
  <2>2. CASE ApplyKey(t) /\ Fail(t, "EncryptionBackendUnavailable")
    BY <2>2, GivesUp, Zenon DEF Codes, WrongKeyErrors
  <2>3. CASE ApplyKey(t) /\ ~Fail(t, "EncryptionBackendUnavailable")
    <3>1. pc'[t] = "verify" /\ settings'[t] = <<hmac, page>> /\ pc[t] = "key"
      BY <1>1, <2>3 DEF ApplyKey, Goto, TypeOK
    <3>2. settings'[t] = Settings(profile[t])
      BY <1>1, <3>1, Zenon DEF Settings, ThreadOK, DefaultsOK
    <3>3. Encrypted(t)
      BY <1>1, <3>1, Zenon DEF ThreadOK, PlanOK
    <3>. QED  BY <1>2, <1>5, <3>1, <3>2, <3>3, Zenon DEF DefaultsOK, AnswerOK
  <2>. QED  BY <2>1, <2>2, <2>3, Zenon
<1>8. PlanOK(t)' /\ ProfileOK(t)'
  BY <1>1, <1>2, <1>5, <1>7, Zenon DEF ThreadOK, PlanOK, ProfileOK, KeyKept, Refuted, Looking
<1>. QED  BY <1>6, <1>7, <1>8, StepOf, Zenon DEF ThreadOK

\* verify_database: a check that fails refutes the profile of the attempt, or was
\* disturbed; the last one decides the answer.
LEMMA VerifyStep ==
    ASSUME IInv, NEW t \in Openers, Verify(t)
    PROVE  IInv'
<1>1. /\ pc[t] = "verify" /\ ThreadOK(t) /\ TypeOK /\ FileOK /\ KeyKept(file.key)
      /\ profile[t] \in Profiles
  BY DEF Verify, IInv, TypeOK
<1>2. UNCHANGED <<file, store, raced, hmac, page, req, key, candidate, settings>>
  BY Zenon DEF Verify, world, plan
<1>3. PICK error \in WrongKeyErrors \union {"DatabaseBusy"} :
        \/ /\ Goto(t, "configure") /\ UNCHANGED <<profile, primary, lock, disturbed>>
        \/ /\ Fallback(t, error) /\ file.len = "data"
           /\ ~disturbed'[t] => ~Matches(t) /\ ~disturbed[t]
           /\ disturbed' \in [Openers -> BOOLEAN]
           /\ \A u \in Openers \ {t} : disturbed'[u] = disturbed[u]
  <2>1. CASE Matches(t) /\ Goto(t, "configure") /\ UNCHANGED <<profile, primary, lock, disturbed>>
    BY <2>1, Zenon
  <2>2. CASE ~Matches(t) /\ (\E e \in WrongKeyErrors : Fallback(t, e)) /\ UNCHANGED disturbed
    <3>1. file.len = "data" /\ disturbed' = disturbed
      BY <2>2, Zenon DEF Matches
    <3>2. disturbed \in [Openers -> BOOLEAN]
      BY <1>1 DEF TypeOK
    <3>. QED  BY <2>2, <3>1, <3>2, Zenon
  <2>3. CASE /\ file.len = "data" /\ Fallback(t, "DatabaseBusy")
             /\ disturbed' = [disturbed EXCEPT ![t] = TRUE]
    <3>1. /\ disturbed'[t] /\ disturbed' \in [Openers -> BOOLEAN]
          /\ \A u \in Openers \ {t} : disturbed'[u] = disturbed[u]
      BY <1>1, <2>3 DEF TypeOK
    <3>. QED  BY <2>3, <3>1, Zenon
  <2>. QED  BY <2>1, <2>2, <2>3, Zenon DEF Verify
<1>4. Encrypted(t)' <=> Encrypted(t)
  BY <1>2, Zenon DEF Encrypted
<1>5. FileOK' /\ KeyKept(file.key)' /\ KeyKept(key[t])'
  BY <1>1, <1>2, Zenon DEF FileOK, KeyKept, ThreadOK, PlanOK
<1>6. CASE Goto(t, "configure") /\ UNCHANGED <<profile, primary, lock, disturbed>>
  <2>1. /\ pc' \in [Openers -> PCs] /\ result' \in [Openers -> Codes]
        /\ opened' \in [Openers -> Nat] /\ pc'[t] = "configure"
        /\ \A u \in Openers \ {t} : pc'[u] = pc[u] /\ result'[u] = result[u]
    BY <1>6, Moves, GoesOn, Zenon DEF PCs
  <2>2. OthersSame(t) /\ SharedMoves(t)
    BY <1>2, <1>6, <2>1, Zenon DEF OthersSame, SharedMoves
  <2>3. TypeOK'
    BY <1>1, <1>2, <1>6, <2>1 DEF TypeOK
  <2>4. ThreadOK(t)'
    BY <1>1, <1>2, <1>4, <1>5, <1>6, <2>1, Zenon
       DEF ThreadOK, DefaultsOK, PlanOK, ProfileOK, AnswerOK, Refuted, Looking
  <2>. QED  BY <1>5, <2>2, <2>3, <2>4, StepOf, Zenon
<1>7. CASE /\ Fallback(t, error) /\ file.len = "data"
           /\ ~disturbed'[t] => ~Matches(t) /\ ~disturbed[t]
           /\ disturbed' \in [Openers -> BOOLEAN]
           /\ \A u \in Openers \ {t} : disturbed'[u] = disturbed[u]
  <2>1. ~disturbed'[t] => file.key # key[t] \/ file.settings # settings[t]
    BY <1>7, Zenon DEF Matches
  <2>2. settings[t] = IF Encrypted(t) THEN Settings(profile[t]) ELSE PlainSettings
    BY <1>1, Zenon DEF ThreadOK, DefaultsOK
  <2>3. ~disturbed'[t] /\ Encrypted(t) => Refuted(t, profile[t])
    BY <2>1, <2>2, Zenon DEF Refuted
  <2>4. \/ /\ Encrypted(t) /\ candidate[t] /\ Goto(t, "open") /\ lock' = lock
           /\ \/ /\ profile[t] = "Current" /\ profile' = [profile EXCEPT ![t] = "Previous"]
                 /\ primary' = [primary EXCEPT ![t] = error]
              \/ /\ profile[t] = "Previous" /\ profile' = [profile EXCEPT ![t] = "Legacy"]
                 /\ primary' = primary
        \/ /\ \E code \in Codes : Fail(t, code) /\ UNCHANGED <<profile, primary>>
           /\ profile[t] # "Previous"
           /\ profile[t] = "Current" => ~Encrypted(t) \/ ~candidate[t]
    <3>1. profile[t] # "Current" => Encrypted(t) /\ candidate[t]
      BY <1>1, Zenon DEF ThreadOK, ProfileOK
    <3>2. error \in Codes /\ primary[t] \in Codes
      BY <1>1 DEF TypeOK, Codes, WrongKeyErrors
    <3>. QED  BY <1>1, <1>7, <3>1, <3>2, Zenon DEF Fallback
  <2>5. /\ pc' \in [Openers -> PCs] /\ result' \in [Openers -> Codes]
        /\ lock' \in Openers \union {None} /\ opened' \in [Openers -> Nat]
        /\ \A u \in Openers \ {t} : pc'[u] = pc[u] /\ result'[u] = result[u]
                                    /\ (lock = u => lock' = u)
    BY <2>4, Moves, Zenon DEF PCs
  <2>6. /\ profile' \in [Openers -> Profiles] /\ primary' \in [Openers -> Codes]
        /\ \A u \in Openers \ {t} : profile'[u] = profile[u]
    BY <1>1, <2>4 DEF TypeOK, Profiles, Codes, WrongKeyErrors
  <2>7. OthersSame(t) /\ SharedMoves(t)
    BY <1>2, <1>7, <2>5, <2>6, Zenon DEF OthersSame, SharedMoves
  <2>8. TypeOK'
    BY <1>1, <1>2, <1>7, <2>5, <2>6 DEF TypeOK
  <2>9. CASE Encrypted(t) /\ candidate[t] /\ Goto(t, "open") /\ profile' # profile
    <3>1. pc'[t] = "open" /\ key[t] \in Keys
      BY <1>1, <2>9, GoesOn, Zenon DEF PCs, ThreadOK, PlanOK, Looking
    <3>2. \/ profile[t] = "Current" /\ profile'[t] = "Previous"
          \/ profile[t] = "Previous" /\ profile'[t] = "Legacy"
      BY <1>1, <2>4, <2>9 DEF TypeOK
    <3>3. ProfileOK(t)'
      BY <1>1, <1>2, <1>4, <1>7, <2>3, <2>9, <3>1, <3>2, Zenon DEF ThreadOK, ProfileOK, Refuted, Looking
    <3>4. PlanOK(t)' /\ DefaultsOK(t)' /\ AnswerOK(t)'
      BY <1>1, <1>2, <1>4, <1>5, <2>9, <3>1, Zenon DEF ThreadOK, PlanOK, DefaultsOK, AnswerOK, Looking
    <3>. QED  BY <1>5, <2>7, <2>8, <3>3, <3>4, StepOf, Zenon DEF ThreadOK
  <2>10. ASSUME NEW code \in Codes, Fail(t, code), UNCHANGED <<profile, primary>>,
                profile[t] # "Previous", profile[t] = "Current" => ~Encrypted(t) \/ ~candidate[t]
         PROVE  IInv'
    <3>1. ~disturbed'[t] => file.key # key[t]
      <4>1. CASE ~Encrypted(t)
        <5>1. key[t] = Plain /\ settings[t] = PlainSettings
          BY <1>1, <2>2, <4>1, Zenon DEF ThreadOK, PlanOK, Looking
        <5>. QED  BY <1>1, <1>7, <2>1, <5>1, KeysAssumption, Zenon DEF FileOK
      <4>2. CASE Encrypted(t) /\ profile[t] = "Current"
        <5>1. ~candidate[t] /\ key[t] \in Keys
          BY <1>1, <2>10, <4>2, Zenon DEF ThreadOK, PlanOK, Looking
        <5>2. file.key \in Keys => file.settings = Settings("Current")
          BY <1>1, <1>7, <5>1, Zenon DEF ThreadOK, ProfileOK, Looking
        <5>. QED  BY <2>3, <4>2, <5>1, <5>2, Zenon DEF Refuted
      <4>3. CASE Encrypted(t) /\ profile[t] = "Legacy"
        <5>1. ~disturbed'[t] => \A p \in Profiles : Refuted(t, p)
          BY <1>1, <1>7, <2>3, <4>3, Zenon DEF ThreadOK, ProfileOK, Profiles
        <5>2. key[t] \in Keys
          BY <1>1, <4>3, Zenon DEF ThreadOK, ProfileOK
        <5>. QED  BY <1>1, <1>7, <5>1, <5>2, KeysAssumption, Zenon DEF FileOK, Refuted
      <4>. QED  BY <1>1, <2>10, <4>1, <4>2, <4>3, Zenon DEF Profiles
    <3>2. pc'[t] = "done" /\ DefaultsOK(t)' /\ AnswerOK(t)'
      BY <1>2, <1>7, <2>10, <3>1, GivesUp, Zenon
    <3>3. PlanOK(t)'
      BY <1>5, <3>2, Zenon DEF PlanOK, Looking
    <3>4. ProfileOK(t)'
      BY <1>1, <1>2, <1>4, <1>7, <2>10, <3>2, Zenon DEF ThreadOK, ProfileOK, Refuted, Looking
    <3>. QED  BY <1>5, <2>7, <2>8, <3>2, <3>3, <3>4, StepOf, Zenon DEF ThreadOK
  <2>. QED
    <3>1. CASE \E code \in Codes : Fail(t, code) /\ UNCHANGED <<profile, primary>>
               /\ profile[t] # "Previous"
               /\ (profile[t] = "Current" => ~Encrypted(t) \/ ~candidate[t])
      BY <2>10, <3>1, Zenon
    <3>2. CASE /\ Encrypted(t) /\ candidate[t] /\ Goto(t, "open") /\ lock' = lock
               /\ \/ /\ profile[t] = "Current" /\ profile' = [profile EXCEPT ![t] = "Previous"]
                  \/ /\ profile[t] = "Previous" /\ profile' = [profile EXCEPT ![t] = "Legacy"]
      <4>1. profile' # profile
        BY <1>1, <3>2 DEF TypeOK
      <4>. QED  BY <2>9, <3>2, <4>1, Zenon
    <3>. QED  BY <2>4, <3>1, <3>2, Zenon
<1>. QED  BY <1>3, <1>6, <1>7, Zenon

\* A new database is written with the key and the settings of its connection: in
\* the newest format, as older profiles are tried on existing files only.
LEMMA WrittenFile ==
    ASSUME IInv, NEW t \in Openers, pc[t] = "configure"
    PROVE  /\ Written(t) = file \/ (file.len # "data" /\ Written(t).len = "data")
           /\ Written(t) \in [len : {"absent", "empty", "data"}, key : Keys \union {None, Plain},
                              settings : AllSettings]
           /\ KeyKept(Written(t).key)
           /\ Written(t).len = "data" =>
                 \/ Written(t).key = Plain /\ Written(t).settings = PlainSettings
                 \/ Written(t).key \in Keys /\ \E p \in Profiles : Written(t).settings = Settings(p)
           /\ Written(t) # file /\ Written(t).key \in Keys => Written(t).settings = Settings("Current")
<1>1. ThreadOK(t) /\ TypeOK /\ FileOK /\ KeyKept(file.key) /\ profile[t] \in Profiles
  BY DEF IInv, TypeOK
<1>2. CASE Written(t) = file
  BY <1>1, <1>2 DEF TypeOK, FileOK
<1>3. CASE Written(t) # file
  <2>1. /\ file.len # "data"
        /\ Written(t) = [len |-> "data", key |-> key[t], settings |-> settings[t]]
    BY <1>3, Zenon DEF Written
  <2>2. key[t] \in Keys \union {None, Plain} /\ settings[t] \in AllSettings /\ KeyKept(key[t])
    BY <1>1 DEF TypeOK, ThreadOK, PlanOK
  <2>3. IF Encrypted(t) THEN key[t] \in Keys /\ settings[t] = Settings("Current")
                        ELSE key[t] = Plain /\ settings[t] = PlainSettings
    BY <1>1, <2>1, Zenon DEF ThreadOK, DefaultsOK, PlanOK, ProfileOK, Looking
  <2>. QED  BY <2>1, <2>2, <2>3, KeysAssumption DEF Profiles
<1>. QED  BY <1>2, <1>3, Zenon

\* configure_connection, and the next connection of a pool.
LEMMA ConfigureStep ==
    ASSUME IInv, NEW t \in Openers, Configure(t)
    PROVE  IInv'
<1>1. /\ pc[t] = "configure" /\ ThreadOK(t) /\ TypeOK /\ FileOK /\ KeyKept(file.key)
  BY Zenon DEF Configure, IInv
<1>2. UNCHANGED <<store, raced, hmac, page, req, key, candidate, settings, primary, disturbed>>
  BY Zenon DEF Configure, plan
<1>3. file' = file \/ file' = Written(t)
  BY Zenon DEF Configure
<1>4. /\ file' = file \/ (file.len # "data" /\ file'.len = "data"
                          /\ (file'.key \in Keys => file'.settings = Settings("Current")))
      /\ file' \in [len : {"absent", "empty", "data"}, key : Keys \union {None, Plain},
                    settings : AllSettings]
      /\ FileOK' /\ KeyKept(file.key)'
  <2>1. CASE file' = file
    BY <1>1, <1>2, <2>1 DEF FileOK, KeyKept, TypeOK
  <2>2. CASE file' = Written(t) /\ file' # file
    BY <1>1, <1>2, <2>2, WrittenFile, Zenon DEF FileOK, KeyKept
  <2>. QED  BY <1>3, <2>1, <2>2, Zenon
<1>5. \/ \E code \in {"Storage", "DatabaseBusy"} : Fail(t, code) /\ profile' = profile
      \/ /\ pc' = [pc EXCEPT ![t] = "done"] /\ result' = [result EXCEPT ![t] = "Ok"]
         /\ profile' = profile /\ lock' = lock /\ opened' = [opened EXCEPT ![t] = @ + 1]
      \/ /\ pc' = [pc EXCEPT ![t] = "metadata"] /\ profile' = [profile EXCEPT ![t] = "Current"]
         /\ result' = result /\ lock' = lock /\ opened' = [opened EXCEPT ![t] = @ + 1]
  BY Zenon DEF Configure
<1>6. /\ pc' \in [Openers -> PCs] /\ result' \in [Openers -> Codes]
      /\ lock' \in Openers \union {None} /\ opened' \in [Openers -> Nat]
      /\ profile' \in [Openers -> Profiles]
      /\ \A u \in Openers \ {t} : /\ pc'[u] = pc[u] /\ result'[u] = result[u]
                                  /\ profile'[u] = profile[u] /\ (lock = u => lock' = u)
  BY <1>1, <1>5 DEF Fail, TypeOK, PCs, Codes, Profiles
<1>7. /\ pc'[t] \in {"done", "metadata"} /\ (pc'[t] = "metadata" => profile'[t] = "Current")
      /\ profile'[t] = profile[t] \/ profile'[t] = "Current"
      /\ DefaultsOK(t)' /\ AnswerOK(t)'
  <2>1. ASSUME NEW code \in {"Storage", "DatabaseBusy"}, Fail(t, code)
        PROVE  pc'[t] = "done" /\ DefaultsOK(t)' /\ AnswerOK(t)'
    BY <2>1, GivesUp, Zenon DEF Codes, WrongKeyErrors
  <2>2. CASE /\ pc' = [pc EXCEPT ![t] = "done"] /\ result' = [result EXCEPT ![t] = "Ok"]
             /\ profile' = profile
    BY <1>1, <2>2 DEF TypeOK, DefaultsOK, AnswerOK, WrongKeyErrors
  <2>3. CASE pc' = [pc EXCEPT ![t] = "metadata"] /\ profile' = [profile EXCEPT ![t] = "Current"]
    BY <1>1, <2>3 DEF TypeOK, DefaultsOK, AnswerOK
  <2>. QED  BY <1>5, <2>1, <2>2, <2>3, Zenon
<1>8. Encrypted(t)' <=> Encrypted(t)
  BY <1>2, Zenon DEF Encrypted
<1>9. OthersSame(t) /\ SharedMoves(t)
  BY <1>2, <1>4, <1>6, Zenon DEF OthersSame, SharedMoves
<1>10. TypeOK'
  BY <1>1, <1>2, <1>4, <1>6 DEF TypeOK
<1>11. PlanOK(t)'
  BY <1>1, <1>2, <1>7, <1>8, Zenon DEF ThreadOK, PlanOK, KeyKept, Looking
<1>12. ProfileOK(t)'
  BY <1>1, <1>2, <1>4, <1>7, <1>8, Zenon DEF ThreadOK, ProfileOK, Refuted, Looking
<1>. QED  BY <1>4, <1>7, <1>9, <1>10, <1>11, <1>12, StepOf, Zenon DEF ThreadOK

\* A thread that has nothing open.
LEMMA Blank ==
    ASSUME NEW t \in Openers, pc'[t] = "idle", profile'[t] = "Current", ~candidate'[t],
           key'[t] = None
    PROVE  ThreadOK(t)'
BY KeysAssumption, Zenon DEF ThreadOK, DefaultsOK, PlanOK, ProfileOK, AnswerOK, KeyKept, Looking

\* The caller closes what it opened.
LEMMA CloseStep ==
    ASSUME IInv, NEW t \in Openers, Close(t)
    PROVE  IInv'
<1>1. TypeOK /\ FileOK /\ KeyKept(file.key)
  BY Zenon DEF IInv
<1>2. UNCHANGED <<file, store, raced, hmac, page, lock>>
  BY Zenon DEF Close, world, cipher
<1>3. TypeOK'
  BY <1>1, <1>2 DEF Close, TypeOK, PCs, Codes, Profiles, AllSettings
<1>4. OthersSame(t) /\ SharedMoves(t)
  BY <1>1, <1>2 DEF Close, OthersSame, SharedMoves, TypeOK
<1>5. ThreadOK(t)'
  BY <1>1, Blank DEF Close, TypeOK
<1>6. FileOK' /\ KeyKept(file.key)'
  BY <1>1, <1>2, Zenon DEF FileOK, KeyKept
<1>. QED  BY <1>3, <1>4, <1>5, <1>6, StepOf, Zenon

\* The process dies; the file and the provider's store remain.
LEMMA CrashStep ==
    ASSUME IInv, Crash
    PROVE  IInv'
<1>1. TypeOK /\ FileOK /\ KeyKept(file.key) /\ UNCHANGED <<file, store, raced>>
  BY Zenon DEF IInv, Crash, world
<1>2. TypeOK'
  BY <1>1, SMTT(20) DEF Crash, TypeOK, PCs, Codes, Profiles, AllSettings
<1>3. \A t \in Openers : ThreadOK(t)'
  BY Blank, Zenon DEF Crash
<1>4. FileOK' /\ KeyKept(file.key)'
  BY <1>1, Zenon DEF FileOK, KeyKept
<1>. QED  BY <1>2, <1>3, <1>4, ZenonT(30) DEF IInv

-----------------------------------------------------------------------------
(* The theorems.                                                           *)

\* A file that is there at the start is in a format of this library.
LEMMA Initially == Init => IInv
<1> SUFFICES ASSUME Init PROVE IInv
  BY ZenonT(30)
<1>1. /\ file \in [len : {"absent", "empty", "data"}, key : Keys \union {None, Plain},
                   settings : AllSettings]
      /\ FileOK /\ file.key \in InitKeys \union {Plain, None}
  <2>1. CASE file = [len |-> "absent", key |-> None, settings |-> NoSettings]
    BY <2>1, Zenon DEF FileOK, AllSettings
  <2>2. CASE file = [len |-> "data", key |-> Plain, settings |-> PlainSettings]
    BY <2>2, Zenon DEF FileOK, AllSettings
  <2>3. CASE file \in [len : {"data"}, key : InitKeys, settings : {Settings(p) : p \in Profiles}]
    BY <2>3, KeysAssumption, Zenon DEF FileOK, AllSettings
  <2>. QED  BY <2>1, <2>2, <2>3, Zenon DEF Init, InitFiles
<1>2. store \in Keys \union {None} /\ raced \in BOOLEAN
  BY KeysAssumption, Zenon DEF Init
<1>3. TypeOK
  BY <1>1, <1>2 DEF Init, TypeOK, PCs, Codes, Profiles, AllSettings
<1>4. KeyKept(file.key)
  BY <1>1, KeysAssumption, Zenon DEF KeyKept
<1>5. \A t \in Openers : ThreadOK(t)
  BY KeysAssumption
     DEF Init, ThreadOK, DefaultsOK, PlanOK, ProfileOK, AnswerOK, KeyKept, Looking
<1>. QED  BY <1>1, <1>3, <1>4, <1>5, Zenon DEF IInv

\* Every step keeps the invariant.
LEMMA Inductive ==
    ASSUME IInv, [Next]_vars
    PROVE  IInv'
<1>1. CASE UNCHANGED vars
  <2>1. \A t \in Openers : ThreadOK(t)'
    BY <1>1 DEF vars, IInv, ThreadOK, DefaultsOK, PlanOK, ProfileOK, AnswerOK, KeyKept, Refuted,
                Encrypted
  <2>2. TypeOK' /\ FileOK' /\ KeyKept(file.key)'
    BY <1>1 DEF vars, IInv, TypeOK, FileOK, KeyKept
  <2>. QED  BY <2>1, <2>2, ZenonT(30) DEF IInv
<1>. QED
  BY <1>1, PlanStep, ProviderStep, MetadataStep, OpenEngineStep, KeyingStep, VerifyStep,
     ConfigureStep, CloseStep, CrashStep, Zenon DEF Next

\* The variables keep their types.
THEOREM TypeCorrect == Spec => []TypeOK
<1>1. IInv => TypeOK
  BY Zenon DEF IInv
<1>. QED  BY <1>1, Initially, Inductive, PTL DEF Spec

\* However many threads open and whatever they ask for, each connection is keyed
\* with the profile its opener asked for (apply_key_with_profile).
THEOREM ProfilesDoNotMix == Spec => []KeyedAsAsked
<1>1. IInv => KeyedAsAsked
  BY Zenon DEF IInv, ThreadOK, DefaultsOK, KeyedAsAsked
<1>. QED  BY <1>1, Initially, Inductive, PTL DEF Spec

\* A database that was encrypted with a key the provider made stays readable: the
\* provider keeps that key through crashes and later opens, unless two openers
\* were both about to create one (load_or_create_key).
THEOREM KeysSurvive == Spec => []KeyNotLost
<1>1. IInv => KeyNotLost
  BY Zenon DEF IInv, KeyKept, KeyNotLost
<1>. QED  BY <1>1, Initially, Inductive, PTL DEF Spec

\* A key is reported wrong only when it is: no format a file can have, and no
\* other opener that writes the file meanwhile, makes the fallback miss it.
THEOREM WrongKeysOnly == Spec => []WrongKeyIsWrong
<1>1. IInv => WrongKeyIsWrong
  BY Zenon DEF IInv, ThreadOK, AnswerOK, WrongKeyIsWrong
<1>. QED  BY <1>1, Initially, Inductive, PTL DEF Spec

=============================================================================
