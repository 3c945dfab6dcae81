------------------------------ MODULE FaultVfs ------------------------------
(***************************************************************************)
(* The storage layer the recovery tests inject faults with                 *)
(* (crates/csgdb-storage/src/fault.rs): one controller per process, armed  *)
(* by the test that holds the session, and consulted by every write, sync  *)
(* and truncation of every file that was opened through the layer, also of *)
(* connections an earlier test left open.                                  *)
(***************************************************************************)
EXTENDS Naturals

CONSTANTS Testers,   \* threads that start sessions
          Files,     \* files opened through the layer
          MaxCount   \* the largest value of a counter, 2^64 - 1

Operations == {"Write", "Sync", "Truncate"}
Targets == {"Any", "MainDatabase", "WriteAheadLog"}

\* Prefix 0 stands for FaultAction::Error: a partial write keeps at least a byte.
Rules ==
    {r \in [operation : Operations, target : Targets, occurrence : 1 .. MaxCount, prefix : Nat] :
        r.prefix # 0 => r.operation = "Write"}

VARIABLES
    registered,  \* REGISTRATION
    session,     \* the holder of SESSION: at most one
    dropping,    \* ... that has reset the controller and not yet let go
    armed, rule, \* Controller::rule: armed, and the rule armed last
    match_count,
    writes, syncs, truncates, matching, injections,   \* Controller::stats
    opened,      \* the target of each file, by the flags it was opened with
    files,       \* files that are open
    passed,      \* the bytes of the last write that went to the platform
    result,      \* what the last operation returned
    counting,    \* history: since a rule was armed, and not disarmed,
    seen,        \* ... the operations it selects
    faults       \* ... and the faults injected

stats == <<writes, syncs, truncates, matching, injections>>
history == <<counting, seen, faults>>
controller == <<armed, rule, match_count, stats>>
world == <<opened, files, passed, result>>
faultVars == <<registered, session, dropping, controller, world, history>>

FaultInit ==
    /\ registered = FALSE /\ session = {} /\ dropping = {}
    /\ armed = FALSE /\ rule \in Rules /\ match_count = 0
    /\ writes = 0 /\ syncs = 0 /\ truncates = 0 /\ matching = 0 /\ injections = 0
    /\ opened \in [Files -> Targets] /\ files = {} /\ passed = 0
    /\ result = "Ok"
    /\ counting = FALSE /\ seen = 0 /\ faults = 0

-----------------------------------------------------------------------------
(* Sessions                                                                *)

\* reset_controller
Reset ==
    /\ armed' = FALSE /\ match_count' = 0
    /\ writes' = 0 /\ syncs' = 0 /\ truncates' = 0 /\ matching' = 0 /\ injections' = 0
    /\ counting' = FALSE /\ seen' = 0 /\ faults' = 0
    /\ UNCHANGED rule

\* FaultSession::start registers the layer, once per process and before it waits
\* for the session.  A registration that fails is remembered: no start succeeds.
Register ==
    /\ ~registered
    /\ registered' = TRUE
    /\ UNCHANGED <<session, dropping, controller, world, history>>

Start(t) ==
    /\ registered /\ session = {}
    /\ session' = {t}
    /\ Reset
    /\ UNCHANGED <<registered, dropping, world>>

\* arm
Arm(t, r) ==
    /\ t \in session /\ t \notin dropping
    /\ armed' = TRUE /\ rule' = r /\ match_count' = 0
    /\ counting' = TRUE /\ seen' = 0 /\ faults' = 0
    /\ UNCHANGED <<registered, session, dropping, stats, world>>

\* disarm
Disarm(t) ==
    /\ t \in session /\ t \notin dropping
    /\ armed' = FALSE /\ match_count' = 0
    /\ counting' = FALSE /\ seen' = 0 /\ faults' = 0
    /\ UNCHANGED <<registered, session, dropping, rule, stats, world>>

\* Drop: the controller is reset before the session's lock is released.
DropReset(t) ==
    /\ t \in session /\ t \notin dropping
    /\ dropping' = {t}
    /\ Reset
    /\ UNCHANGED <<registered, session, world>>

DropRelease(t) ==
    /\ t \in dropping
    /\ session' = {} /\ dropping' = {}
    /\ UNCHANGED <<registered, controller, world, history>>

-----------------------------------------------------------------------------
(* Files                                                                   *)

\* fault_open, with target_from_flags
fault_open(f, target) ==
    /\ registered /\ f \notin files
    /\ opened' = [opened EXCEPT ![f] = target]
    /\ files' = files \union {f}
    /\ UNCHANGED <<registered, session, dropping, controller, passed, result, history>>

\* io_close
io_close(f) ==
    /\ f \in files
    /\ files' = files \ {f}
    /\ UNCHANGED <<registered, session, dropping, controller, opened, passed, result, history>>

saturating_add(n) == IF n < MaxCount THEN n + 1 ELSE n

\* target_matches: the file a rule selects.
Selects(r, operation, target) ==
    r.operation = operation /\ (r.target = "Any" \/ r.target = target)

Selected(operation, f) == Selects(rule, operation, opened[f])

\* Controller::intercept injects a fault into this operation.
Hits(operation, f) ==
    /\ armed /\ Selected(operation, f)
    /\ saturating_add(match_count) = rule.occurrence

\* Controller::intercept, the counters.
Intercept(operation, f) ==
    /\ writes' = IF operation = "Write" THEN saturating_add(writes) ELSE writes
    /\ syncs' = IF operation = "Sync" THEN saturating_add(syncs) ELSE syncs
    /\ truncates' = IF operation = "Truncate" THEN saturating_add(truncates) ELSE truncates
    /\ IF armed /\ Selected(operation, f)
       THEN /\ match_count' = saturating_add(match_count)
            /\ matching' = saturating_add(matching)
            /\ armed' = ~Hits(operation, f)
            /\ injections' = IF Hits(operation, f) THEN saturating_add(injections)
                             ELSE injections
       ELSE UNCHANGED <<match_count, matching, armed, injections>>
    /\ seen' = IF counting /\ Selected(operation, f) THEN seen + 1 ELSE seen
    /\ faults' = IF Hits(operation, f) THEN faults + 1 ELSE faults
    /\ UNCHANGED <<registered, session, dropping, rule, opened, files, counting>>

\* io_write: an injected fault passes a prefix of the bytes on, or nothing, and
\* reports an error; otherwise the platform decides.
io_write(f, amount) ==
    /\ f \in files
    /\ Intercept("Write", f)
    /\ IF Hits("Write", f)
       THEN /\ passed' = IF amount < rule.prefix THEN amount ELSE rule.prefix
            /\ result' \in {"SQLITE_IOERR_WRITE"} \union
                           (IF passed' > 0 THEN {"platform error"} ELSE {})
       ELSE /\ passed' = amount
            /\ result' \in {"Ok", "platform error"}

\* io_sync
io_sync(f) ==
    /\ f \in files
    /\ Intercept("Sync", f)
    /\ result' \in IF Hits("Sync", f) THEN {"SQLITE_IOERR_FSYNC"} ELSE {"Ok", "platform error"}
    /\ passed' = 0

\* io_truncate
io_truncate(f) ==
    /\ f \in files
    /\ Intercept("Truncate", f)
    /\ result' \in IF Hits("Truncate", f) THEN {"SQLITE_IOERR_TRUNCATE"}
                   ELSE {"Ok", "platform error"}
    /\ passed' = 0

FaultNext ==
    \/ Register
    \/ \E t \in Testers : Start(t) \/ Disarm(t) \/ DropReset(t) \/ DropRelease(t)
    \/ \E t \in Testers, r \in Rules : Arm(t, r)
    \/ \E f \in Files, target \in Targets : fault_open(f, target)
    \/ \E f \in Files : io_close(f) \/ io_sync(f) \/ io_truncate(f)
    \/ \E f \in Files, n \in Nat : io_write(f, n)

FaultSpec == FaultInit /\ [][FaultNext]_faultVars

-----------------------------------------------------------------------------

\* While a rule is armed, and until it is disarmed, the n-th operation it
\* selects fails, n being its occurrence, and no other: whatever operations of
\* other kinds, on other files and of other connections come in between.
FaultExact ==
    counting => faults = IF seen >= rule.occurrence THEN 1 ELSE 0

\* A fault is injected only for the test that holds the session: not between
\* sessions, not while one is dropped, not into the next one.
FaultsOwned ==
    armed => counting /\ session # {} /\ dropping = {}

=============================================================================
