----------------------------- MODULE FfiHandles -----------------------------
(***************************************************************************)
(* The C ABI (crates/csgdb-ffi/src/lib.rs): one database handle, the       *)
(* prepared statements made from it, and the threads that call the library *)
(* at the same time.  A connection is shared by its handle and its         *)
(* statements (an Arc<SharedDatabase>) and goes away with the last of      *)
(* them.  Statement calls do not take the wrapper's mutex; the engine      *)
(* serializes them with its own (FULLMUTEX).                               *)
(*                                                                         *)
(* The callers keep the documented contract: a thread uses its own         *)
(* statement only (named by the thread), nobody uses the handle while      *)
(* csgdb_close runs or after it, and a column pointer is dropped before    *)
(* the next step, reset or finalize of its statement.  Calls that fail     *)
(* without storing anything (a null handle, a handle without a database,   *)
(* an unreadable string given to csgdb_exec) change no state and are not   *)
(* actions.  Panics abort the process at the C boundary, so no lock is     *)
(* ever poisoned.                                                          *)
(***************************************************************************)
EXTENDS Integers, FiniteSets

CONSTANTS Threads,       \* the calling threads
          None,          \* no thread
          OpenCalls,     \* argument records of the open functions
          OpenErrors,    \* error codes the open operation may fail with
          EngineErrors   \* result codes the engine may fail with

ASSUME ThreadsAssumption == IsFiniteSet(Threads) /\ None \notin Threads

VARIABLES
    handle,       \* the CsgdbHandle: none, without a database, live, closed
    openCode,     \* CsgdbHandle::open_code
    conn,         \* the engine connection: none, open, closed
    owners,       \* who holds a clone of the Arc: threads' statements, None
                  \* for the handle
    lock,         \* SharedDatabase::database, the wrapper's mutex
    engine,       \* the engine's connection mutex
    interrupted,  \* the engine's interrupt flag
    lastCode,     \* SharedDatabase::last_code
    word,         \* CsgdbStatement::state per thread, or none
    raw,          \* the engine's statement: none, idle, running, row, done or
                  \* the error its last step returned
    bound,        \* does the engine hold a copy of a bound value?
    view,         \* may the caller use a column pointer of this statement?
    pc,           \* where each thread is in its call
    kind,         \* what the call works on: handle, statement, or ends them
    result        \* the code the call will record and return

shared == <<handle, openCode, conn, owners>>
stmts == <<word, raw, bound, view>>
locks == <<lock, engine, interrupted>>
calls == <<pc, kind, result>>
vars == <<handle, openCode, conn, owners, word, raw, bound, view,
          lock, engine, interrupted, pc, kind, result, lastCode>>

Codes == {"OK", "INVALID_ARGUMENT", "INVALID_OPEN_FLAGS", "INVALID_KEY",
          "KEY_REQUIRED", "KEYSTORE_UNAVAILABLE", "BUSY", "READONLY",
          "CONSTRAINT", "CORRUPT", "STORAGE", "MISUSE", "RANGE", "INTERRUPT"}

EngineStates == {"none", "idle", "running", "row", "done"}

ASSUME ErrorsAssumption == EngineErrors \intersect EngineStates = {}

TypeOK ==
    /\ handle \in {"none", "failed", "live", "closed"}
    /\ openCode \in Codes /\ lastCode \in Codes
    /\ conn \in {"none", "open", "closed"}
    /\ owners \subseteq Threads \union {None}
    /\ lock \in Threads \union {None} /\ engine \in Threads \union {None}
    /\ interrupted \in BOOLEAN
    /\ word \in [Threads -> {"none", "Ready", "Row", "Done", "Failed"}]
    /\ raw \in [Threads -> EngineStates \union EngineErrors]
    /\ bound \in [Threads -> BOOLEAN] /\ view \in [Threads -> BOOLEAN]
    /\ pc \in [Threads -> {"idle", "running", "record", "store", "drop"}]
    /\ kind \in [Threads -> {"handle", "statement", "finalize", "close"}]
    /\ result \in [Threads -> Codes]

-----------------------------------------------------------------------------
(* Codes                                                                   *)

map_sqlite_code(rc) ==
    CASE rc = "SQLITE_OK"                             -> "OK"
      [] rc \in {"SQLITE_BUSY", "SQLITE_LOCKED"}      -> "BUSY"
      [] rc = "SQLITE_READONLY"                       -> "READONLY"
      [] rc = "SQLITE_CONSTRAINT"                     -> "CONSTRAINT"
      [] rc \in {"SQLITE_CORRUPT", "SQLITE_NOTADB"}   -> "CORRUPT"
      [] rc = "SQLITE_MISUSE"                         -> "MISUSE"
      [] rc = "SQLITE_RANGE"                          -> "RANGE"
      [] rc = "SQLITE_INTERRUPT"                      -> "INTERRUPT"
      [] OTHER                                            -> "STORAGE"

\* csgdb-storage, map_storage_error: what the Rust layer makes of an engine
\* error.
map_storage_error(rc) ==
    CASE rc = "SQLITE_IOERR_WRITE"                  -> "StorageWriteFailed"
      [] rc = "SQLITE_IOERR_FSYNC"                  -> "StorageSyncFailed"
      [] rc = "SQLITE_IOERR_TRUNCATE"               -> "StorageTruncateFailed"
      [] rc \in {"SQLITE_BUSY", "SQLITE_LOCKED"}    -> "DatabaseBusy"
      [] rc = "SQLITE_READONLY"                     -> "DatabaseReadOnly"
      [] rc = "SQLITE_CONSTRAINT"                   -> "ConstraintViolation"
      [] rc = "SQLITE_CORRUPT"                      -> "DatabaseCorrupt"
      [] rc = "SQLITE_INTERRUPT"                    -> "QueryInterrupted"
      [] rc = "SQL_INPUT_ERROR"                     -> "InvalidSql"
      [] rc = "INVALID_PARAMETER_COUNT"             -> "ParameterCountMismatch"
      [] rc = "INVALID_PARAMETER_NAME"              -> "InvalidParameterIndex"
      [] rc = "INVALID_COLUMN_INDEX"                -> "InvalidColumnIndex"
      [] rc = "INVALID_COLUMN_TYPE"                 -> "InvalidColumnType"
      [] rc = "UTF8_ERROR"                          -> "InvalidUtf8"
      [] OTHER                                      -> "Storage"

error_code(error) ==
    CASE error \in {"InvalidOpenFlags", "PlaintextRequiresOptIn"} -> "INVALID_OPEN_FLAGS"
      [] error \in {"InvalidKeyLength", "InvalidDatabaseKey"} -> "INVALID_KEY"
      [] error = "KeyRequired"         -> "KEY_REQUIRED"
      [] error = "KeyStoreUnavailable" -> "KEYSTORE_UNAVAILABLE"
      [] error = "DatabaseBusy"        -> "BUSY"
      [] error = "DatabaseReadOnly"    -> "READONLY"
      [] error = "ConstraintViolation" -> "CONSTRAINT"
      [] error = "DatabaseCorrupt"     -> "CORRUPT"
      [] error = "QueryInterrupted"    -> "INTERRUPT"
      [] error \in {"InvalidParameterIndex", "InvalidColumnIndex"} -> "RANGE"
      [] error = "InvalidStatementState" -> "MISUSE"
      [] error \in {"InvalidPath", "InvalidVfs", "InvalidFaultRule", "InvalidSql",
                    "ParameterCountMismatch", "InvalidColumnType", "InvalidQuery",
                    "InvalidUtf8", "InvalidBusyTimeout", "InvalidCheckpointThreshold",
                    "InvalidDatabaseName"} -> "INVALID_ARGUMENT"
      [] OTHER -> "STORAGE"

\* Calls on the handle go through the Rust layer and its errors.
HandleCode(rc) == IF rc = "SQLITE_OK" THEN "OK" ELSE error_code(map_storage_error(rc))

-----------------------------------------------------------------------------
(* Opening                                                                 *)

\* The arguments of an open call, as far as the wrapper looks at them: is
\* out_db, the path, the options structure, the vfs string, the flag word
\* well formed, and what the key argument is.
KeyArguments == {"auto", "raw", "passphrase", "provider", "null", "length",
                 "small", "unknown"}
OpenArguments ==
    [fn : {"open", "open_v2", "open_with_key", "open_v3"}, out : BOOLEAN,
     path : BOOLEAN, options : BOOLEAN, vfs : BOOLEAN, flags : BOOLEAN,
     key : KeyArguments]

ASSUME OpenCallsAssumption == OpenCalls \subseteq OpenArguments

\* parse_key_source: the code of its error, or OK.
parse_key_source(key) ==
    CASE key \in {"auto", "raw", "passphrase"}              -> "OK"
      [] key \in {"small", "null", "length", "unknown"}     -> error_code("InvalidKeyLength")
      [] key = "provider"                                   -> error_code("KeyStoreUnavailable")

\* csgdb_open_with_key: a null key is an argument error, a key that is not 32
\* bytes long an error of SecretKey::from_slice.
RawKeyCode(key) ==
    CASE key = "raw" -> "OK"
      [] key = "null" -> "INVALID_ARGUMENT"
      [] OTHER -> error_code("InvalidKeyLength")

\* The first failing check of an open function before the open operation; with
\* one of these the caller gets a code and a null handle.
ArgumentCode(c) ==
    IF ~c.out \/ (c.fn = "open_v3" /\ ~c.options) THEN "INVALID_ARGUMENT"
    ELSE IF c.fn = "open_v3" /\ ~c.flags THEN "INVALID_OPEN_FLAGS"
    ELSE IF c.fn \in {"open_v2", "open_v3"} /\ ~c.vfs THEN "INVALID_ARGUMENT"
    ELSE IF c.fn = "open_with_key" /\ RawKeyCode(c.key) # "OK" THEN RawKeyCode(c.key)
    ELSE IF c.fn = "open_v3" /\ parse_key_source(c.key) # "OK" THEN parse_key_source(c.key)
    ELSE IF ~c.path THEN "INVALID_ARGUMENT"
    ELSE "OK"

\* The errors the operation itself can return: unknown flag bits reach it only
\* through csgdb_open_v2.
OperationErrors(c) ==
    IF c.fn = "open_v2" /\ ~c.flags THEN {"InvalidOpenFlags"} ELSE OpenErrors

Init ==
    /\ handle = "none" /\ openCode = "OK" /\ conn = "none" /\ owners = {}
    /\ lock = None /\ engine = None /\ interrupted = FALSE /\ lastCode = "OK"
    /\ word = [t \in Threads |-> "none"] /\ raw = [t \in Threads |-> "none"]
    /\ bound = [t \in Threads |-> FALSE] /\ view = [t \in Threads |-> FALSE]
    /\ pc = [t \in Threads |-> "idle"] /\ kind = [t \in Threads |-> "handle"]
    /\ result = [t \in Threads |-> "OK"]

\* The open operation succeeded: CsgdbHandle::new with a SharedDatabase.
OpenLive ==
    /\ handle' = "live" /\ openCode' = "OK" /\ conn' = "open" /\ owners' = {None}
    /\ interrupted' = FALSE /\ lastCode' = "OK"
    /\ UNCHANGED <<stmts, lock, engine, calls>>

\* The open operation failed: a handle that only remembers the code.
OpenFailed(e) ==
    /\ handle' = "failed" /\ openCode' = error_code(e)
    /\ UNCHANGED <<conn, owners, stmts, locks, lastCode, calls>>

\* csgdb_open, csgdb_open_v2, csgdb_open_with_key, csgdb_open_v3, all through
\* open_from.
Open(t, c) ==
    /\ handle \in {"none", "closed"} /\ owners = {}
    /\ \A u \in Threads : pc[u] = "idle"
    /\ \/ /\ ArgumentCode(c) # "OK"
          /\ handle' = "none" /\ openCode' = ArgumentCode(c)
          /\ UNCHANGED <<conn, owners, stmts, locks, lastCode, calls>>
       \/ /\ ArgumentCode(c) = "OK" /\ (c.fn = "open_v2" => c.flags)
          /\ OpenLive
       \/ /\ ArgumentCode(c) = "OK"
          /\ \E e \in OperationErrors(c) : OpenFailed(e)

-----------------------------------------------------------------------------
(* The status word.  A call ends by recording its outcome; calls of        *)
(* different threads overlap, and set_ok reads the word before it stores.  *)

CanCall(t) == pc[t] = "idle"
CanUseHandle(t) == CanCall(t) /\ handle = "live"

Enter(t, k, at, code) ==
    /\ pc' = [pc EXCEPT ![t] = at]
    /\ kind' = [kind EXCEPT ![t] = k]
    /\ result' = [result EXCEPT ![t] = code]

\* The thread is outside the library again.
Exit(t) == Enter(t, "handle", "idle", "OK")

\* The outcome is recorded: the call returns and the mutex guard of a handle
\* call is dropped; finalize still has to drop its statement's clone of the Arc.
Leave(t) ==
    /\ IF kind[t] = "finalize" THEN Enter(t, "finalize", "drop", "OK") ELSE Exit(t)
    /\ lock' = IF lock = t THEN None ELSE lock
    /\ UNCHANGED <<engine, interrupted>>

\* set_error, set_code: an unconditional store.
set_code(t) ==
    /\ pc[t] = "record" /\ result[t] # "OK"
    /\ lastCode' = result[t]
    /\ Leave(t)
    /\ UNCHANGED <<shared, stmts>>

\* set_ok, the load: nothing is stored when the word is OK already.
set_ok(t) ==
    /\ pc[t] = "record" /\ result[t] = "OK"
    /\ IF lastCode = "OK"
       THEN Leave(t)
       ELSE Enter(t, kind[t], "store", "OK") /\ UNCHANGED locks
    /\ UNCHANGED <<shared, stmts, lastCode>>

\* set_ok, the store: whatever the word is by now.
set_ok_store(t) ==
    /\ pc[t] = "store"
    /\ lastCode' = "OK"
    /\ Leave(t)
    /\ UNCHANGED <<shared, stmts>>

-----------------------------------------------------------------------------
(* Calls on the handle                                                     *)

\* The functions that take the mutex, do one thing in the engine and record
\* the outcome.  The values (changes64, total_changes64, last_insert_rowid,
\* get_autocommit) cannot fail; release_memory has no arguments to refuse.
\* wal_checkpoint_v2 records BUSY when the checkpoint is incomplete.
Values == {"value"}
Settings == {"db_readonly", "txn_state", "busy_timeout", "wal_autocheckpoint",
             "wal_checkpoint_v2"}
HandleOps == Values \union Settings \union {"release_memory"}

Outcomes(op) ==
    {"OK"} \union
    (IF op \in Values THEN {} ELSE {HandleCode(e) : e \in EngineErrors}) \union
    (IF op = "wal_checkpoint_v2" THEN {"BUSY"} ELSE {})

\* An argument the function refuses is recorded without taking the mutex.
BadArgument(t) ==
    /\ CanUseHandle(t)
    /\ Enter(t, "handle", "record", "INVALID_ARGUMENT")
    /\ UNCHANGED <<shared, stmts, locks, lastCode>>

HandleCall(t, op) ==
    /\ CanUseHandle(t) /\ lock = None /\ engine = None
    /\ lock' = t
    /\ \E code \in Outcomes(op) : Enter(t, "handle", "record", code)
    /\ UNCHANGED <<shared, stmts, engine, interrupted, lastCode>>

\* csgdb_exec runs SQL in the engine with both mutexes held.
Exec(t) ==
    /\ CanUseHandle(t) /\ lock = None /\ engine = None
    /\ lock' = t /\ engine' = t
    /\ Enter(t, "handle", "running", "OK")
    /\ interrupted' = (interrupted /\ \E u \in Threads : raw[u] = "row")
    /\ UNCHANGED <<shared, stmts, lastCode>>

\* The engine's answers: an interrupt ends what runs when it notices the flag.
EngineAnswers ==
    {e \in EngineErrors : e = "SQLITE_INTERRUPT" => interrupted}

ExecEnd(t) ==
    /\ pc[t] = "running" /\ kind[t] = "handle"
    /\ engine' = None
    /\ \E r \in EngineAnswers \union {"SQLITE_OK"} :
           Enter(t, "handle", "record", HandleCode(r))
    /\ UNCHANGED <<shared, stmts, lock, interrupted, lastCode>>

\* csgdb_interrupt takes neither mutex.
Interrupt(t) ==
    /\ CanUseHandle(t)
    /\ interrupted' = TRUE
    /\ UNCHANGED <<shared, stmts, lock, engine, lastCode, calls>>

\* prepare_statement.  An SQL error, and an SQL text without a statement, give
\* no statement; otherwise the new statement holds a clone of the Arc.
Prepare(t) ==
    /\ CanUseHandle(t) /\ word[t] = "none" /\ t \notin owners
    /\ lock = None /\ engine = None
    /\ lock' = t
    /\ \/ /\ \E e \in EngineErrors : Enter(t, "handle", "record", map_sqlite_code(e))
          /\ UNCHANGED <<owners, word, raw>>
       \/ /\ Enter(t, "handle", "record", "OK")
          /\ UNCHANGED <<owners, word, raw>>
       \/ /\ Enter(t, "handle", "record", "OK")
          /\ owners' = owners \union {t}
          /\ word' = [word EXCEPT ![t] = "Ready"]
          /\ raw' = [raw EXCEPT ![t] = "idle"]
    /\ UNCHANGED <<handle, openCode, conn, bound, view, engine, interrupted, lastCode>>

-----------------------------------------------------------------------------
(* Calls on a statement, by the thread that uses it                        *)

CanUseStatement(t) == CanCall(t) /\ word[t] # "none"

StatementResult(t, code) == Enter(t, "statement", "record", code)

\* csgdb_bind_*: the index is looked at first, then the state word.  The value
\* is copied by the engine, which may fail.
Bind(t, inRange) ==
    /\ CanUseStatement(t)
    /\ \/ ~inRange /\ StatementResult(t, "RANGE") /\ UNCHANGED bound
       \/ inRange /\ word[t] # "Ready" /\ StatementResult(t, "MISUSE") /\ UNCHANGED bound
       \/ /\ inRange /\ word[t] = "Ready" /\ engine = None
          /\ \/ StatementResult(t, "OK") /\ bound' = [bound EXCEPT ![t] = TRUE]
             \/ /\ \E e \in EngineErrors : StatementResult(t, map_sqlite_code(e))
                /\ UNCHANGED bound
    /\ UNCHANGED <<shared, locks, lastCode, word, raw, view>>

\* csgdb_clear_bindings, a statement_ready_operation.
ClearBindings(t) ==
    /\ CanUseStatement(t)
    /\ \/ word[t] # "Ready" /\ StatementResult(t, "MISUSE") /\ UNCHANGED bound
       \/ /\ word[t] = "Ready" /\ engine = None
          /\ StatementResult(t, "OK") /\ bound' = [bound EXCEPT ![t] = FALSE]
    /\ UNCHANGED <<shared, locks, lastCode, word, raw, view>>

\* bind_parameter_count, column_count, bind_parameter_index and _name,
\* column_name: they succeed whatever the state word says; a null name or an
\* index out of range is recorded.
Metadata(t) ==
    /\ CanUseStatement(t)
    /\ \E code \in {"OK", "INVALID_ARGUMENT", "RANGE"} : StatementResult(t, code)
    /\ UNCHANGED <<shared, locks, lastCode, stmts>>

\* Mutant: a failed statement may be stepped again.
MayStepFailed(t) == word[t] # "Done"

\* csgdb_step refuses a statement that is done or has failed.
MayStep(t) == word[t] \notin {"Done", "Failed"}

StepRefused(t) ==
    /\ CanUseStatement(t) /\ ~MayStep(t)
    /\ StatementResult(t, "MISUSE")
    /\ UNCHANGED <<shared, locks, lastCode, stmts>>

\* The engine call, with the engine's mutex only.  A statement that starts
\* while no other is active clears an old interrupt.
Step(t) ==
    /\ CanUseStatement(t) /\ MayStep(t) /\ engine = None
    /\ engine' = t
    /\ view' = [view EXCEPT ![t] = FALSE]
    /\ raw' = [raw EXCEPT ![t] = "running"]
    /\ interrupted' = (interrupted /\ \E u \in Threads : raw[u] = "row")
    /\ Enter(t, "statement", "running", "OK")
    /\ UNCHANGED <<shared, lock, lastCode, word, bound>>

\* Mutant: the state word is only written when the step succeeds.
StepEndKeepsWord(t) ==
    /\ pc[t] = "running" /\ kind[t] = "statement"
    /\ engine' = None
    /\ \/ /\ \E r \in {<<"row", "Row">>, <<"done", "Done">>} :
                 raw' = [raw EXCEPT ![t] = r[1]] /\ word' = [word EXCEPT ![t] = r[2]]
          /\ StatementResult(t, "OK")
       \/ \E e \in EngineAnswers :
             /\ raw' = [raw EXCEPT ![t] = e] /\ UNCHANGED word
             /\ StatementResult(t, map_sqlite_code(e))
    /\ UNCHANGED <<shared, lock, interrupted, lastCode, bound, view>>

StepEnd(t) ==
    /\ pc[t] = "running" /\ kind[t] = "statement"
    /\ engine' = None
    /\ \/ /\ \E r \in {<<"row", "Row">>, <<"done", "Done">>} :
                 raw' = [raw EXCEPT ![t] = r[1]] /\ word' = [word EXCEPT ![t] = r[2]]
          /\ StatementResult(t, "OK")
       \/ \E e \in EngineAnswers :
             /\ raw' = [raw EXCEPT ![t] = e] /\ word' = [word EXCEPT ![t] = "Failed"]
             /\ StatementResult(t, map_sqlite_code(e))
    /\ UNCHANGED <<shared, lock, interrupted, lastCode, bound, view>>

\* sqlite3_reset and sqlite3_finalize repeat the error of the last step.
LastStepCode(t) ==
    IF raw[t] \in EngineErrors THEN map_sqlite_code(raw[t]) ELSE "OK"

\* csgdb_reset keeps the bindings; csgdb_reset_and_clear_bindings drops them,
\* also when the reset reports an error, and reports that error.
Reset(t, clear) ==
    /\ CanUseStatement(t) /\ engine = None
    /\ raw' = [raw EXCEPT ![t] = "idle"]
    /\ word' = [word EXCEPT ![t] = "Ready"]
    /\ view' = [view EXCEPT ![t] = FALSE]
    /\ bound' = [bound EXCEPT ![t] = @ /\ ~clear]
    /\ StatementResult(t, LastStepCode(t))
    /\ UNCHANGED <<shared, locks, lastCode>>

\* with_row_column and csgdb_column_blob_view: only on a row, then the index.
\* Text and blob columns hand out a pointer into the row.
Column(t, inRange) ==
    /\ CanUseStatement(t)
    /\ \/ word[t] # "Row" /\ StatementResult(t, "MISUSE") /\ UNCHANGED view
       \/ word[t] = "Row" /\ ~inRange /\ StatementResult(t, "RANGE") /\ UNCHANGED view
       \/ /\ word[t] = "Row" /\ inRange /\ engine = None
          /\ StatementResult(t, "OK")
          /\ view' \in {view, [view EXCEPT ![t] = TRUE]}
    /\ UNCHANGED <<shared, locks, lastCode, word, raw, bound>>

-----------------------------------------------------------------------------
(* The end of statements, handle and connection                            *)

\* A clone of the Arc is dropped; the last one closes the connection.
DropOwner(o) ==
    /\ owners' = owners \ {o}
    /\ conn' = IF owners = {o} THEN "closed" ELSE conn

\* csgdb_finalize: the engine's statement goes first, the outcome is recorded,
\* and the box with the Arc is dropped last.
Finalize(t) ==
    /\ CanUseStatement(t) /\ engine = None
    /\ Enter(t, "finalize", "record", LastStepCode(t))
    /\ raw' = [raw EXCEPT ![t] = "none"]
    /\ word' = [word EXCEPT ![t] = "none"]
    /\ bound' = [bound EXCEPT ![t] = FALSE]
    /\ view' = [view EXCEPT ![t] = FALSE]
    /\ UNCHANGED <<shared, locks, lastCode>>

FinalizeDrop(t) ==
    /\ pc[t] = "drop" /\ kind[t] = "finalize"
    /\ DropOwner(t)
    /\ Exit(t)
    /\ UNCHANGED <<handle, openCode, stmts, locks, lastCode>>

\* Mutant: csgdb_close closes the connection at once.
CloseNow(t) ==
    /\ CanCall(t) /\ handle \in {"failed", "live"}
    /\ \A u \in Threads : pc[u] # "idle" => kind[u] # "handle"
    /\ handle' = "closed"
    /\ owners' = owners \ {None}
    /\ conn' = IF handle = "live" THEN "closed" ELSE conn
    /\ UNCHANGED <<openCode, stmts, locks, lastCode, calls>>

\* Mutant: csgdb_close forgets the clone try_unwrap gave back.
CloseDropForgets(t) ==
    /\ pc[t] = "drop" /\ kind[t] = "close"
    /\ Exit(t)
    /\ UNCHANGED <<shared, stmts, locks, lastCode>>

\* csgdb_close: Arc::try_unwrap succeeds only for the last owner; otherwise
\* the clone it gives back is dropped in a later step, and the connection is
\* left to the statements - or closed by that drop, when they were finalized
\* in between.
Close(t) ==
    /\ CanCall(t) /\ handle \in {"failed", "live"}
    /\ \A u \in Threads : pc[u] # "idle" => kind[u] # "handle"
    /\ handle' = "closed"
    /\ IF handle = "failed" \/ owners # {None}
       THEN /\ IF handle = "live" THEN Enter(t, "close", "drop", "OK") ELSE UNCHANGED calls
            /\ UNCHANGED <<owners, conn>>
       ELSE DropOwner(None) /\ UNCHANGED calls
    /\ UNCHANGED <<openCode, stmts, locks, lastCode>>

CloseDrop(t) ==
    /\ pc[t] = "drop" /\ kind[t] = "close"
    /\ DropOwner(None)
    /\ Exit(t)
    /\ UNCHANGED <<handle, openCode, stmts, locks, lastCode>>

-----------------------------------------------------------------------------

Next ==
    \E t \in Threads :
        \/ \E c \in OpenCalls : Open(t, c)
        \/ set_code(t) \/ set_ok(t) \/ set_ok_store(t)
        \/ BadArgument(t) \/ \E op \in HandleOps : HandleCall(t, op)
        \/ Exec(t) \/ ExecEnd(t) \/ Interrupt(t) \/ Prepare(t)
        \/ \E b \in BOOLEAN : Bind(t, b) \/ Reset(t, b) \/ Column(t, b)
        \/ ClearBindings(t) \/ Metadata(t)
        \/ StepRefused(t) \/ Step(t) \/ StepEnd(t)
        \/ Finalize(t) \/ FinalizeDrop(t) \/ Close(t) \/ CloseDrop(t)

Spec == Init /\ [][Next]_vars

-----------------------------------------------------------------------------

\* The connection lives exactly as long as its owners: the handle until
\* csgdb_close has dropped its clone of the Arc, and each statement until
\* csgdb_finalize has.  Whichever comes last closes the connection, nobody
\* closes it earlier or leaks it, and by then the engine has no statement left.
ReleasedWithLastOwner ==
    /\ conn = "open" <=> owners # {}
    /\ None \in owners <=> handle = "live" \/ \E t \in Threads : kind[t] = "close"
    /\ \A t \in Threads : t \in owners <=> raw[t] # "none" \/ kind[t] = "finalize"

\* A column pointer the caller may still use points into the current row of a
\* live statement of an open connection, whatever the other threads do: they
\* may run SQL, finalize their statements or close the handle.
RowViewsValid ==
    \A t \in Threads : view[t] => raw[t] = "row" /\ conn = "open"

\* Between calls the wrapper's state word tells the truth about the engine's
\* statement, after failed and interrupted steps too.
StateWordTrue ==
    \A t \in Threads : pc[t] = "idle" =>
        word[t] = CASE raw[t] = "none" -> "none"
                    [] raw[t] = "idle" -> "Ready"
                    [] raw[t] = "row"  -> "Row"
                    [] raw[t] = "done" -> "Done"
                    [] OTHER           -> "Failed"

\* A statement that is done or has failed is not executed again before a reset
\* (the engine itself would restart it silently).
FinishedNeedsReset ==
    [][\A t \in Threads : raw[t] \in {"done"} \union EngineErrors =>
           raw'[t] \in {raw[t], "idle", "none"}]_raw

=============================================================================
