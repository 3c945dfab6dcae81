--------------------------- MODULE FfiHandlesProofs --------------------------
(***************************************************************************)
(* Proofs about FfiHandles, for any number of threads and any engine       *)
(* errors: who owns the connection, what the state word says, and when a   *)
(* column pointer is valid.                                                *)
(***************************************************************************)
EXTENDS FfiHandles, TLAPS

\* The part of the type invariant the argument needs.
Shape ==
    /\ owners \subseteq Threads \union {None}
    /\ word \in [Threads -> {"none", "Ready", "Row", "Done", "Failed"}]
    /\ raw \in [Threads -> EngineStates \union EngineErrors]
    /\ view \in [Threads -> BOOLEAN]
    /\ pc \in [Threads -> {"idle", "running", "record", "store", "drop"}]
    /\ kind \in [Threads -> {"handle", "statement", "finalize", "close"}]

\* What a thread is doing fits where it is in its call; csgdb_close is under
\* way in at most one thread, and only once the handle is gone.
Busy(t) ==
    /\ pc[t] = "idle" => kind[t] = "handle"
    /\ kind[t] = "close" => pc[t] = "drop" /\ handle = "closed"
    /\ kind[t] = "finalize" => pc[t] \in {"record", "store", "drop"} /\ raw[t] = "none"
    /\ raw[t] = "running" <=> pc[t] = "running" /\ kind[t] = "statement"

OneCloser == \A t, u \in Threads : kind[t] = "close" /\ kind[u] = "close" => t = u

\* The state word and the engine's statement, also while a call records its
\* outcome; only while the engine runs the statement the word may be older.
Truth(t) ==
    /\ raw[t] = "none" <=> word[t] = "none"
    /\ raw[t] = "idle" => word[t] = "Ready"
    /\ raw[t] = "row" => word[t] = "Row"
    /\ raw[t] = "done" => word[t] = "Done"
    /\ raw[t] \in EngineErrors => word[t] = "Failed"
    /\ view[t] => raw[t] = "row"

\* The inductive invariant.
IInv ==
    /\ Shape
    /\ \A t \in Threads : Busy(t) /\ Truth(t)
    /\ OneCloser
    /\ ReleasedWithLastOwner

\* The initial state of the library satisfies the invariant.
LEMMA InitIInv == Init => IInv
BY ThreadsAssumption, ErrorsAssumption
   DEF Init, IInv, Shape, Busy, OneCloser, Truth, ReleasedWithLastOwner, EngineStates

\* Entering, or leaving, a call changes the calling thread's entries only.
LEMMA EnterStep ==
    ASSUME NEW t \in Threads, NEW k, NEW at, NEW code, Shape, Enter(t, k, at, code),
           k \in {"handle", "statement", "finalize", "close"},
           at \in {"idle", "running", "record", "store", "drop"}
    PROVE  /\ pc' \in [Threads -> {"idle", "running", "record", "store", "drop"}]
           /\ kind' \in [Threads -> {"handle", "statement", "finalize", "close"}]
           /\ pc'[t] = at /\ kind'[t] = k
           /\ \A u \in Threads \ {t} : pc'[u] = pc[u] /\ kind'[u] = kind[u]
BY Zenon DEF Enter, Shape

\* Calls that only move their thread on - they record an outcome, refuse an
\* argument, take or release a mutex - keep the invariant.
LEMMA QuietStep ==
    ASSUME NEW t \in Threads, NEW k, NEW at, NEW code, IInv, Enter(t, k, at, code),
           UNCHANGED <<handle, conn, owners, word, raw, view>>,
           at \in {"idle", "running", "record", "store", "drop"},
           at = "idle" => k = "handle",
           at = "running" => k = "handle",
           raw[t] # "running",
           \/ k \in {"handle", "statement"} /\ kind[t] \in {"handle", "statement"}
           \/ k = "finalize" /\ kind[t] = "finalize" /\ at \in {"store", "drop"}
    PROVE  IInv'
<1> USE ErrorsAssumption, ThreadsAssumption DEF IInv
<1>1. Shape' BY EnterStep, Zenon DEF Shape
<1>2. \A u \in Threads : (Busy(u) /\ Truth(u))' BY EnterStep DEF Busy, Truth
<1>3. OneCloser' BY EnterStep DEF OneCloser
<1>4. ReleasedWithLastOwner' BY EnterStep DEF ReleasedWithLastOwner
<1> QED BY <1>1, <1>2, <1>3, <1>4, Zenon

\* A step of the caller outside the library, or one that leaves all of this alone.
LEMMA UnchangedStep ==
    ASSUME IInv, UNCHANGED <<handle, conn, owners, word, raw, view, pc, kind>>
    PROVE  IInv'
BY DEF IInv, Shape, Busy, Truth, OneCloser, ReleasedWithLastOwner

-----------------------------------------------------------------------------

\* Recording an outcome keeps the invariant, also when finalize goes on.
LEMMA RecordSteps ==
    ASSUME NEW t \in Threads, IInv, set_code(t) \/ set_ok(t) \/ set_ok_store(t)
    PROVE  IInv'
<1>1. /\ pc[t] \in {"record", "store"}
      /\ UNCHANGED <<handle, conn, owners, word, raw, view>>
      BY Zenon DEF set_code, set_ok, set_ok_store, shared, stmts
<1>2. raw[t] # "running" /\ kind[t] \in {"handle", "statement", "finalize"}
      BY <1>1, Zenon DEF IInv, Shape, Busy
<1>3. \/ kind[t] = "finalize" /\ Enter(t, "finalize", "drop", "OK")
      \/ kind[t] # "finalize" /\ Enter(t, "handle", "idle", "OK")
      \/ Enter(t, kind[t], "store", "OK")
      BY Zenon DEF set_code, set_ok, set_ok_store, Leave, Exit
<1>4. CASE kind[t] = "finalize" /\ Enter(t, "finalize", "drop", "OK")
      BY <1>1, <1>2, <1>4, QuietStep, Zenon
<1>5. CASE kind[t] # "finalize" /\ Enter(t, "handle", "idle", "OK")
      BY <1>1, <1>2, <1>5, QuietStep, Zenon
<1>6. CASE Enter(t, kind[t], "store", "OK")
      BY <1>1, <1>2, <1>6, QuietStep, Zenon
<1> QED BY <1>3, <1>4, <1>5, <1>6, Zenon

\* Calls that work on no statement, and calls on a statement that leave the
\* statement where it is, keep the invariant.
LEMMA QuietCalls ==
    ASSUME NEW t \in Threads, IInv,
           \/ BadArgument(t) \/ \E op \in HandleOps : HandleCall(t, op)
           \/ Exec(t) \/ ExecEnd(t)
           \/ \E b \in BOOLEAN : Bind(t, b)
           \/ ClearBindings(t) \/ Metadata(t) \/ StepRefused(t)
    PROVE  IInv'
<1>1. /\ pc[t] = "idle" \/ kind[t] = "handle"
      /\ UNCHANGED <<handle, conn, owners, word, raw, view>>
      /\ \E code : \/ Enter(t, "handle", "record", code)
                   \/ Enter(t, "handle", "running", code)
                   \/ Enter(t, "statement", "record", code)
      BY Zenon DEF BadArgument, HandleCall, Exec, ExecEnd, Bind, ClearBindings, Metadata,
             StepRefused, StatementResult, CanUseHandle, CanUseStatement, CanCall,
             shared, stmts
<1>2. raw[t] # "running" /\ kind[t] = "handle"
      BY <1>1, Zenon DEF IInv, Shape, Busy
<1>3. PICK code : \/ Enter(t, "handle", "record", code)
                  \/ Enter(t, "handle", "running", code)
                  \/ Enter(t, "statement", "record", code)
      BY <1>1, Zenon
<1> QED BY <1>1, <1>2, <1>3, QuietStep, Zenon

\* An open function starts from a state without owners, and either leaves it
\* so or makes the handle the first owner.
LEMMA OpenStep ==
    ASSUME NEW t \in Threads, NEW c, IInv, Open(t, c)
    PROVE  IInv'
<1>1. /\ owners = {} /\ \A u \in Threads : pc[u] = "idle"
      /\ handle \in {"none", "closed"}
      /\ UNCHANGED <<word, raw, view, pc, kind>>
      /\ \/ handle' \in {"none", "failed"} /\ UNCHANGED <<conn, owners>>
         \/ handle' = "live" /\ conn' = "open" /\ owners' = {None}
      BY Zenon DEF Open, OpenLive, OpenFailed, stmts, calls
<1>2. \A u \in Threads : kind[u] = "handle" /\ raw[u] = "none"
      BY <1>1, Zenon DEF IInv, Busy, ReleasedWithLastOwner
<1>3. Shape' BY <1>1, Zenon DEF IInv, Shape
<1>4. \A u \in Threads : (Busy(u) /\ Truth(u))' BY <1>1, <1>2, Zenon DEF IInv, Busy, Truth
<1>5. OneCloser' BY <1>1, <1>2, Zenon DEF OneCloser
<1>6. ReleasedWithLastOwner'
      BY <1>1, <1>2, ThreadsAssumption, Zenon DEF IInv, ReleasedWithLastOwner
<1> QED BY <1>3, <1>4, <1>5, <1>6, Zenon DEF IInv

\* A new statement is one more owner of the open connection.
LEMMA PrepareStep ==
    ASSUME NEW t \in Threads, IInv, Prepare(t)
    PROVE  IInv'
<1>1. /\ pc[t] = "idle" /\ handle = "live" /\ word[t] = "none" /\ t \notin owners
      /\ UNCHANGED <<handle, conn, view>>
      BY Zenon DEF Prepare, CanUseHandle, CanCall
<1>2. kind[t] = "handle" /\ raw[t] = "none" /\ ~view[t] /\ conn = "open"
      BY <1>1, Zenon DEF IInv, Busy, Truth, ReleasedWithLastOwner
<1>3. CASE UNCHANGED <<owners, word, raw>>
  <2>1. PICK code : Enter(t, "handle", "record", code) BY Zenon DEF Prepare
  <2> QED BY <1>1, <1>2, <1>3, <2>1, QuietStep, Zenon
<1>4. CASE /\ Enter(t, "handle", "record", "OK")
           /\ owners' = owners \union {t}
           /\ word' = [word EXCEPT ![t] = "Ready"]
           /\ raw' = [raw EXCEPT ![t] = "idle"]
  <2>1. Shape' BY <1>1, <1>4, EnterStep, Zenon DEF IInv, Shape, EngineStates
  <2>2. \A u \in Threads : (Busy(u) /\ Truth(u))'
        BY <1>1, <1>2, <1>4, EnterStep, ErrorsAssumption
           DEF IInv, Shape, Busy, Truth, EngineStates
  <2>3. OneCloser' BY <1>4, EnterStep DEF IInv, OneCloser
  <2>4. ReleasedWithLastOwner'
        BY <1>1, <1>2, <1>4, EnterStep, ThreadsAssumption
           DEF IInv, Shape, ReleasedWithLastOwner
  <2> QED BY <2>1, <2>2, <2>3, <2>4, Zenon DEF IInv
<1> QED BY <1>3, <1>4, Zenon DEF Prepare

-----------------------------------------------------------------------------

\* csgdb_step hands the statement to the engine: from then on the caller has no
\* column pointer, and the state word is the one before.
LEMMA StepStep ==
    ASSUME NEW t \in Threads, IInv, Step(t)
    PROVE  IInv'
<1>1. /\ pc[t] = "idle" /\ word[t] # "none"
      /\ UNCHANGED <<handle, conn, owners, word>>
      /\ raw' = [raw EXCEPT ![t] = "running"] /\ view' = [view EXCEPT ![t] = FALSE]
      /\ Enter(t, "statement", "running", "OK")
      BY Zenon DEF Step, CanUseStatement, CanCall, shared
<1>2. kind[t] = "handle" /\ raw[t] # "none" BY <1>1, Zenon DEF IInv, Busy, Truth
<1>3. Shape' BY <1>1, EnterStep, Zenon DEF IInv, Shape, EngineStates
<1>4. \A u \in Threads : (Busy(u) /\ Truth(u))'
      BY <1>1, <1>2, EnterStep, ErrorsAssumption
         DEF IInv, Shape, Busy, Truth, EngineStates
<1>5. OneCloser' BY <1>1, EnterStep DEF IInv, OneCloser
<1>6. ReleasedWithLastOwner'
      BY <1>1, <1>2, EnterStep DEF IInv, Shape, ReleasedWithLastOwner
<1> QED BY <1>3, <1>4, <1>5, <1>6, Zenon DEF IInv

\* The step ends with a row, with the end of the rows or with an error, and the
\* state word says which.
LEMMA StepEndStep ==
    ASSUME NEW t \in Threads, IInv, StepEnd(t)
    PROVE  IInv'
<1>1. /\ pc[t] = "running" /\ kind[t] = "statement"
      /\ UNCHANGED <<handle, conn, owners, view>>
      BY Zenon DEF StepEnd, shared
<1>2. raw[t] = "running" /\ ~view[t] BY <1>1, Zenon DEF IInv, Busy, Truth
<1>3. \E r, w, code :
          /\ \/ r = "row" /\ w = "Row"
             \/ r = "done" /\ w = "Done"
             \/ r \in EngineErrors /\ w = "Failed"
          /\ raw' = [raw EXCEPT ![t] = r] /\ word' = [word EXCEPT ![t] = w]
          /\ Enter(t, "statement", "record", code)
  <2>1. CASE \E e \in EngineAnswers :
                /\ raw' = [raw EXCEPT ![t] = e] /\ word' = [word EXCEPT ![t] = "Failed"]
                /\ StatementResult(t, map_sqlite_code(e))
        BY <2>1, Zenon DEF EngineAnswers, StatementResult
  <2>2. CASE /\ \E r \in {<<"row", "Row">>, <<"done", "Done">>} :
                    raw' = [raw EXCEPT ![t] = r[1]] /\ word' = [word EXCEPT ![t] = r[2]]
             /\ StatementResult(t, "OK")
    <3>1. PICK p \in {<<"row", "Row">>, <<"done", "Done">>} :
              raw' = [raw EXCEPT ![t] = p[1]] /\ word' = [word EXCEPT ![t] = p[2]]
          BY <2>2, Zenon
    <3>2. \/ p[1] = "row" /\ p[2] = "Row"
          \/ p[1] = "done" /\ p[2] = "Done"
          OBVIOUS
    <3>3. Enter(t, "statement", "record", "OK") BY <2>2, Zenon DEF StatementResult
    <3> QED BY <3>1, <3>2, <3>3, Zenon
  <2> QED BY <2>1, <2>2, Zenon DEF StepEnd
<1>4. PICK r, w, code :
          /\ \/ r = "row" /\ w = "Row"
             \/ r = "done" /\ w = "Done"
             \/ r \in EngineErrors /\ w = "Failed"
          /\ raw' = [raw EXCEPT ![t] = r] /\ word' = [word EXCEPT ![t] = w]
          /\ Enter(t, "statement", "record", code)
      BY <1>3, Zenon
<1>5. Shape' BY <1>1, <1>4, EnterStep, Zenon DEF IInv, Shape, EngineStates
<1>6. \A u \in Threads : (Busy(u) /\ Truth(u))'
      BY <1>1, <1>2, <1>4, EnterStep, ErrorsAssumption
         DEF IInv, Shape, Busy, Truth, EngineStates
<1>7. OneCloser' BY <1>4, EnterStep DEF IInv, OneCloser
<1>8. ReleasedWithLastOwner'
      BY <1>1, <1>2, <1>4, EnterStep, ErrorsAssumption
         DEF IInv, Shape, ReleasedWithLastOwner, EngineStates
<1> QED BY <1>5, <1>6, <1>7, <1>8, Zenon DEF IInv

\* A reset makes the statement idle and the state word Ready, whatever the last
\* step returned.
LEMMA ResetStep ==
    ASSUME NEW t \in Threads, NEW clear, IInv, Reset(t, clear)
    PROVE  IInv'
<1>1. /\ pc[t] = "idle" /\ word[t] # "none"
      /\ UNCHANGED <<handle, conn, owners>>
      /\ raw' = [raw EXCEPT ![t] = "idle"] /\ word' = [word EXCEPT ![t] = "Ready"]
      /\ view' = [view EXCEPT ![t] = FALSE]
      /\ Enter(t, "statement", "record", LastStepCode(t))
      BY Zenon DEF Reset, CanUseStatement, CanCall, StatementResult, shared
<1>2. kind[t] = "handle" /\ raw[t] # "none" BY <1>1, Zenon DEF IInv, Busy, Truth
<1>3. Shape' BY <1>1, EnterStep, Zenon DEF IInv, Shape, EngineStates
<1>4. \A u \in Threads : (Busy(u) /\ Truth(u))'
      BY <1>1, <1>2, EnterStep, ErrorsAssumption
         DEF IInv, Shape, Busy, Truth, EngineStates
<1>5. OneCloser' BY <1>1, EnterStep DEF IInv, OneCloser
<1>6. ReleasedWithLastOwner'
      BY <1>1, <1>2, EnterStep DEF IInv, Shape, ReleasedWithLastOwner
<1> QED BY <1>3, <1>4, <1>5, <1>6, Zenon DEF IInv

\* A column pointer is handed out on a row only.
LEMMA ColumnStep ==
    ASSUME NEW t \in Threads, NEW inRange, IInv, Column(t, inRange)
    PROVE  IInv'
<1>1. /\ pc[t] = "idle"
      /\ UNCHANGED <<handle, conn, owners, word, raw>>
      /\ \E code : Enter(t, "statement", "record", code)
      /\ \/ view' = view
         \/ word[t] = "Row" /\ view' = [view EXCEPT ![t] = TRUE]
      BY Zenon DEF Column, CanUseStatement, CanCall, StatementResult, shared
<1>2. PICK code : Enter(t, "statement", "record", code) BY <1>1, Zenon
<1>3. kind[t] = "handle" /\ raw[t] # "running" BY <1>1, Zenon DEF IInv, Busy
<1>4. CASE view' = view BY <1>1, <1>2, <1>3, <1>4, QuietStep, Zenon
<1>5. CASE word[t] = "Row" /\ view' = [view EXCEPT ![t] = TRUE]
  <2>1. raw[t] = "row"
        BY <1>3, <1>5, Zenon DEF IInv, Shape, Truth, EngineStates
  <2>2. Shape' BY <1>1, <1>2, <1>5, EnterStep, Zenon DEF IInv, Shape
  <2>3. \A u \in Threads : (Busy(u) /\ Truth(u))'
        BY <1>1, <1>2, <1>3, <1>5, <2>1, EnterStep DEF IInv, Shape, Busy, Truth
  <2>4. OneCloser' BY <1>2, EnterStep DEF IInv, OneCloser
  <2>5. ReleasedWithLastOwner'
        BY <1>1, <1>2, <1>3, EnterStep DEF IInv, Shape, ReleasedWithLastOwner
  <2> QED BY <2>2, <2>3, <2>4, <2>5, Zenon DEF IInv
<1> QED BY <1>1, <1>4, <1>5, Zenon

-----------------------------------------------------------------------------

\* csgdb_finalize takes the engine's statement away; the thread stays an owner
\* until the Arc is dropped.
LEMMA FinalizeStep ==
    ASSUME NEW t \in Threads, IInv, Finalize(t)
    PROVE  IInv'
<1>1. /\ pc[t] = "idle" /\ word[t] # "none"
      /\ UNCHANGED <<handle, conn, owners>>
      /\ raw' = [raw EXCEPT ![t] = "none"] /\ word' = [word EXCEPT ![t] = "none"]
      /\ view' = [view EXCEPT ![t] = FALSE]
      /\ Enter(t, "finalize", "record", LastStepCode(t))
      BY Zenon DEF Finalize, CanUseStatement, CanCall, shared
<1>2. kind[t] = "handle" /\ raw[t] # "none" BY <1>1, Zenon DEF IInv, Busy, Truth
<1>3. Shape' BY <1>1, EnterStep, Zenon DEF IInv, Shape, EngineStates
<1>4. \A u \in Threads : (Busy(u) /\ Truth(u))'
      BY <1>1, <1>2, EnterStep, ErrorsAssumption
         DEF IInv, Shape, Busy, Truth, EngineStates
<1>5. OneCloser' BY <1>1, EnterStep DEF IInv, OneCloser
<1>6. ReleasedWithLastOwner'
      BY <1>1, <1>2, EnterStep DEF IInv, Shape, ReleasedWithLastOwner
<1> QED BY <1>3, <1>4, <1>5, <1>6, Zenon DEF IInv

\* The last act of csgdb_finalize: the statement's clone of the Arc goes.
LEMMA FinalizeDropStep ==
    ASSUME NEW t \in Threads, IInv, FinalizeDrop(t)
    PROVE  IInv'
<1>1. /\ pc[t] = "drop" /\ kind[t] = "finalize"
      /\ UNCHANGED <<handle, word, raw, view>>
      /\ owners' = owners \ {t}
      /\ conn' = IF owners = {t} THEN "closed" ELSE conn
      /\ Enter(t, "handle", "idle", "OK")
      BY Zenon DEF FinalizeDrop, DropOwner, Exit, stmts
<1>2. raw[t] = "none" /\ t \in owners BY <1>1, Zenon DEF IInv, Busy, ReleasedWithLastOwner
<1>3. Shape' BY <1>1, EnterStep, Zenon DEF IInv, Shape
<1>4. \A u \in Threads : (Busy(u) /\ Truth(u))'
      BY <1>1, <1>2, EnterStep DEF IInv, Shape, Busy, Truth
<1>5. OneCloser' BY <1>1, EnterStep DEF IInv, OneCloser
<1>6. ReleasedWithLastOwner'
      BY <1>1, <1>2, EnterStep, ThreadsAssumption DEF IInv, Shape, ReleasedWithLastOwner
<1> QED BY <1>3, <1>4, <1>5, <1>6, Zenon DEF IInv

\* csgdb_close: the handle is gone at once; its clone of the Arc goes now when
\* it is the last, and otherwise in a step of its own.
LEMMA CloseStep ==
    ASSUME NEW t \in Threads, IInv, Close(t)
    PROVE  IInv'
<1>1. /\ pc[t] = "idle" /\ handle \in {"failed", "live"} /\ handle' = "closed"
      /\ UNCHANGED <<word, raw, view>>
      BY Zenon DEF Close, CanCall, stmts
<1>2. \A u \in Threads : kind[u] # "close" BY <1>1, Zenon DEF IInv, Busy
<1>3. kind[t] = "handle" /\ raw[t] # "running" BY <1>1, Zenon DEF IInv, Busy
<1>4. CASE handle = "failed" /\ UNCHANGED <<owners, conn, pc, kind>>
      BY <1>1, <1>2, <1>4, ZenonT(30)
         DEF IInv, Shape, Busy, Truth, OneCloser, ReleasedWithLastOwner
<1>5. CASE /\ handle = "live" /\ owners = {None} /\ owners' = owners \ {None}
           /\ conn' = "closed" /\ UNCHANGED <<pc, kind>>
  <2>1. Shape' /\ OneCloser' BY <1>1, <1>5, Zenon DEF IInv, Shape, OneCloser
  <2>2. \A u \in Threads : (Busy(u) /\ Truth(u))'
        BY <1>1, <1>2, <1>5, Zenon DEF IInv, Busy, Truth
  <2>3. ReleasedWithLastOwner'
        BY <1>1, <1>2, <1>5, ThreadsAssumption, Zenon DEF IInv, ReleasedWithLastOwner
  <2> QED BY <2>1, <2>2, <2>3, Zenon DEF IInv
<1>6. CASE /\ handle = "live" /\ UNCHANGED <<owners, conn>>
           /\ Enter(t, "close", "drop", "OK")
  <2>1. Shape' BY <1>1, <1>6, EnterStep, Zenon DEF IInv, Shape
  <2>2. \A u \in Threads : (Busy(u) /\ Truth(u))'
        BY <1>1, <1>2, <1>3, <1>6, EnterStep DEF IInv, Shape, Busy, Truth
  <2>3. OneCloser' BY <1>2, <1>6, EnterStep, Zenon DEF IInv, OneCloser
  <2>4. ReleasedWithLastOwner'
        BY <1>1, <1>2, <1>3, <1>6, EnterStep DEF IInv, Shape, ReleasedWithLastOwner
  <2> QED BY <2>1, <2>2, <2>3, <2>4, Zenon DEF IInv
<1> QED BY <1>1, <1>4, <1>5, <1>6, Zenon DEF Close, DropOwner, calls

\* The rest of csgdb_close: whoever comes last closes the connection.
LEMMA CloseDropStep ==
    ASSUME NEW t \in Threads, IInv, CloseDrop(t)
    PROVE  IInv'
<1>1. /\ pc[t] = "drop" /\ kind[t] = "close"
      /\ UNCHANGED <<handle, word, raw, view>>
      /\ owners' = owners \ {None}
      /\ conn' = IF owners = {None} THEN "closed" ELSE conn
      /\ Enter(t, "handle", "idle", "OK")
      BY Zenon DEF CloseDrop, DropOwner, Exit, stmts
<1>2. /\ raw[t] # "running" /\ handle = "closed" /\ None \in owners
      /\ \A u \in Threads \ {t} : kind[u] # "close"
      BY <1>1, Zenon DEF IInv, Busy, OneCloser, ReleasedWithLastOwner
<1>3. Shape' BY <1>1, EnterStep, Zenon DEF IInv, Shape
<1>4. \A u \in Threads : (Busy(u) /\ Truth(u))'
      BY <1>1, <1>2, EnterStep DEF IInv, Shape, Busy, Truth
<1>5. OneCloser'
  <2>1. \A u \in Threads : kind'[u] # "close" BY <1>1, <1>2, EnterStep, ZenonT(30) DEF IInv
  <2> QED BY <2>1, Zenon DEF OneCloser
<1>6. ReleasedWithLastOwner'
      BY <1>1, <1>2, EnterStep, ThreadsAssumption DEF IInv, Shape, ReleasedWithLastOwner
<1> QED BY <1>3, <1>4, <1>5, <1>6, Zenon DEF IInv

-----------------------------------------------------------------------------

\* Every call of every thread keeps the invariant.
LEMMA Inductive == IInv /\ [Next]_vars => IInv'
<1> SUFFICES ASSUME IInv, [Next]_vars PROVE IInv'
    BY Zenon
<1>1. CASE UNCHANGED vars BY <1>1, UnchangedStep, Zenon DEF vars
<1>2. ASSUME NEW t \in Threads, Interrupt(t) PROVE IInv'
      BY <1>2, UnchangedStep, Zenon DEF Interrupt, shared, stmts, calls
<1>3. ASSUME NEW t \in Threads, NEW b \in BOOLEAN, Bind(t, b) PROVE IInv'
      BY <1>3, QuietCalls, Zenon
<1>4. ASSUME NEW t \in Threads, NEW op \in HandleOps, HandleCall(t, op) PROVE IInv'
      BY <1>4, QuietCalls, Zenon
<1>5. CASE Next
      BY <1>2, <1>3, <1>4, <1>5, OpenStep, RecordSteps, QuietCalls, PrepareStep,
         StepStep, StepEndStep, ResetStep, ColumnStep, FinalizeStep, FinalizeDropStep,
         CloseStep, CloseDropStep, Zenon
         DEF Next
<1> QED BY <1>1, <1>5, Zenon

\* The invariant holds in every state the library reaches.
LEMMA Invariant == Spec => []IInv
BY InitIInv, Inductive, PTL DEF Spec

\* The Arc does its work for any number of threads: the connection is open
\* exactly while the handle or a statement owns it, and each of csgdb_close and
\* csgdb_finalize gives up exactly one clone, in any order.
THEOREM ConnectionOutlivesStatements == Spec => []ReleasedWithLastOwner
<1>1. IInv => ReleasedWithLastOwner BY Zenon DEF IInv
<1> QED BY <1>1, Invariant, PTL

\* A column pointer the caller may use points into the current row of an open
\* connection, whatever the other threads call, csgdb_close included.
THEOREM ColumnPointers == Spec => []RowViewsValid
<1>1. IInv => RowViewsValid
      BY Zenon DEF IInv, Shape, Truth, ReleasedWithLastOwner, RowViewsValid
<1> QED BY <1>1, Invariant, PTL

\* Between calls the wrapper's state word agrees with the engine's statement,
\* for any set of errors the engine may return.
THEOREM StateWord == Spec => []StateWordTrue
<1>1. IInv => StateWordTrue
  <2> SUFFICES ASSUME IInv, NEW t \in Threads, pc[t] = "idle"
               PROVE  word[t] = CASE raw[t] = "none" -> "none"
                                  [] raw[t] = "idle" -> "Ready"
                                  [] raw[t] = "row"  -> "Row"
                                  [] raw[t] = "done" -> "Done"
                                  [] OTHER           -> "Failed"
      BY Zenon DEF StateWordTrue
  <2>1. /\ raw[t] \in {"none", "idle", "row", "done"} \union EngineErrors
        /\ Truth(t)
        BY Zenon DEF IInv, Shape, Busy, EngineStates
  <2> QED BY <2>1, ErrorsAssumption, Zenon DEF Truth, EngineStates
<1> QED BY <1>1, Invariant, PTL

\* A statement that is done or has failed is reset or finalized before the
\* engine executes it again: csgdb_step looks at the state word, and the word
\* is true.
THEOREM NoSilentRestart == Spec => FinishedNeedsReset
<1> DEFINE Finished(t) == raw[t] \in {"done"} \union EngineErrors
           Kept(t) == raw'[t] \in {raw[t], "idle", "none"}
<1>1. ASSUME IInv, [Next]_vars, NEW t \in Threads, Finished(t) PROVE Kept(t)
  <2>1. word[t] \in {"Done", "Failed"} /\ raw[t] # "running" /\ raw[t] # "none"
        BY <1>1, ErrorsAssumption, Zenon DEF IInv, Truth, EngineStates
  <2>2. \A u \in Threads : Step(u) => u # t
        BY <2>1, Zenon DEF Step, MayStep
  <2>3. \A u \in Threads : StepEnd(u) => u # t
        BY <1>1, <2>1, Zenon DEF IInv, Busy, StepEnd
  <2>4. ASSUME NEW u \in Threads, Step(u) \/ StepEnd(u) PROVE Kept(t)
        BY <1>1, <2>2, <2>3, <2>4, Zenon DEF Step, StepEnd, IInv, Shape
  <2>5. ASSUME NEW u \in Threads,
               Prepare(u) \/ Finalize(u) \/ \E b \in BOOLEAN : Reset(u, b)
        PROVE  Kept(t)
        BY <1>1, <2>5, ZenonT(30) DEF Prepare, Finalize, Reset, IInv, Shape
  <2>6. CASE UNCHANGED raw BY <2>6, Zenon
  <2>7. CASE Next
        BY <2>4, <2>5, <2>6, <2>7, ZenonT(30)
           DEF Next, Open, OpenLive, OpenFailed, set_code, set_ok, set_ok_store,
               BadArgument, HandleCall, Exec, ExecEnd, Interrupt, Bind, Column,
               ClearBindings, Metadata, StepRefused, FinalizeDrop, Close, CloseDrop,
               stmts
  <2> QED BY <1>1, <2>6, <2>7, Zenon DEF vars
<1>2. IInv /\ [Next]_vars => [\A t \in Threads : Finished(t) => Kept(t)]_raw
      BY <1>1, Zenon
<1> QED BY <1>2, Invariant, PTL DEF Spec, FinishedNeedsReset

=============================================================================
