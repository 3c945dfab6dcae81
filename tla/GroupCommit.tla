---------------------------- MODULE GroupCommit -----------------------------
(***************************************************************************)
(* What the writer thread of DatabasePool does to the database with one    *)
(* batch (crates/csgdb/src/pool.rs): execute_group_commit runs a group of  *)
(* logical jobs in one transaction with a savepoint per job, writer_main   *)
(* runs an exclusive job as a callback that owns the connection.  Every    *)
(* SQL statement sent to the engine is one action, any of them may fail,   *)
(* and the process may crash between any two of them.                      *)
(*                                                                         *)
(* The engine is external: statements have effects, a transaction holds    *)
(* back its effects until COMMIT, a failed statement leaves none, and an   *)
(* I/O error, a full disk, an interrupt or ON CONFLICT ROLLBACK may roll   *)
(* back the whole transaction under the statement that fails.              *)
(***************************************************************************)
EXTENDS Naturals, Sequences, FiniteSets

CONSTANTS GroupJobs,      \* jobs of execute and execute_transaction
          ExclusiveJobs,  \* jobs of write, try_write and write_with_policy
          Size,           \* number of statements of each job
          MaxJobs         \* GroupCommitOptions::max_jobs

Jobs == GroupJobs \union ExclusiveJobs

ASSUME JobsAssumption == GroupJobs \intersect ExclusiveJobs = {}
ASSUME SizeAssumption == Size \in [Jobs -> Nat \ {0}]
ASSUME MaxJobsAssumption == MaxJobs \in Nat \ {0}

EffectsOf(j) == {<<j, i>> : i \in 1 .. Size[j]}
Effects == UNION {EffectsOf(j) : j \in Jobs}

VARIABLES
    disk,     \* effects that are committed
    conn,     \* the writer connection: transaction, its effects, savepoint
    phase,    \* what the writer does next
    group,    \* the jobs of the batch that are not answered yet
    results,  \* their results so far, in the same order
    step,     \* the next statement of the current job
    guard,    \* does the callback hold a Transaction that rolls back on drop?
    blamed,   \* jobs one of whose own statements failed
    answer    \* what each submitter was told

vars == <<disk, conn, phase, group, results, step, guard, blamed, answer>>

NoTx == [tx |-> FALSE, pending |-> {}, sp |-> FALSE, mark |-> {}]

Phases == {"idle", "begin", "savepoint", "statement", "undo", "release",
           "commit", "callback", "respond"}

TypeOK ==
    /\ disk \subseteq Effects
    /\ conn \in [tx : BOOLEAN, pending : SUBSET Effects, sp : BOOLEAN,
                 mark : SUBSET Effects]
    /\ phase \in Phases
    /\ group \in Seq(Jobs)
    /\ results \in Seq({"ok", "err"})
    /\ step \in Nat
    /\ guard \in BOOLEAN
    /\ blamed \subseteq Jobs
    /\ answer \in [Jobs -> {"none", "ok", "err", "lost"}]

Init ==
    /\ disk = {} /\ conn = NoTx /\ phase = "idle"
    /\ group = <<>> /\ results = <<>> /\ step = 1 /\ guard = FALSE
    /\ blamed = {} /\ answer = [j \in Jobs |-> "none"]

-----------------------------------------------------------------------------
(* The engine.                                                             *)

\* A statement takes effect inside the open transaction, or at once.
Apply(e) ==
    IF conn.tx
    THEN conn' = [conn EXCEPT !.pending = @ \union {e}] /\ UNCHANGED disk
    ELSE disk' = disk \union {e} /\ UNCHANGED conn

CommitTx == disk' = disk \union conn.pending /\ conn' = NoTx

\* A failed statement has no effect, and may take the transaction with it.
FailedSql == conn' \in {conn, NoTx} /\ UNCHANGED disk

-----------------------------------------------------------------------------
(* execute_group_commit and execute_group_job.                             *)

AllErr(s) == [i \in DOMAIN s |-> "err"]
Current == group[Len(results) + 1]

TakeGroup ==
    /\ phase = "idle"
    /\ \E n \in 1 .. MaxJobs : \E g \in [1 .. n -> GroupJobs] :
          /\ \A i, j \in 1 .. n : g[i] = g[j] => i = j
          /\ \A i \in 1 .. n : answer[g[i]] = "none"
          /\ group' = g
    /\ phase' = "begin"
    /\ UNCHANGED <<disk, conn, results, step, guard, blamed, answer>>

\* Mutant: jobs that had succeeded keep their result.
FatalKeepsResults ==
    /\ conn' = NoTx
    /\ results' = [i \in DOMAIN group |-> IF i \in DOMAIN results
                                          THEN results[i] ELSE "err"]
    /\ phase' = "respond"
    /\ UNCHANGED <<disk, group, step, guard, blamed, answer>>

\* Every job of the group is refused; dropping the Transaction rolls back
\* whatever is left of it.
Fatal ==
    /\ conn' = NoTx
    /\ results' = AllErr(group)
    /\ phase' = "respond"
    /\ UNCHANGED <<disk, group, step, guard, blamed, answer>>

\* Mutant: the group runs without a transaction of its own.
BeginLost ==
    /\ phase = "begin" /\ ~conn.tx
    /\ phase' = "savepoint"
    /\ UNCHANGED <<disk, conn, group, results, step, guard, blamed, answer>>

\* BEGIN is refused inside a transaction that a callback has left open.
BeginOk ==
    /\ phase = "begin" /\ ~conn.tx
    /\ conn' = [conn EXCEPT !.tx = TRUE]
    /\ phase' = "savepoint"
    /\ UNCHANGED <<disk, group, results, step, guard, blamed, answer>>

BeginFails ==
    /\ phase = "begin"
    /\ results' = AllErr(group)
    /\ phase' = "respond"
    /\ UNCHANGED <<disk, conn, group, step, guard, blamed, answer>>

SavepointOk ==
    /\ phase = "savepoint"
    /\ conn' = [conn EXCEPT !.sp = TRUE, !.mark = conn.pending]
    /\ step' = 1
    /\ phase' = "statement"
    /\ UNCHANGED <<disk, group, results, guard, blamed, answer>>

SavepointFails == phase = "savepoint" /\ Fatal

NextStatement ==
    /\ step' = step + 1
    /\ phase' = IF step = Size[Current] THEN "release" ELSE "statement"
    /\ UNCHANGED <<group, results, guard, blamed, answer>>

StatementOk ==
    /\ phase = "statement"
    /\ Apply(<<Current, step>>)
    /\ NextStatement

\* The text of a groupable statement is the caller's and is not inspected: it
\* may be COMMIT.  Only SpecAnySql has this step.
StatementIsCommit ==
    /\ phase = "statement" /\ conn.tx
    /\ CommitTx
    /\ NextStatement

StatementFails ==
    /\ phase = "statement"
    /\ FailedSql
    /\ phase' = "undo"
    /\ blamed' = blamed \union {Current}
    /\ UNCHANGED <<group, results, step, guard, answer>>

FinishJob(result) ==
    /\ results' = Append(results, result)
    /\ phase' = IF Len(results) + 1 = Len(group) THEN "commit" ELSE "savepoint"
    /\ UNCHANGED <<disk, group, step, guard, blamed, answer>>

\* Mutant: the whole transaction is rolled back, and a new one goes on.
UndoRollsBackAll ==
    /\ phase = "undo" /\ conn.sp
    /\ conn' = [NoTx EXCEPT !.tx = TRUE]
    /\ FinishJob("err")

\* ROLLBACK TO and RELEASE find no savepoint once the transaction is gone.
UndoOk ==
    /\ phase = "undo" /\ conn.sp
    /\ conn' = [conn EXCEPT !.pending = conn.mark, !.sp = FALSE, !.mark = {}]
    /\ FinishJob("err")

UndoFails == phase = "undo" /\ Fatal

ReleaseOk ==
    /\ phase = "release" /\ conn.sp
    /\ conn' = [conn EXCEPT !.sp = FALSE, !.mark = {}]
    /\ FinishJob("ok")

ReleaseFails == phase = "release" /\ Fatal

CommitOk ==
    /\ phase = "commit" /\ conn.tx
    /\ CommitTx
    /\ phase' = "respond"
    /\ UNCHANGED <<group, results, step, guard, blamed, answer>>

\* Mutant: the responses ignore a failed COMMIT.
CommitFailsUnheard ==
    /\ phase = "commit"
    /\ conn' = NoTx
    /\ phase' = "respond"
    /\ UNCHANGED <<disk, group, results, step, guard, blamed, answer>>

\* The jobs that had succeeded get the error of the commit.
CommitFails ==
    /\ phase = "commit"
    /\ conn' = NoTx
    /\ results' = AllErr(group)
    /\ phase' = "respond"
    /\ UNCHANGED <<disk, group, step, guard, blamed, answer>>

-----------------------------------------------------------------------------
(* Exclusive jobs: a callback with the connection.                         *)

TakeExclusive ==
    /\ phase = "idle"
    /\ \E j \in ExclusiveJobs : answer[j] = "none" /\ group' = <<j>>
    /\ phase' = "callback"
    /\ step' = 1
    /\ guard' = FALSE
    /\ UNCHANGED <<disk, conn, results, blamed, answer>>

InCallback == phase = "callback" /\ UNCHANGED <<phase, group, results, blamed, answer>>

CallbackStatement ==
    /\ InCallback
    /\ step =< Size[Current]
    /\ Apply(<<Current, step>>) \/ FailedSql
    /\ step' = step + 1
    /\ UNCHANGED guard

\* Database::transaction, or a BEGIN in SQL text that nothing rolls back.
CallbackBegin ==
    /\ InCallback
    /\ ~conn.tx
    /\ conn' = [conn EXCEPT !.tx = TRUE]
    /\ guard' \in BOOLEAN
    /\ UNCHANGED <<disk, step>>

CallbackCommit ==
    /\ InCallback
    /\ conn.tx
    /\ CommitTx
    /\ guard' = FALSE
    /\ UNCHANGED step

\* The callback returns Ok or Err, or panics and the panic becomes an Err.
CallbackReturn ==
    /\ phase = "callback"
    /\ conn' = IF guard THEN NoTx ELSE conn
    /\ \E r \in {"ok", "err"} : results' = <<r>>
    /\ guard' = FALSE
    /\ phase' = "respond"
    /\ UNCHANGED <<disk, group, step, blamed, answer>>

-----------------------------------------------------------------------------

\* GroupCommitCompletion::finish: one response at a time, in job order.
Respond ==
    /\ phase = "respond"
    /\ answer' = [answer EXCEPT ![Head(group)] = Head(results)]
    /\ group' = Tail(group)
    /\ results' = Tail(results)
    /\ phase' = IF Len(group) = 1 THEN "idle" ELSE "respond"
    /\ UNCHANGED <<disk, conn, step, guard, blamed>>

\* The process dies with its callers and is started again.
Crash ==
    /\ answer' = [j \in Jobs |-> IF \E i \in DOMAIN group : group[i] = j
                                 THEN "lost" ELSE answer[j]]
    /\ conn' = NoTx /\ phase' = "idle" /\ group' = <<>> /\ results' = <<>>
    /\ step' = 1 /\ guard' = FALSE
    /\ UNCHANGED <<disk, blamed>>

Group == \/ TakeGroup \/ BeginOk \/ BeginFails
         \/ SavepointOk \/ SavepointFails
         \/ StatementOk \/ StatementFails
         \/ UndoOk \/ UndoFails \/ ReleaseOk \/ ReleaseFails
         \/ CommitOk \/ CommitFails
Exclusive == \/ TakeExclusive \/ CallbackStatement \/ CallbackBegin
             \/ CallbackCommit \/ CallbackReturn

Next == Group \/ Exclusive \/ Respond \/ Crash

Spec == Init /\ [][Next]_vars
SpecAnySql == Init /\ [][Next \/ StatementIsCommit]_vars

-----------------------------------------------------------------------------
(* Properties.                                                             *)

\* A caller of execute or execute_transaction that was told Ok finds every
\* effect of its job committed: responses are sent after COMMIT, and a failed
\* COMMIT turns earlier successes into errors (execute_group_commit).
AcknowledgedIsDurable ==
    \A j \in GroupJobs : answer[j] = "ok" => EffectsOf(j) \subseteq disk

\* "Any preparation, binding, execution, or commit error rolls back the entire
\* batch" (execute_transaction): a caller that was told Err finds no effect of
\* its job, neither its own partial work nor work committed for a neighbour.
RefusedLeavesNothing ==
    \A j \in GroupJobs : answer[j] = "err" => EffectsOf(j) \intersect disk = {}

\* At every step, so also after a crash at any step, the committed effects of
\* a groupable job are all of its effects or none.
AllOrNothing ==
    \A j \in GroupJobs : EffectsOf(j) \subseteq disk
                         \/ EffectsOf(j) \intersect disk = {}

\* Failure domains stay apart: when a group has been committed, a job of it is
\* refused only because one of its own statements failed, and a job that
\* failed is never reported as a success.
FailuresIsolated ==
    phase = "respond" /\ Head(group) \in GroupJobs =>
        \A i \in DOMAIN results :
            /\ results[i] = "ok" => group[i] \notin blamed
            /\ results[i] = "err" /\ (\E k \in DOMAIN results : results[k] = "ok")
                  => group[i] \in blamed

\* Group commit implements the promise made for each job on its own.
Promise == INSTANCE AtomicJobs WITH
    Jobs <- GroupJobs,
    durable <- {j \in GroupJobs : EffectsOf(j) \intersect disk # {}},
    answer <- [j \in GroupJobs |-> answer[j]]
KeepsPromise == Promise!Spec

=============================================================================
