-------------------------- MODULE GroupCommitProofs --------------------------
(***************************************************************************)
(* Proofs about GroupCommit, for any jobs, job sizes and group size: what  *)
(* callers are told agrees with what is committed, also when statements    *)
(* fail, the engine rolls back by itself or the process crashes.           *)
(***************************************************************************)
EXTENDS GroupCommit, TLAPS

Whole(j, P) == EffectsOf(j) \subseteq P
Absent(j, P) == EffectsOf(j) \intersect P = {}

InGroup == {"begin", "savepoint", "statement", "undo", "release", "commit"}

\* Where the batch is: how many results there are in each phase, that the jobs
\* of the batch are distinct and unanswered, and of one kind.
Batch ==
    /\ phase = "idle" => group = <<>>
    /\ phase \in {"idle", "begin", "callback"} => results = <<>>
    /\ phase \in {"savepoint", "statement", "undo", "release"} => Len(results) < Len(group)
    /\ phase \in {"commit", "respond"} => Len(results) = Len(group)
    /\ phase # "idle" => Len(group) > 0
    /\ phase = "callback" => Len(group) = 1 /\ group[1] \in ExclusiveJobs
    /\ phase \in InGroup => \A i \in 1 .. Len(group) : group[i] \in GroupJobs
    /\ \A i \in 1 .. Len(group) : group[i] \in GroupJobs \/ Len(group) = 1
    /\ \A i \in 1 .. Len(group) : answer[group[i]] = "none"
    /\ \A i, k \in 1 .. Len(group) : group[i] = group[k] => i = k
    /\ step # 0

\* What is committed: for an answered job what the answer says, for one that
\* waits nothing, unless its answer is about to be sent - and then that is true.
OnDisk(j) ==
    /\ Whole(j, disk) \/ Absent(j, disk)
    /\ answer[j] = "ok" => Whole(j, disk)
    /\ answer[j] = "err" => Absent(j, disk)
    /\ answer[j] = "none" /\ (phase = "respond" => \A i \in 1 .. Len(group) : group[i] # j)
          => Absent(j, disk)

Reports ==
    phase = "respond" => \A i \in 1 .. Len(group) : group[i] \in GroupJobs =>
        /\ results[i] = "ok" => Whole(group[i], disk)
        /\ results[i] = "err" => Absent(group[i], disk)

\* The jobs of the running group that have succeeded so far, and the effects a
\* transaction holds back when it holds theirs only.
Succeeded == {j \in GroupJobs : \E i \in 1 .. Len(results) : results[i] = "ok" /\ group[i] = j}
Settled(P) ==
    \A j \in GroupJobs : IF j \in Succeeded THEN Whole(j, P) ELSE Absent(j, P)

\* What the writer's transaction holds back in each phase.
Held ==
    /\ phase \in {"idle", "begin", "callback", "respond"} =>
          \A j \in GroupJobs : Absent(j, conn.pending)
    /\ phase \in {"savepoint", "commit"} => conn.tx /\ Settled(conn.pending)
    /\ phase = "statement" =>
          /\ conn.tx /\ Settled(conn.mark) /\ step =< Size[Current]
          /\ conn.pending = conn.mark \union {<<Current, i>> : i \in 1 .. step - 1}
    /\ phase = "release" =>
          /\ conn.tx /\ Settled(conn.mark)
          /\ conn.pending = conn.mark \union EffectsOf(Current)
    /\ phase = "undo" => (conn.sp => conn.tx /\ Settled(conn.mark))

\* The inductive invariant.
IInv ==
    /\ TypeOK
    /\ Batch
    /\ \A j \in GroupJobs : OnDisk(j)
    /\ Reports
    /\ Held

Conn == [tx : BOOLEAN, pending : SUBSET Effects, sp : BOOLEAN, mark : SUBSET Effects]

-----------------------------------------------------------------------------
(* Effects and the engine's connection.                                    *)

\* Effects carry the name of their job, and every job has one.
LEMMA OwnEffects ==
    ASSUME NEW j \in Jobs
    PROVE  /\ <<j, 1>> \in EffectsOf(j)
           /\ EffectsOf(j) \subseteq Effects
           /\ \A k \in Jobs, i \in Nat : <<k, i>> \in EffectsOf(j) => k = j
           /\ \A k \in Jobs : k # j => EffectsOf(j) \intersect EffectsOf(k) = {}
           /\ \A P : ~(Whole(j, P) /\ Absent(j, P))
<1>1. Size[j] \in Nat /\ 1 \in 1 .. Size[j] BY SizeAssumption
<1>2. <<j, 1>> \in EffectsOf(j) BY <1>1, Zenon DEF EffectsOf
<1>3. EffectsOf(j) \subseteq Effects BY Zenon DEF Effects
<1>4. \A k \in Jobs, i \in Nat : <<k, i>> \in EffectsOf(j) => k = j BY Zenon DEF EffectsOf
<1>5. \A k \in Jobs : k # j => EffectsOf(j) \intersect EffectsOf(k) = {} BY DEF EffectsOf
<1>6. \A P : ~(Whole(j, P) /\ Absent(j, P)) BY <1>2, Zenon DEF Whole, Absent
<1> QED BY <1>2, <1>3, <1>4, <1>5, <1>6, Zenon

\* An effect of one job is in the way of no other.
LEMMA OtherEffect ==
    ASSUME NEW j \in Jobs, NEW k \in Jobs, j # k, NEW i \in Nat, NEW P, Absent(j, P)
    PROVE  Absent(j, P \union {<<k, i>>})
<1>1. <<k, i>> \notin EffectsOf(j) BY OwnEffects, Zenon
<1> QED BY <1>1, Zenon DEF Absent

\* The engine's answers to BEGIN, SAVEPOINT, RELEASE, ROLLBACK TO and to a
\* statement, as records.
LEMMA Records ==
    ASSUME conn \in Conn, NEW P \in SUBSET Effects
    PROVE  /\ LET c == [conn EXCEPT !.pending = P]
              IN  c \in Conn /\ c.tx = conn.tx /\ c.sp = conn.sp /\ c.pending = P
                  /\ c.mark = conn.mark
           /\ LET c == [conn EXCEPT !.tx = TRUE]
              IN  c \in Conn /\ c.tx /\ c.pending = conn.pending
           /\ LET c == [conn EXCEPT !.sp = TRUE, !.mark = P]
              IN  c \in Conn /\ c.tx = conn.tx /\ c.pending = conn.pending /\ c.mark = P
           /\ LET c == [conn EXCEPT !.sp = FALSE, !.mark = {}]
              IN  c \in Conn /\ c.tx = conn.tx /\ c.pending = conn.pending
           /\ LET c == [conn EXCEPT !.pending = P, !.sp = FALSE, !.mark = {}]
              IN  c \in Conn /\ c.tx = conn.tx /\ c.pending = P
           /\ NoTx \in Conn /\ NoTx.pending = {} /\ ~NoTx.sp /\ ~NoTx.tx
BY Zenon DEF Conn, NoTx

-----------------------------------------------------------------------------
(* The steps of a group before its answers.                                *)

\* While neither disk nor answers change, what is committed stays accounted for.
LEMMA DiskFrame ==
    ASSUME IInv, UNCHANGED <<disk, answer>>, phase # "respond", phase' # "respond"
    PROVE  (\A j \in GroupJobs : OnDisk(j))' /\ Reports'
BY Zenon DEF IInv, OnDisk, Whole, Absent, Reports, EffectsOf

\* The job whose turn it is, when there is one.
LEMMA CurrentJob ==
    ASSUME IInv, phase \in {"savepoint", "statement", "undo", "release"}
    PROVE  /\ Len(results) + 1 \in 1 .. Len(group)
           /\ Current \in GroupJobs /\ Current \in Jobs
           /\ Current \notin Succeeded
           /\ Size[Current] \in Nat \ {0}
<1>1. Len(results) \in Nat /\ Len(group) \in Nat BY DEF IInv, TypeOK
<1>2. Len(results) + 1 \in 1 .. Len(group) BY <1>1 DEF IInv, Batch
<1>3. Current \in GroupJobs BY <1>2, Zenon DEF IInv, Batch, InGroup, Current
<1>4. \A i \in 1 .. Len(results) : group[i] # Current
      BY <1>1, <1>2 DEF IInv, Batch, Current
<1> QED BY <1>2, <1>3, <1>4, SizeAssumption, Zenon DEF Jobs, Succeeded

\* A batch of distinct unanswered jobs is taken from the queue.
LEMMA TakeGroupStep == ASSUME IInv, TakeGroup PROVE IInv'
<1>0. PICK n \in 1 .. MaxJobs : \E g \in [1 .. n -> GroupJobs] :
          /\ \A i, j \in 1 .. n : g[i] = g[j] => i = j
          /\ \A i \in 1 .. n : answer[g[i]] = "none"
          /\ group' = g
      BY Zenon DEF TakeGroup
<1>1. PICK g \in [1 .. n -> GroupJobs] :
          /\ \A i, j \in 1 .. n : g[i] = g[j] => i = j
          /\ \A i \in 1 .. n : answer[g[i]] = "none"
          /\ group' = g
      BY <1>0, Zenon
<1>2. /\ phase = "idle" /\ phase' = "begin"
      /\ UNCHANGED <<disk, conn, results, step, guard, blamed, answer>>
      BY Zenon DEF TakeGroup
<1>3. n \in Nat /\ n > 0 BY MaxJobsAssumption
<1>4. group' \in Seq(Jobs) /\ Len(group') = n BY <1>1, <1>3 DEF Jobs
<1>5. TypeOK' BY <1>2, <1>4, Zenon DEF IInv, TypeOK, Phases
<1>6. Batch' BY <1>1, <1>2, <1>3, <1>4, ZenonT(30) DEF IInv, Batch, InGroup
<1>7. Held' BY <1>2, Zenon DEF IInv, Held, Absent, EffectsOf
<1> QED BY <1>2, <1>5, <1>6, <1>7, DiskFrame, Zenon DEF IInv

\* BEGIN opens a transaction that holds nothing of a groupable job yet.
LEMMA BeginOkStep == ASSUME IInv, BeginOk PROVE IInv'
<1>1. /\ phase = "begin" /\ phase' = "savepoint" /\ conn' = [conn EXCEPT !.tx = TRUE]
      /\ UNCHANGED <<disk, group, results, step, guard, blamed, answer>>
      BY Zenon DEF BeginOk
<1>2. conn \in Conn BY Zenon DEF IInv, TypeOK, Conn
<1>3. conn' \in Conn /\ conn'.tx /\ conn'.pending = conn.pending BY <1>1, <1>2, Records, Zenon
<1>4. TypeOK' BY <1>1, <1>3, Zenon DEF IInv, TypeOK, Phases, Conn
<1>5. Batch' BY <1>1 DEF IInv, Batch, InGroup, TypeOK
<1>6. Succeeded' = {} BY <1>1 DEF IInv, Batch, Succeeded
<1>7. Held'
  <2>1. Settled(conn.pending)'
        BY <1>1, <1>3, <1>6, Zenon DEF IInv, Held, Settled, Absent, EffectsOf
  <2> QED BY <1>1, <1>3, <2>1, Zenon DEF Held
<1> QED BY <1>1, <1>4, <1>5, <1>7, DiskFrame, Zenon DEF IInv

\* SAVEPOINT remembers what the transaction holds.
LEMMA SavepointOkStep == ASSUME IInv, SavepointOk PROVE IInv'
<1>1. /\ phase = "savepoint" /\ phase' = "statement" /\ step' = 1
      /\ conn' = [conn EXCEPT !.sp = TRUE, !.mark = conn.pending]
      /\ UNCHANGED <<disk, group, results, guard, blamed, answer>>
      BY Zenon DEF SavepointOk
<1>2. conn \in Conn /\ conn.pending \in SUBSET Effects BY Zenon DEF IInv, TypeOK, Conn
<1>3. /\ conn' \in Conn /\ conn'.tx = conn.tx /\ conn'.pending = conn.pending
      /\ conn'.mark = conn.pending
      BY <1>1, <1>2, Records, Zenon
<1>4. TypeOK' BY <1>1, <1>3, Zenon DEF IInv, TypeOK, Phases, Conn
<1>5. Batch' BY <1>1 DEF IInv, Batch, InGroup
<1>6. Held'
  <2>1. Settled(conn.mark)'
        BY <1>1, <1>3, Zenon DEF IInv, Held, Settled, Succeeded, Absent, Whole, EffectsOf
  <2>2. Size[Current] \in Nat \ {0} /\ Current' = Current
        BY <1>1, CurrentJob, Zenon DEF Current
  <2>3. {<<Current, i>> : i \in 1 .. step' - 1} = {} BY <1>1
  <2> QED BY <1>1, <1>3, <2>1, <2>2, <2>3 DEF IInv, Held
<1> QED BY <1>1, <1>4, <1>5, <1>6, DiskFrame, Zenon DEF IInv

\* A statement of a group runs inside the transaction.
LEMMA StatementOkStep == ASSUME IInv, StatementOk PROVE IInv'
<1>1. /\ phase = "statement" /\ step' = step + 1
      /\ phase' = IF step = Size[Current] THEN "release" ELSE "statement"
      /\ Apply(<<Current, step>>)
      /\ UNCHANGED <<group, results, guard, blamed, answer>>
      BY Zenon DEF StatementOk, NextStatement
<1>2. conn \in Conn /\ conn.tx /\ Settled(conn.mark) /\ step =< Size[Current]
      /\ conn.pending = conn.mark \union {<<Current, i>> : i \in 1 .. step - 1}
      BY <1>1, Zenon DEF IInv, TypeOK, Conn, Held
<1>3. step \in Nat \ {0} /\ Size[Current] \in Nat /\ Current \in Jobs /\ Current' = Current
      BY <1>1, CurrentJob, Zenon DEF IInv, TypeOK, Batch, Current
<1>4. /\ conn' = [conn EXCEPT !.pending = conn.pending \union {<<Current, step>>}]
      /\ disk' = disk
      BY <1>1, <1>2, Zenon DEF Apply
<1>5. conn.pending \union {<<Current, step>>} \in SUBSET Effects
  <2>1. <<Current, step>> \in EffectsOf(Current) BY <1>2, <1>3 DEF EffectsOf
  <2>2. conn.pending \in SUBSET Effects BY <1>2, Zenon DEF Conn
  <2>3. EffectsOf(Current) \subseteq Effects BY <1>3, OwnEffects, Zenon
  <2> QED BY <2>1, <2>2, <2>3, Zenon
<1>6. /\ conn' \in Conn /\ conn'.tx = conn.tx /\ conn'.mark = conn.mark
      /\ conn'.pending = conn.pending \union {<<Current, step>>}
      BY <1>2, <1>4, <1>5, Records, Zenon
<1>7. TypeOK'
  <2>1. step' \in Nat /\ phase' \in Phases BY <1>1, <1>3 DEF Phases
  <2> QED BY <1>1, <1>4, <1>6, <2>1, Zenon DEF IInv, TypeOK, Conn
<1>8. Batch' BY <1>1, <1>3 DEF IInv, Batch, InGroup
<1>9. Held'
  <2>1. Settled(conn.mark)'
        BY <1>1, <1>2, <1>6, Zenon DEF Settled, Succeeded, Absent, Whole, EffectsOf
  <2>2. conn'.pending = conn.mark \union {<<Current, i>> : i \in 1 .. step}
    <3>1. 1 .. step = (1 .. step - 1) \union {step} BY <1>3
    <3> QED BY <1>2, <1>6, <3>1, Zenon
  <2>3. CASE step = Size[Current]
    <3>1. conn'.pending = conn'.mark \union EffectsOf(Current)
          BY <1>6, <2>2, <2>3, Zenon DEF EffectsOf
    <3> QED BY <1>1, <1>2, <1>3, <1>6, <2>1, <2>3, <3>1 DEF Held, EffectsOf
  <2>4. CASE step # Size[Current]
    <3>1. step' - 1 = step /\ step' =< Size[Current] BY <1>1, <1>2, <1>3, <2>4
    <3> QED BY <1>1, <1>2, <1>3, <1>6, <2>1, <2>2, <2>4, <3>1 DEF Held
  <2> QED BY <2>3, <2>4, Zenon
<1> QED BY <1>1, <1>4, <1>7, <1>8, <1>9, DiskFrame, Zenon DEF IInv

\* A statement fails; the savepoint is there still, or the transaction is gone.
LEMMA StatementFailsStep == ASSUME IInv, StatementFails PROVE IInv'
<1>1. /\ phase = "statement" /\ phase' = "undo" /\ conn' \in {conn, NoTx}
      /\ blamed' = blamed \union {Current}
      /\ UNCHANGED <<disk, group, results, step, guard, answer>>
      BY Zenon DEF StatementFails, FailedSql
<1>2. conn \in Conn /\ conn.tx /\ Settled(conn.mark)
      BY <1>1, Zenon DEF IInv, TypeOK, Conn, Held
<1>3. NoTx \in Conn /\ ~NoTx.sp BY Zenon DEF Conn, NoTx
<1>4. TypeOK' BY <1>1, <1>2, <1>3, CurrentJob, Zenon DEF IInv, TypeOK, Phases, Conn
<1>5. Batch' BY <1>1 DEF IInv, Batch, InGroup
<1>6. Held'
  <2>1. CASE conn' = conn
        BY <1>1, <1>2, <2>1, Zenon DEF Held, Settled, Succeeded, Absent, Whole, EffectsOf
  <2>2. CASE conn' = NoTx BY <1>1, <1>3, <2>2, Zenon DEF Held
  <2> QED BY <1>1, <2>1, <2>2, Zenon
<1> QED BY <1>1, <1>4, <1>5, <1>6, DiskFrame, Zenon DEF IInv

\* One more result: the next job follows, or the commit.
LEMMA FinishedJob ==
    ASSUME IInv, NEW r \in {"ok", "err"}, FinishJob(r), phase \in {"undo", "release"}
    PROVE  /\ results' \in Seq({"ok", "err"}) /\ phase' \in {"savepoint", "commit"}
           /\ Batch'
           /\ Succeeded' = IF r = "ok" THEN Succeeded \union {Current} ELSE Succeeded
<1>1. /\ results' = Append(results, r)
      /\ phase' = IF Len(results) + 1 = Len(group) THEN "commit" ELSE "savepoint"
      /\ UNCHANGED <<group, step, answer>>
      BY Zenon DEF FinishJob
<1>2. results \in Seq({"ok", "err"}) /\ Len(results) \in Nat /\ Len(group) \in Nat
      BY DEF IInv, TypeOK
<1>3. /\ results' \in Seq({"ok", "err"}) /\ Len(results') = Len(results) + 1
      /\ \A i \in 1 .. Len(results) : results'[i] = results[i]
      /\ results'[Len(results) + 1] = r
      BY <1>1, <1>2
<1>4. Len(results) + 1 \in 1 .. Len(group) /\ Current \in GroupJobs
      BY CurrentJob, Zenon
<1>5. Batch' BY <1>1, <1>2, <1>3, <1>4 DEF IInv, Batch, InGroup
<1>6. \A j : (\E i \in 1 .. Len(results') : results'[i] = "ok" /\ group[i] = j)
             <=> \/ \E i \in 1 .. Len(results) : results[i] = "ok" /\ group[i] = j
                 \/ r = "ok" /\ j = Current
  <2>1. 1 .. Len(results') = (1 .. Len(results)) \union {Len(results) + 1}
        BY <1>2, <1>3
  <2> QED BY <1>3, <2>1, Zenon DEF Current
<1>7. Succeeded' = IF r = "ok" THEN Succeeded \union {Current} ELSE Succeeded
  <2>1. Succeeded' = {j \in GroupJobs :
                         \E i \in 1 .. Len(results') : results'[i] = "ok" /\ group[i] = j}
        BY <1>1, Zenon DEF Succeeded
  <2>2. \A j : j \in Succeeded' <=> j \in Succeeded \/ (r = "ok" /\ j = Current)
        BY <1>4, <1>6, <2>1, Zenon DEF Succeeded
  <2> QED BY <2>2, Zenon
<1> QED BY <1>1, <1>3, <1>5, <1>7, Zenon

\* ROLLBACK TO takes the failed job's effects out of the transaction again.
LEMMA UndoOkStep == ASSUME IInv, UndoOk PROVE IInv'
<1>1. /\ phase = "undo" /\ conn.sp /\ FinishJob("err")
      /\ conn' = [conn EXCEPT !.pending = conn.mark, !.sp = FALSE, !.mark = {}]
      /\ UNCHANGED <<disk, group, step, guard, blamed, answer>>
      BY Zenon DEF UndoOk, FinishJob
<1>2. conn \in Conn /\ conn.mark \in SUBSET Effects /\ conn.tx /\ Settled(conn.mark)
      BY <1>1, Zenon DEF IInv, TypeOK, Conn, Held
<1>3. conn' \in Conn /\ conn'.tx = conn.tx /\ conn'.pending = conn.mark
      BY <1>1, <1>2, Records, Zenon
<1>4. /\ results' \in Seq({"ok", "err"}) /\ phase' \in {"savepoint", "commit"} /\ Batch'
      /\ Succeeded' = Succeeded
      BY <1>1, FinishedJob, Zenon
<1>5. TypeOK' BY <1>1, <1>3, <1>4, Zenon DEF IInv, TypeOK, Phases, Conn
<1>6. Held'
  <2>1. Settled(conn.pending)'
        BY <1>2, <1>3, <1>4, Zenon DEF Settled, Absent, Whole, EffectsOf
  <2> QED BY <1>2, <1>3, <1>4, <2>1, Zenon DEF Held
<1> QED BY <1>1, <1>4, <1>5, <1>6, DiskFrame, Zenon DEF IInv

\* RELEASE adds the job to those whose effects the transaction holds.
LEMMA ReleaseOkStep == ASSUME IInv, ReleaseOk PROVE IInv'
<1>1. /\ phase = "release" /\ FinishJob("ok")
      /\ conn' = [conn EXCEPT !.sp = FALSE, !.mark = {}]
      /\ UNCHANGED <<disk, group, step, guard, blamed, answer>>
      BY Zenon DEF ReleaseOk, FinishJob
<1>2. /\ conn \in Conn /\ conn.tx /\ Settled(conn.mark)
      /\ conn.pending = conn.mark \union EffectsOf(Current)
      BY <1>1, Zenon DEF IInv, TypeOK, Conn, Held
<1>3. conn' \in Conn /\ conn'.tx = conn.tx /\ conn'.pending = conn.pending
      BY <1>1, <1>2, Records, Zenon
<1>4. /\ results' \in Seq({"ok", "err"}) /\ phase' \in {"savepoint", "commit"} /\ Batch'
      /\ Succeeded' = Succeeded \union {Current}
      BY <1>1, FinishedJob, Zenon
<1>5. TypeOK' BY <1>1, <1>3, <1>4, Zenon DEF IInv, TypeOK, Phases, Conn
<1>6. Held'
  <2>1. ASSUME NEW j \in GroupJobs
        PROVE  IF j \in Succeeded' THEN Whole(j, conn.pending) ELSE Absent(j, conn.pending)
    <3>1. CASE j = Current BY <1>2, <1>4, <3>1, Zenon DEF Whole
    <3>2. CASE j # Current
      <4>1. EffectsOf(j) \intersect EffectsOf(Current) = {}
            BY <1>1, <3>2, CurrentJob, OwnEffects, Zenon DEF Jobs
      <4> QED BY <1>2, <1>4, <3>2, <4>1, Zenon DEF Settled, Whole, Absent
    <3> QED BY <3>1, <3>2, Zenon
  <2>2. Settled(conn.pending)'
        BY <1>3, <2>1, Zenon DEF Settled, Absent, Whole, EffectsOf
  <2> QED BY <1>2, <1>3, <1>4, <2>2, Zenon DEF Held
<1> QED BY <1>1, <1>4, <1>5, <1>6, DiskFrame, Zenon DEF IInv

\* The whole group is refused: nothing of it was committed, and the transaction
\* that is left, if any, holds nothing of a groupable job.
LEMMA Refused ==
    ASSUME IInv, phase \in InGroup, phase' = "respond", results' = AllErr(group),
           UNCHANGED <<disk, group, step, guard, blamed, answer>>,
           conn' \in Conn, \A j \in GroupJobs : Absent(j, conn'.pending)
    PROVE  IInv'
<1>1. group \in Seq(Jobs) /\ Len(group) \in Nat /\ Len(group) > 0
      BY DEF IInv, TypeOK, Batch, InGroup
<1>2. /\ results' \in Seq({"ok", "err"}) /\ Len(results') = Len(group)
      /\ \A i \in 1 .. Len(group) : results'[i] = "err"
      BY <1>1 DEF AllErr
<1>3. TypeOK' BY <1>2, Zenon DEF IInv, TypeOK, Phases, Conn
<1>4. Batch' BY <1>1, <1>2 DEF IInv, Batch, InGroup
<1>5. (\A j \in GroupJobs : OnDisk(j))'
      BY Zenon DEF IInv, InGroup, OnDisk, Whole, Absent, EffectsOf
<1>6. Reports'
  <2>1. \A i \in 1 .. Len(group) : group[i] \in GroupJobs => Absent(group[i], disk)
        BY Zenon DEF IInv, Batch, InGroup, OnDisk
  <2> QED BY <1>2, <2>1, ZenonT(30) DEF Reports, Absent, EffectsOf
<1>7. Held' BY Zenon DEF Held, Absent, EffectsOf
<1> QED BY <1>3, <1>4, <1>5, <1>6, <1>7, Zenon DEF IInv

\* The ways to refuse a group: BEGIN, a savepoint statement or COMMIT fails.
LEMMA RefusedSteps ==
    ASSUME IInv, BeginFails \/ SavepointFails \/ UndoFails \/ ReleaseFails \/ CommitFails
    PROVE  IInv'
<1>1. /\ phase \in InGroup /\ phase' = "respond" /\ results' = AllErr(group)
      /\ UNCHANGED <<disk, group, step, guard, blamed, answer>>
      /\ conn' = NoTx \/ (phase = "begin" /\ conn' = conn)
      BY Zenon DEF BeginFails, SavepointFails, UndoFails, ReleaseFails, CommitFails, Fatal, InGroup
<1>2. NoTx \in Conn /\ NoTx.pending = {} BY Zenon DEF NoTx, Conn
<1>3. conn' \in Conn /\ \A j \in GroupJobs : Absent(j, conn'.pending)
      BY <1>1, <1>2, Zenon DEF IInv, TypeOK, Conn, Held, Absent
<1> QED BY <1>1, <1>3, Refused, Zenon

\* COMMIT: exactly the jobs that succeeded become durable, each as a whole.
LEMMA Committed ==
    ASSUME IInv, CommitOk, NEW j \in GroupJobs
    PROVE  /\ j \in Succeeded => Whole(j, disk') /\ Absent(j, disk) /\ answer[j] = "none"
           /\ j \notin Succeeded =>
                 /\ Whole(j, disk) => Whole(j, disk')
                 /\ Absent(j, disk) => Absent(j, disk')
<1>1. phase = "commit" /\ disk' = disk \union conn.pending /\ Settled(conn.pending)
      BY Zenon DEF CommitOk, CommitTx, IInv, Held
<1>2. ASSUME j \in Succeeded PROVE Absent(j, disk) /\ answer[j] = "none"
      BY <1>1, <1>2, Zenon DEF IInv, Batch, Succeeded, OnDisk
<1>3. j \in Succeeded => Whole(j, disk') BY <1>1, Zenon DEF Settled, Whole
<1>4. j \notin Succeeded =>
          /\ Whole(j, disk) => Whole(j, disk')
          /\ Absent(j, disk) => Absent(j, disk')
      BY <1>1, Zenon DEF Settled, Whole, Absent
<1> QED BY <1>2, <1>3, <1>4, Zenon

\* After a COMMIT the disk agrees with the results that are about to be sent.
LEMMA CommitOkStep == ASSUME IInv, CommitOk PROVE IInv'
<1>1. /\ phase = "commit" /\ phase' = "respond" /\ conn' = NoTx
      /\ disk' = disk \union conn.pending
      /\ UNCHANGED <<group, results, step, guard, blamed, answer>>
      BY Zenon DEF CommitOk, CommitTx
<1>2. NoTx \in Conn /\ NoTx.pending = {} BY Zenon DEF NoTx, Conn
<1>3. TypeOK' BY <1>1, <1>2, Zenon DEF IInv, TypeOK, Phases, Conn
<1>4. Batch' BY <1>1 DEF IInv, Batch, InGroup
<1>5. Len(results) = Len(group) /\ \A i \in 1 .. Len(group) : group[i] \in GroupJobs
      BY <1>1, Zenon DEF IInv, Batch, InGroup
<1>6. ASSUME NEW j \in GroupJobs PROVE OnDisk(j)'
  <2>1. CASE j \in Succeeded
    <3>1. \E i \in 1 .. Len(group) : group[i] = j BY <1>5, <2>1, Zenon DEF Succeeded
    <3>2. Whole(j, disk') /\ answer[j] = "none" BY <2>1, Committed, Zenon
    <3> QED BY <1>1, <3>1, <3>2, Zenon DEF OnDisk, Whole, Absent, EffectsOf
  <2>2. CASE j \notin Succeeded
    <3>1. OnDisk(j) BY Zenon DEF IInv
    <3>2. /\ Whole(j, disk) => Whole(j, disk')
          /\ Absent(j, disk) => Absent(j, disk')
          BY <2>2, Committed, Zenon
    <3> QED BY <1>1, <3>1, <3>2, Zenon DEF OnDisk, Whole, Absent, EffectsOf
  <2> QED BY <2>1, <2>2, Zenon
<1>7. ASSUME NEW i \in 1 .. Len(group)
      PROVE  /\ results[i] = "ok" => Whole(group[i], disk')
             /\ results[i] = "err" => Absent(group[i], disk')
  <2>1. group[i] \in GroupJobs BY <1>5, Zenon
  <2>2. CASE results[i] = "ok" BY <1>5, <2>1, <2>2, Committed, Zenon DEF Succeeded
  <2>3. CASE results[i] = "err"
    <3>1. group[i] \notin Succeeded BY <1>5, <2>3, Zenon DEF IInv, Batch, Succeeded
    <3>2. Absent(group[i], disk) BY <1>1, <2>1, Zenon DEF IInv, Batch, OnDisk
    <3> QED BY <2>1, <2>3, <3>1, <3>2, Committed, Zenon
  <2> QED BY <2>2, <2>3, Zenon
<1>8. Reports' BY <1>1, <1>7 DEF Reports, Whole, Absent, EffectsOf
<1>9. Held' BY <1>1, <1>2, Zenon DEF Held, Absent
<1> QED BY <1>3, <1>4, <1>6, <1>8, <1>9, Zenon DEF IInv

-----------------------------------------------------------------------------
(* Exclusive jobs, answers and crashes.                                    *)

\* A callback commits or holds back effects of its own job only.
LEMMA CallbackFrame ==
    ASSUME IInv, phase \in {"idle", "callback"}, UNCHANGED answer,
           \A j \in GroupJobs : EffectsOf(j) \intersect disk' = EffectsOf(j) \intersect disk,
           phase' = "respond" => group' = group /\ phase = "callback"
    PROVE  (\A j \in GroupJobs : OnDisk(j))' /\ Reports'
<1>1. ASSUME NEW j \in GroupJobs
      PROVE  (Whole(j, disk') <=> Whole(j, disk)) /\ (Absent(j, disk') <=> Absent(j, disk))
      BY Zenon DEF Whole, Absent
<1>2. ASSUME NEW j \in GroupJobs PROVE OnDisk(j)'
  <2>1. OnDisk(j) /\ (answer[j] = "none" => Absent(j, disk)) BY Zenon DEF IInv, OnDisk
  <2> QED BY <1>1, <2>1, Zenon DEF OnDisk, Whole, Absent, EffectsOf
<1>3. ASSUME phase = "callback", NEW i \in 1 .. Len(group) PROVE group[i] \notin GroupJobs
  <2>1. Len(group) = 1 /\ group[1] \in ExclusiveJobs BY <1>3, Zenon DEF IInv, Batch
  <2>2. i = 1 BY <2>1
  <2> QED BY <2>1, <2>2, JobsAssumption, Zenon
<1>4. Reports' BY <1>3, Zenon DEF Reports
<1> QED BY <1>2, <1>4, Zenon

\* An exclusive job is taken alone.
LEMMA TakeExclusiveStep == ASSUME IInv, TakeExclusive PROVE IInv'
<1>1. PICK j \in ExclusiveJobs : answer[j] = "none" /\ group' = <<j>> BY Zenon DEF TakeExclusive
<1>2. /\ phase = "idle" /\ phase' = "callback" /\ step' = 1 /\ guard' = FALSE
      /\ UNCHANGED <<disk, conn, results, blamed, answer>>
      BY Zenon DEF TakeExclusive
<1>3. group' \in Seq(Jobs) /\ Len(group') = 1 /\ group'[1] = j BY <1>1 DEF Jobs
<1>4. TypeOK' BY <1>2, <1>3, Zenon DEF IInv, TypeOK, Phases
<1>5. Batch' BY <1>1, <1>2, <1>3 DEF IInv, Batch, InGroup
<1>6. Held' BY <1>2, Zenon DEF IInv, Held, Absent, EffectsOf
<1> QED BY <1>2, <1>4, <1>5, <1>6, DiskFrame, Zenon DEF IInv

\* The effect a callback's statement has belongs to an exclusive job.
LEMMA CallbackEffect ==
    ASSUME IInv, phase = "callback", step =< Size[Current]
    PROVE  /\ Current \in ExclusiveJobs /\ <<Current, step>> \in Effects
           /\ \A j \in GroupJobs : <<Current, step>> \notin EffectsOf(j)
<1>1. Current \in ExclusiveJobs BY DEF IInv, Batch, Current
<1>2. step \in 1 .. Size[Current] /\ step \in Nat
      BY <1>1, SizeAssumption DEF IInv, TypeOK, Batch, Jobs
<1>3. <<Current, step>> \in EffectsOf(Current) BY <1>2, Zenon DEF EffectsOf
<1>4. \A j \in GroupJobs : j # Current BY <1>1, JobsAssumption, Zenon
<1>5. \A j \in GroupJobs : <<Current, step>> \notin EffectsOf(j)
      BY <1>1, <1>2, <1>4, OwnEffects, Zenon DEF Jobs
<1> QED BY <1>1, <1>3, <1>5, OwnEffects, Zenon DEF Jobs

\* What a callback does to connection and disk keeps the invariant.
LEMMA InCallbackStep ==
    ASSUME IInv, InCallback, step' \in Nat \ {0}, guard' \in BOOLEAN,
           disk' \subseteq Effects, conn' \in Conn,
           \A j \in GroupJobs : EffectsOf(j) \intersect disk' = EffectsOf(j) \intersect disk,
           \A j \in GroupJobs : Absent(j, conn'.pending)
    PROVE  IInv'
<1>1. phase = "callback" /\ UNCHANGED <<phase, group, results, blamed, answer>>
      BY Zenon DEF InCallback
<1>2. TypeOK' BY <1>1, Zenon DEF IInv, TypeOK, Conn
<1>3. Batch' BY <1>1 DEF IInv, Batch, InGroup
<1>4. Held' BY <1>1, Zenon DEF Held, Absent, EffectsOf
<1> QED BY <1>1, <1>2, <1>3, <1>4, CallbackFrame, Zenon DEF IInv

\* Statements, BEGIN and COMMIT of a callback never touch a groupable job.
LEMMA CallbackSteps ==
    ASSUME IInv, CallbackStatement \/ CallbackBegin \/ CallbackCommit
    PROVE  IInv'
<1>1. /\ InCallback /\ phase = "callback" /\ conn \in Conn
      /\ conn.pending \subseteq Effects /\ disk \subseteq Effects
      /\ step \in Nat \ {0} /\ guard \in BOOLEAN
      BY Zenon DEF CallbackStatement, CallbackBegin, CallbackCommit, InCallback, IInv, TypeOK,
             Conn, Batch
<1>2. \A j \in GroupJobs : Absent(j, conn.pending) BY <1>1, Zenon DEF IInv, Held
<1>3. NoTx \in Conn /\ NoTx.pending = {} BY Zenon DEF NoTx, Conn
<1>4. CASE CallbackStatement
  <2>1. step' \in Nat \ {0} /\ guard' = guard BY <1>1, <1>4 DEF CallbackStatement
  <2>2. /\ <<Current, step>> \in Effects
        /\ \A j \in GroupJobs : <<Current, step>> \notin EffectsOf(j)
        BY <1>1, <1>4, CallbackEffect, Zenon DEF CallbackStatement
  <2>3. CASE FailedSql
        BY <1>1, <1>2, <1>3, <2>1, <2>3, InCallbackStep, Zenon DEF FailedSql, Absent
  <2>4. CASE Apply(<<Current, step>>) /\ conn.tx
    <3>1. /\ conn' = [conn EXCEPT !.pending = conn.pending \union {<<Current, step>>}]
          /\ disk' = disk
          BY <2>4, Zenon DEF Apply
    <3>2. conn' \in Conn /\ conn'.pending = conn.pending \union {<<Current, step>>}
          BY <1>1, <2>2, <3>1, Records, ZenonT(30)
    <3>3. \A j \in GroupJobs : Absent(j, conn'.pending) BY <1>2, <2>2, <3>2, Zenon DEF Absent
    <3> QED BY <1>1, <2>1, <3>1, <3>2, <3>3, InCallbackStep, Zenon
  <2>5. CASE Apply(<<Current, step>>) /\ ~conn.tx
    <3>1. disk' = disk \union {<<Current, step>>} /\ conn' = conn BY <2>5, Zenon DEF Apply
    <3>2. \A j \in GroupJobs : EffectsOf(j) \intersect disk' = EffectsOf(j) \intersect disk
          BY <2>2, <3>1, Zenon
    <3> QED BY <1>1, <1>2, <2>1, <2>2, <3>1, <3>2, InCallbackStep, Zenon
  <2> QED BY <1>4, <2>3, <2>4, <2>5, Zenon DEF CallbackStatement
<1>5. CASE CallbackBegin
  <2>1. conn' \in Conn /\ conn'.pending = conn.pending
        BY <1>1, <1>5, Records, Zenon DEF CallbackBegin
  <2> QED BY <1>1, <1>2, <1>5, <2>1, InCallbackStep, Zenon DEF CallbackBegin
<1>6. CASE CallbackCommit
  <2>1. /\ disk' = disk \union conn.pending /\ conn' = NoTx /\ guard' = FALSE
        /\ step' = step
        BY <1>6, Zenon DEF CallbackCommit, CommitTx
  <2>2. \A j \in GroupJobs : EffectsOf(j) \intersect disk' = EffectsOf(j) \intersect disk
        BY <1>2, <2>1, Zenon DEF Absent
  <2> QED BY <1>1, <1>3, <2>1, <2>2, InCallbackStep, Zenon DEF Absent
<1> QED BY <1>4, <1>5, <1>6, Zenon

\* A transaction the callback leaves open holds nothing of a groupable job.
LEMMA CallbackReturnStep == ASSUME IInv, CallbackReturn PROVE IInv'
<1>1. /\ phase = "callback" /\ phase' = "respond" /\ conn' \in {conn, NoTx}
      /\ guard' = FALSE /\ UNCHANGED <<disk, group, step, blamed, answer>>
      BY Zenon DEF CallbackReturn
<1>2. PICK r \in {"ok", "err"} : results' = <<r>> BY Zenon DEF CallbackReturn
<1>3. results' \in Seq({"ok", "err"}) /\ Len(results') = 1 BY <1>2
<1>4. NoTx \in Conn /\ NoTx.pending = {} BY Zenon DEF NoTx, Conn
<1>5. TypeOK' BY <1>1, <1>3, <1>4, Zenon DEF IInv, TypeOK, Phases, Conn
<1>6. Batch' BY <1>1, <1>3 DEF IInv, Batch, InGroup
<1>7. Held' BY <1>1, <1>4, Zenon DEF IInv, Held, Absent, EffectsOf
<1> QED BY <1>1, <1>5, <1>6, <1>7, CallbackFrame, Zenon DEF IInv

\* What is left of the batch when its first job is answered.
LEMMA Rest ==
    ASSUME IInv, Respond
    PROVE  /\ group' \in Seq(Jobs) /\ results' \in Seq({"ok", "err"})
           /\ Len(group') = Len(group) - 1 /\ Len(results') = Len(group')
           /\ \A i \in 1 .. Len(group') : /\ i + 1 \in 1 .. Len(group)
                                         /\ group'[i] = group[i + 1]
                                         /\ results'[i] = results[i + 1]
           /\ \A i \in 1 .. Len(group) : i # 1 =>
                  i - 1 \in 1 .. Len(group') /\ group'[i - 1] = group[i]
           /\ Len(group) \in Nat \ {0} /\ 1 \in 1 .. Len(group)
           /\ group[1] \in Jobs /\ results[1] \in {"ok", "err"}
           /\ answer' = [answer EXCEPT ![group[1]] = results[1]]
<1>1. /\ group \in Seq(Jobs) /\ results \in Seq({"ok", "err"})
      /\ Len(group) \in Nat /\ Len(group) > 0 /\ Len(results) = Len(group)
      BY DEF IInv, TypeOK, Batch, Respond
<1>2. /\ answer' = [answer EXCEPT ![Head(group)] = Head(results)]
      /\ group' = Tail(group) /\ results' = Tail(results)
      BY Zenon DEF Respond
<1>3. /\ group # <<>> /\ results # <<>>
      /\ Head(group) = group[1] /\ Head(results) = results[1]
      BY <1>1
<1>4. /\ group' \in Seq(Jobs) /\ results' \in Seq({"ok", "err"})
      /\ Len(group') = Len(group) - 1 /\ Len(results') = Len(group')
      BY <1>1, <1>2, <1>3
<1>5. \A i \in 1 .. Len(group') : /\ i + 1 \in 1 .. Len(group)
                                /\ group'[i] = group[i + 1]
                                /\ results'[i] = results[i + 1]
      BY <1>1, <1>2, <1>3, <1>4
<1>6. ASSUME NEW i \in 1 .. Len(group), i # 1
      PROVE  i - 1 \in 1 .. Len(group') /\ group'[i - 1] = group[i]
  <2>1. i - 1 \in 1 .. Len(group') /\ (i - 1) + 1 = i BY <1>1, <1>4, <1>6
  <2>2. group'[i - 1] = group[(i - 1) + 1] BY <1>5, <2>1, Zenon
  <2> QED BY <2>1, <2>2, Zenon
<1>7. group[1] \in Jobs /\ results[1] \in {"ok", "err"} BY <1>1
<1> QED BY <1>1, <1>2, <1>3, <1>4, <1>5, <1>6, <1>7

\* Each job is answered with its own result, which is true of the disk.
LEMMA RespondStep == ASSUME IInv, Respond PROVE IInv'
<1>1. /\ phase = "respond" /\ phase' = IF Len(group) = 1 THEN "idle" ELSE "respond"
      /\ UNCHANGED <<disk, conn, step, guard, blamed>>
      BY Zenon DEF Respond
<1>2. TypeOK' BY <1>1, Rest, SMTT(20) DEF IInv, TypeOK, Phases
<1>3. \A i \in 1 .. Len(group') : group'[i] # group[1]
      BY Rest DEF IInv, Batch
<1>4. \A j \in Jobs : answer'[j] = IF j = group[1] THEN results[1] ELSE answer[j]
      BY Rest, Zenon DEF IInv, TypeOK
<1>5. Batch'
  <2>1. ASSUME NEW i \in 1 .. Len(group')
        PROVE  group'[i] \in Jobs /\ answer'[group'[i]] = "none"
    <3>1. i + 1 \in 1 .. Len(group) /\ group'[i] = group[i + 1] BY Rest, Zenon
    <3>2. group[i + 1] \in Jobs /\ answer[group[i + 1]] = "none"
          BY <3>1 DEF IInv, Batch, TypeOK
    <3> QED BY <1>3, <1>4, <3>1, <3>2, Zenon
  <2>2. \A i, k \in 1 .. Len(group') : group'[i] = group'[k] => i = k
        BY Rest DEF IInv, Batch
  <2>3. \A i \in 1 .. Len(group') : group'[i] \in GroupJobs
        BY Rest DEF IInv, Batch
  <2>4. Len(group) = 1 => group' = <<>> /\ results' = <<>>
    <3>1. Len(group) = 1 => Len(group') = 0 /\ Len(results') = 0
      <4>1. Len(group') = Len(group) - 1 /\ Len(results') = Len(group') BY Rest, Zenon
      <4> QED BY <4>1
    <3>2. group' \in Seq(Jobs) /\ results' \in Seq({"ok", "err"}) BY Rest, Zenon
    <3>3. \A S : \A s \in Seq(S) : Len(s) = 0 => s = <<>> OBVIOUS
    <3> QED BY <3>1, <3>2, <3>3, Zenon
  <2>5. Len(group) # 1 => Len(group') > 0 BY Rest
  <2> QED BY <1>1, <2>1, <2>2, <2>3, <2>4, <2>5, Rest, Zenon DEF IInv, Batch, InGroup
<1>6. ASSUME NEW j \in GroupJobs PROVE OnDisk(j)'
  <2>1. OnDisk(j) /\ j \in Jobs BY Zenon DEF IInv, Jobs
  <2>2. CASE j = group[1]
    <3>1. /\ results[1] = "ok" => Whole(j, disk)
          /\ results[1] = "err" => Absent(j, disk)
          BY <1>1, <2>2, Rest, Zenon DEF IInv, Reports
    <3>2. answer'[j] = results[1] /\ results[1] \in {"ok", "err"}
          BY <1>4, <2>1, <2>2, Rest, Zenon
    <3> QED BY <1>1, <2>1, <3>1, <3>2, Zenon DEF OnDisk, Whole, Absent, EffectsOf
  <2>3. CASE j # group[1]
    <3>1. answer'[j] = answer[j] BY <1>4, <2>1, <2>3, Zenon
    <3>2. ASSUME phase' = "respond" => \A i \in 1 .. Len(group') : group'[i] # j
          PROVE  \A i \in 1 .. Len(group) : group[i] # j
      <4>1. CASE Len(group) = 1 BY <2>3, <4>1
      <4>2. ASSUME Len(group) # 1, NEW i \in 1 .. Len(group), i # 1 PROVE group[i] # j
        <5>1. i - 1 \in 1 .. Len(group') /\ group'[i - 1] = group[i] BY <4>2, Rest, Zenon
        <5> QED BY <1>1, <3>2, <4>2, <5>1, Zenon
      <4> QED BY <2>3, <4>1, <4>2, Zenon
    <3> QED BY <1>1, <2>1, <3>1, <3>2, Zenon DEF OnDisk, Whole, Absent, EffectsOf
  <2> QED BY <2>2, <2>3, Zenon
<1>7. Reports'
  <2>1. ASSUME NEW i \in 1 .. Len(group'), group'[i] \in GroupJobs
        PROVE  /\ results'[i] = "ok" => Whole(group'[i], disk)
               /\ results'[i] = "err" => Absent(group'[i], disk)
    <3>1. /\ i + 1 \in 1 .. Len(group) /\ group'[i] = group[i + 1]
          /\ results'[i] = results[i + 1]
          BY Rest, Zenon
    <3> QED BY <1>1, <2>1, <3>1, Zenon DEF IInv, Reports
  <2> QED BY <1>1, <2>1, Zenon DEF Reports, Whole, Absent, EffectsOf
<1>8. Held' BY <1>1, Zenon DEF IInv, Held, Absent, EffectsOf
<1> QED BY <1>2, <1>5, <1>6, <1>7, <1>8, Zenon DEF IInv

\* A crash loses the callers of the batch and the transaction, and nothing else.
LEMMA CrashStep == ASSUME IInv, Crash PROVE IInv'
<1>1. /\ conn' = NoTx /\ phase' = "idle" /\ group' = <<>> /\ results' = <<>>
      /\ step' = 1 /\ guard' = FALSE /\ UNCHANGED <<disk, blamed>>
      /\ answer' = [j \in Jobs |-> IF \E i \in DOMAIN group : group[i] = j
                                   THEN "lost" ELSE answer[j]]
      BY Zenon DEF Crash
<1>2. NoTx \in Conn /\ NoTx.pending = {} BY Zenon DEF NoTx, Conn
<1>3. TypeOK'
  <2>1. answer' \in [Jobs -> {"none", "ok", "err", "lost"}] BY <1>1, Zenon DEF IInv, TypeOK
  <2>2. group' \in Seq(Jobs) /\ results' \in Seq({"ok", "err"}) BY <1>1
  <2> QED BY <1>1, <1>2, <2>1, <2>2, Zenon DEF IInv, TypeOK, Phases, Conn
<1>4. Batch' BY <1>1 DEF Batch, InGroup
<1>5. ASSUME NEW j \in GroupJobs PROVE OnDisk(j)'
  <2>1. OnDisk(j) /\ j \in Jobs /\ DOMAIN group = 1 .. Len(group)
        BY DEF IInv, Jobs, TypeOK
  <2>2. \/ answer'[j] = "lost"
        \/ answer'[j] = answer[j] /\ \A i \in 1 .. Len(group) : group[i] # j
        BY <1>1, <2>1, Zenon
  <2> QED BY <1>1, <2>1, <2>2, Zenon DEF OnDisk, Whole, Absent, EffectsOf
<1>6. Reports' BY <1>1, Zenon DEF Reports
<1>7. Held' BY <1>1, <1>2, Zenon DEF Held, Absent
<1> QED BY <1>3, <1>4, <1>5, <1>6, <1>7, Zenon DEF IInv

-----------------------------------------------------------------------------
(* The invariant and what follows from it.                                 *)

\* The invariant holds when the pool starts.
LEMMA InitIInv == Init => IInv
<1> SUFFICES ASSUME Init PROVE IInv
    BY Zenon
<1>1. NoTx \in Conn /\ NoTx.pending = {} BY Zenon DEF NoTx, Conn
<1>2. TypeOK
  <2>1. group \in Seq(Jobs) /\ results \in Seq({"ok", "err"}) BY DEF Init
  <2>2. answer \in [Jobs -> {"none", "ok", "err", "lost"}] BY Zenon DEF Init
  <2> QED BY <1>1, <2>1, <2>2, Zenon DEF Init, TypeOK, Phases, Conn
<1>3. Batch BY DEF Init, Batch, InGroup
<1>4. \A j \in GroupJobs : OnDisk(j) BY Zenon DEF Init, OnDisk, Absent, Jobs
<1>5. Reports /\ Held BY <1>1, Zenon DEF Init, Reports, Held, Absent
<1> QED BY <1>2, <1>3, <1>4, <1>5, Zenon DEF IInv

\* Every step of the writer, and a crash, keeps the invariant.
LEMMA Inductive == IInv /\ [Next]_vars => IInv'
<1> SUFFICES ASSUME IInv, [Next]_vars PROVE IInv'
    BY Zenon
<1>1. CASE UNCHANGED vars
  <2>1. UNCHANGED <<disk, conn, phase, group, results, step, guard, blamed, answer>>
        BY <1>1, Zenon DEF vars
  <2>2. TypeOK' /\ Batch' BY <2>1, SMTT(20) DEF IInv, TypeOK, Batch
  <2>3. (\A j \in GroupJobs : OnDisk(j))' /\ Reports'
        BY <2>1 DEF IInv, OnDisk, Reports, Whole, Absent, EffectsOf
  <2>4. Held'
    <3>1. Current' = Current /\ Succeeded' = Succeeded BY <2>1, Zenon DEF Current, Succeeded
    <3>2. \A j \in GroupJobs : (Absent(j, conn.pending) => Absent(j, conn.pending)')
          BY <2>1, Zenon DEF Absent, EffectsOf
    <3>3. /\ Settled(conn.pending) => Settled(conn.pending)'
          /\ Settled(conn.mark) => Settled(conn.mark)'
          BY <2>1, <3>1, Zenon DEF Settled, Whole, Absent, EffectsOf
    <3> QED BY <2>1, <3>1, <3>2, <3>3, Zenon DEF IInv, Held, EffectsOf
  <2> QED BY <2>2, <2>3, <2>4, Zenon DEF IInv
<1>2. CASE Group
      BY <1>2, TakeGroupStep, BeginOkStep, SavepointOkStep, StatementOkStep,
         StatementFailsStep, UndoOkStep, ReleaseOkStep, CommitOkStep, RefusedSteps, Zenon
         DEF Group
<1>3. CASE Exclusive
      BY <1>3, TakeExclusiveStep, CallbackSteps, CallbackReturnStep, Zenon DEF Exclusive
<1> QED BY <1>1, <1>2, <1>3, RespondStep, CrashStep, Zenon DEF Next

\* The invariant holds in every state the writer reaches.
LEMMA Invariant == Spec => []IInv
BY InitIInv, Inductive, PTL DEF Spec

\* Whatever shares its transaction, and wherever the process crashes, a
\* groupable job that was answered Ok is committed, with every effect.
THEOREM OkIsDurable == Spec => []AcknowledgedIsDurable
<1>1. IInv => AcknowledgedIsDurable BY Zenon DEF IInv, OnDisk, Whole, AcknowledgedIsDurable
<1> QED BY <1>1, Invariant, PTL

\* A groupable job that was answered Err has left nothing - as long as no
\* statement text ends the transaction, which Spec leaves out.
THEOREM ErrLeavesNothing == Spec => []RefusedLeavesNothing
<1>1. IInv => RefusedLeavesNothing BY Zenon DEF IInv, OnDisk, Absent, RefusedLeavesNothing
<1> QED BY <1>1, Invariant, PTL

\* At no moment is a part of a groupable job committed.
THEOREM NoPartialJob == Spec => []AllOrNothing
<1>1. IInv => AllOrNothing BY Zenon DEF IInv, OnDisk, Whole, Absent, AllOrNothing
<1> QED BY <1>1, Invariant, PTL

-----------------------------------------------------------------------------
(* Group commit implements AtomicJobs.                                     *)

Durable == {j \in GroupJobs : EffectsOf(j) \intersect disk # {}}
Told == [j \in GroupJobs |-> answer[j]]

\* Steps that neither commit an effect of a groupable job nor answer one.
LEMMA PromiseStutters ==
    ASSUME UNCHANGED answer,
           \A j \in GroupJobs : EffectsOf(j) \intersect disk' = EffectsOf(j) \intersect disk
    PROVE  Durable' = Durable /\ Told' = Told
BY Zenon DEF Durable, Told, EffectsOf

\* COMMIT makes the jobs durable that have succeeded.
LEMMA CommitPromise ==
    ASSUME IInv, CommitOk
    PROVE  /\ Durable' = Durable \union Succeeded /\ Told' = Told
           /\ \A j \in Succeeded : j \notin Durable /\ Told[j] = "none"
           /\ Succeeded \subseteq GroupJobs
<1>1. UNCHANGED answer BY Zenon DEF CommitOk
<1>2. Succeeded \subseteq GroupJobs BY Zenon DEF Succeeded
<1>3. ASSUME NEW j \in GroupJobs
      PROVE  EffectsOf(j) \intersect disk' # {} <=>
                 EffectsOf(j) \intersect disk # {} \/ j \in Succeeded
  <2>1. <<j, 1>> \in EffectsOf(j) BY OwnEffects, Zenon DEF Jobs
  <2>2. Whole(j, disk) \/ Absent(j, disk) BY Zenon DEF IInv, OnDisk
  <2> QED BY <2>1, <2>2, Committed, Zenon DEF Whole, Absent
<1>4. Durable' = Durable \union Succeeded BY <1>2, <1>3, Zenon DEF Durable, EffectsOf
<1>5. \A j \in Succeeded : j \notin Durable /\ Told[j] = "none"
      BY <1>2, Committed, Zenon DEF Durable, Told, Absent
<1> QED BY <1>1, <1>2, <1>4, <1>5, Zenon DEF Told

\* A response tells its caller whether the job is durable.
LEMMA RespondPromise ==
    ASSUME IInv, Respond
    PROVE  /\ Durable' = Durable
           /\ \/ Told' = Told
              \/ \E j \in GroupJobs :
                    /\ Told[j] = "none"
                    /\ Told' = [Told EXCEPT ![j] = IF j \in Durable THEN "ok" ELSE "err"]
<1>1. Durable' = Durable BY Zenon DEF Respond, Durable, EffectsOf
<1>2. phase = "respond" BY Zenon DEF Respond
<1>3. \A j \in GroupJobs : answer'[j] = IF j = group[1] THEN results[1] ELSE answer[j]
      BY Rest, Zenon DEF IInv, TypeOK, Jobs
<1>4. CASE group[1] \notin GroupJobs BY <1>1, <1>3, <1>4, Zenon DEF Told
<1>5. CASE group[1] \in GroupJobs
  <2>1. Told[group[1]] = "none" BY <1>5, Rest, Zenon DEF IInv, Batch, Told
  <2>2. results[1] = IF group[1] \in Durable THEN "ok" ELSE "err"
    <3>1. /\ results[1] = "ok" => Whole(group[1], disk)
          /\ results[1] = "err" => Absent(group[1], disk)
          /\ results[1] \in {"ok", "err"}
          BY <1>2, <1>5, Rest, Zenon DEF IInv, Reports
    <3>2. <<group[1], 1>> \in EffectsOf(group[1]) BY Rest, OwnEffects, Zenon
    <3> QED BY <1>5, <3>1, <3>2, Zenon DEF Durable, Whole, Absent
  <2>3. Told' = [Told EXCEPT ![group[1]] = results[1]] BY <1>3, <1>5, Zenon DEF Told
  <2> QED BY <1>1, <1>5, <2>1, <2>2, <2>3, Zenon
<1> QED BY <1>4, <1>5, Zenon

\* A crash loses the callers of the batch, none of whom had an answer.
LEMMA CrashPromise ==
    ASSUME IInv, Crash
    PROVE  /\ Durable' = Durable
           /\ \/ Told' = Told
              \/ \E S \in SUBSET GroupJobs :
                    /\ S # {} /\ \A j \in S : Told[j] = "none"
                    /\ Told' = [j \in GroupJobs |-> IF j \in S THEN "lost" ELSE Told[j]]
<1> DEFINE S == {j \in GroupJobs : \E i \in DOMAIN group : group[i] = j}
<1>1. Durable' = Durable BY Zenon DEF Crash, Durable, EffectsOf
<1>2. \A j \in GroupJobs : answer'[j] = IF j \in S THEN "lost" ELSE answer[j]
      BY Zenon DEF Crash, Jobs
<1>3. \A j \in S : Told[j] = "none"
  <2>1. DOMAIN group = 1 .. Len(group) BY DEF IInv, TypeOK
  <2> QED BY <2>1, Zenon DEF IInv, Batch, Told
<1>4. S \in SUBSET GroupJobs BY Zenon
<1> HIDE DEF S
<1>5. Told' = [j \in GroupJobs |-> IF j \in S THEN "lost" ELSE Told[j]] BY <1>2, Zenon DEF Told
<1>6. CASE S = {} BY <1>1, <1>5, <1>6, Zenon DEF Told
<1>7. CASE S # {} BY <1>1, <1>3, <1>4, <1>5, <1>7, Zenon
<1> QED BY <1>6, <1>7, Zenon

\* The steps that do not touch what is promised to groupable jobs.
LEMMA OtherSteps ==
    ASSUME IInv, Next, ~CommitOk, ~Respond, ~Crash
    PROVE  Durable' = Durable /\ Told' = Told
<1>1. CASE Group
  <2>1. phase = "statement" => conn.tx BY Zenon DEF IInv, Held
  <2>2. UNCHANGED <<disk, answer>>
        BY <1>1, <2>1, Zenon
           DEF Group, TakeGroup, BeginOk, BeginFails, SavepointOk, SavepointFails,
               StatementOk, NextStatement, Apply, StatementFails, FailedSql, UndoOk,
               UndoFails, ReleaseOk, ReleaseFails, FinishJob, CommitFails, Fatal
  <2> QED BY <2>2, PromiseStutters, Zenon
<1>2. CASE Exclusive
  <2>1. UNCHANGED answer
        BY <1>2, Zenon DEF Exclusive, TakeExclusive, CallbackStatement, CallbackBegin,
                    CallbackCommit, CallbackReturn, InCallback
  <2>2. CASE CallbackStatement
    <3>1. \A j \in GroupJobs : <<Current, step>> \notin EffectsOf(j)
          BY <2>2, CallbackEffect, Zenon DEF CallbackStatement, InCallback
    <3>2. disk' = disk \/ disk' = disk \union {<<Current, step>>}
          BY <2>2, Zenon DEF CallbackStatement, Apply, FailedSql
    <3> QED BY <2>1, <3>1, <3>2, PromiseStutters, Zenon
  <2>3. CASE CallbackCommit
    <3>1. disk' = disk \union conn.pending /\ phase = "callback"
          BY <2>3, Zenon DEF CallbackCommit, CommitTx, InCallback
    <3>2. \A j \in GroupJobs : Absent(j, conn.pending) BY <3>1, Zenon DEF IInv, Held
    <3> QED BY <2>1, <3>1, <3>2, PromiseStutters, Zenon DEF Absent
  <2>4. CASE TakeExclusive \/ CallbackBegin \/ CallbackReturn
    <3>1. UNCHANGED disk BY <2>4, Zenon DEF TakeExclusive, CallbackBegin, CallbackReturn
    <3> QED BY <2>1, <3>1, PromiseStutters, Zenon
  <2> QED BY <1>2, <2>2, <2>3, <2>4, Zenon DEF Exclusive
<1> QED BY <1>1, <1>2, Zenon DEF Next

\* Group commit keeps the promise made for each job on its own: seen from the
\* callers, every step of the writer is a commit of whole unanswered jobs, a
\* truthful answer, the loss of unanswered callers in a crash, or nothing.
THEOREM Atomic == Spec => KeepsPromise
<1>1. Init => Promise!Init
  <2> SUFFICES ASSUME Init PROVE Promise!Init
      BY Zenon
  <2>1. \A j \in GroupJobs : EffectsOf(j) \intersect disk = {} BY Zenon DEF Init
  <2>2. \A j \in GroupJobs : answer[j] = "none" BY Zenon DEF Init, Jobs
  <2> QED BY <2>1, <2>2, Zenon DEF Promise!Init
<1>2. IInv /\ [Next]_vars => [Promise!Next]_(Promise!vars)
  <2> SUFFICES ASSUME IInv, [Next]_vars PROVE [Promise!Next]_(Promise!vars)
      BY Zenon
  <2>1. ASSUME Durable' = Durable, Told' = Told PROVE UNCHANGED Promise!vars
        BY <2>1, Zenon DEF Durable, Told, Promise!vars
  <2>2. CASE UNCHANGED vars BY <2>2, <2>1, PromiseStutters, Zenon DEF vars
  <2>3. CASE CommitOk
    <3>1. CASE Succeeded = {} BY <2>1, <2>3, <3>1, CommitPromise, Zenon
    <3>2. CASE Succeeded # {}
      <4>1. Promise!Commit(Succeeded)
            BY <2>3, <3>2, CommitPromise, Zenon DEF Promise!Commit, Durable, Told
      <4> QED BY <2>3, <4>1, CommitPromise, Zenon DEF Promise!Next
    <3> QED BY <3>1, <3>2, Zenon
  <2>4. CASE Respond
    <3>1. CASE Told' = Told BY <2>1, <2>4, <3>1, RespondPromise, Zenon
    <3>2. ASSUME NEW j \in GroupJobs, Told[j] = "none",
                 Told' = [Told EXCEPT ![j] = IF j \in Durable THEN "ok" ELSE "err"]
          PROVE  Promise!Next
      <4>1. Promise!Reply(j)
            BY <2>4, <3>2, RespondPromise, Zenon DEF Promise!Reply, Durable, Told
      <4> QED BY <4>1, Zenon DEF Promise!Next
    <3> QED BY <2>4, <3>1, <3>2, RespondPromise, Zenon
  <2>5. CASE Crash
    <3>1. CASE Told' = Told BY <2>1, <2>5, <3>1, CrashPromise, Zenon
    <3>2. ASSUME NEW S \in SUBSET GroupJobs, S # {}, \A j \in S : Told[j] = "none",
                 Told' = [j \in GroupJobs |-> IF j \in S THEN "lost" ELSE Told[j]]
          PROVE  Promise!Next
      <4>1. Promise!Lose(S)
            BY <2>5, <3>2, CrashPromise, Zenon DEF Promise!Lose, Durable, Told
      <4> QED BY <4>1, Zenon DEF Promise!Next
    <3> QED BY <2>5, <3>1, <3>2, CrashPromise, Zenon
  <2> QED BY <2>1, <2>2, <2>3, <2>4, <2>5, OtherSteps, Zenon
<1> QED BY <1>1, <1>2, Invariant, PTL DEF Spec, KeepsPromise, Promise!Spec

-----------------------------------------------------------------------------
(* Failure domains.                                                        *)

\* Who is blamed while a batch runs: of the jobs with a result those that have
\* failed, the current job between its failure and its result, nobody who
\* waits for a turn.
Blame ==
    /\ \A j \in GroupJobs :
          answer[j] = "none" /\ (\A i \in 1 .. Len(group) : group[i] # j) => j \notin blamed
    /\ phase \in InGroup =>
          /\ \A i \in 1 .. Len(results) : results[i] = "ok" <=> group[i] \notin blamed
          /\ \A i \in 1 .. Len(group) :
                i > Len(results) /\ (phase = "undo" => i # Len(results) + 1)
                   => group[i] \notin blamed
          /\ phase = "undo" => Current \in blamed
    /\ phase = "respond" /\ group[1] \in GroupJobs =>
          \A i \in 1 .. Len(results) :
             /\ results[i] = "ok" => group[i] \notin blamed
             /\ results[i] = "err" /\ (\E k \in 1 .. Len(results) : results[k] = "ok")
                   => group[i] \in blamed

\* One more result: an error for the job that is blamed, else a success.
LEMMA FinishBlame ==
    ASSUME IInv, Blame, NEW r \in {"ok", "err"}, FinishJob(r),
           phase \in {"undo", "release"}, r = "err" <=> phase = "undo"
    PROVE  Blame'
<1>1. /\ results' = Append(results, r) /\ UNCHANGED <<group, blamed, answer>>
      BY Zenon DEF FinishJob
<1>2. results \in Seq({"ok", "err"}) /\ Len(results) \in Nat /\ Len(group) \in Nat
      BY DEF IInv, TypeOK
<1>3. /\ Len(results') = Len(results) + 1
      /\ \A i \in 1 .. Len(results) : results'[i] = results[i]
      /\ results'[Len(results) + 1] = r
      BY <1>1, <1>2
<1>4. phase' \in {"savepoint", "commit"} BY FinishedJob, Zenon
<1>5. Len(results) + 1 \in 1 .. Len(group) BY CurrentJob, Zenon
<1>6. group[Len(results) + 1] \in blamed <=> phase = "undo"
      BY <1>2, <1>5 DEF Blame, InGroup, Current
<1>7. ASSUME NEW i \in 1 .. Len(results') PROVE results'[i] = "ok" <=> group[i] \notin blamed
  <2>1. CASE i = Len(results) + 1 BY <1>3, <1>6, <2>1, Zenon
  <2>2. CASE i # Len(results) + 1
    <3>1. i \in 1 .. Len(results) BY <1>2, <1>3, <2>2
    <3> QED BY <1>3, <3>1, Zenon DEF Blame, InGroup
  <2> QED BY <2>1, <2>2, Zenon
<1>8. ASSUME NEW i \in 1 .. Len(group), i > Len(results') PROVE group[i] \notin blamed
  <2>1. i > Len(results) /\ i # Len(results) + 1 BY <1>2, <1>3, <1>8
  <2> QED BY <2>1, Zenon DEF Blame, InGroup
<1> QED BY <1>1, <1>4, <1>7, <1>8, Zenon DEF Blame, InGroup

\* A failing statement blames its job, which no other place of the batch has.
LEMMA FailBlame == ASSUME IInv, Blame, StatementFails PROVE Blame'
<1>1. /\ phase = "statement" /\ phase' = "undo" /\ blamed' = blamed \union {Current}
      /\ UNCHANGED <<group, results, answer>>
      BY Zenon DEF StatementFails
<1>2. Len(results) \in Nat /\ Len(group) \in Nat BY DEF IInv, TypeOK
<1>3. Len(results) + 1 \in 1 .. Len(group) /\ Current' = Current
      BY <1>1, CurrentJob, Zenon DEF Current
<1>4. \A i \in 1 .. Len(group) : i # Len(results) + 1 => group[i] # Current
      BY <1>3, Zenon DEF IInv, Batch, Current
<1>5. \A i \in 1 .. Len(results) : i \in 1 .. Len(group) /\ i # Len(results) + 1
      BY <1>2, <1>3
<1>6. \A j \in GroupJobs : (\A i \in 1 .. Len(group) : group[i] # j) => j # Current
      BY <1>3, Zenon DEF Current
<1>7. /\ \A i \in 1 .. Len(results) : results[i] = "ok" <=> group[i] \notin blamed'
      /\ \A i \in 1 .. Len(group) :
            i > Len(results) /\ i # Len(results) + 1 => group[i] \notin blamed'
      BY <1>1, <1>4, <1>5, Zenon DEF Blame, InGroup
<1>8. \A j \in GroupJobs :
          answer[j] = "none" /\ (\A i \in 1 .. Len(group) : group[i] # j) => j \notin blamed'
      BY <1>1, <1>6, Zenon DEF Blame
<1> QED BY <1>1, <1>3, <1>7, <1>8, Zenon DEF Blame, InGroup

\* Answers leave the blame for the rest of the batch as it is.
LEMMA RespondBlame == ASSUME IInv, Blame, Respond PROVE Blame'
<1>1. /\ phase = "respond" /\ phase' = IF Len(group) = 1 THEN "idle" ELSE "respond"
      /\ UNCHANGED blamed
      BY Zenon DEF Respond
<1>2. ASSUME NEW j \in GroupJobs, answer'[j] = "none",
             \A i \in 1 .. Len(group') : group'[i] # j
      PROVE  j \notin blamed
  <2>1. j \in Jobs /\ answer'[j] = IF j = group[1] THEN results[1] ELSE answer[j]
        BY Rest, Zenon DEF IInv, TypeOK, Jobs
  <2>2. j # group[1] /\ answer[j] = "none" BY <1>2, <2>1, Rest, Zenon
  <2>3. ASSUME NEW i \in 1 .. Len(group) PROVE group[i] # j
    <3>1. CASE i = 1 BY <2>2, <3>1, Zenon
    <3>2. CASE i # 1
      <4>1. i - 1 \in 1 .. Len(group') /\ group'[i - 1] = group[i] BY <3>2, Rest, Zenon
      <4> QED BY <1>2, <4>1, Zenon
    <3> QED BY <3>1, <3>2, Zenon
  <2> QED BY <2>2, <2>3, Zenon DEF Blame
<1>3. ASSUME phase' = "respond", NEW i \in 1 .. Len(results')
      PROVE  /\ results'[i] = "ok" => group'[i] \notin blamed
             /\ results'[i] = "err" /\ (\E k \in 1 .. Len(results') : results'[k] = "ok")
                   => group'[i] \in blamed
  <2>1. Len(group) # 1 /\ Len(results) = Len(group)
        BY <1>1, <1>3, Zenon DEF IInv, Batch
  <2>2. group[1] \in GroupJobs BY <2>1, Rest, Zenon DEF IInv, Batch
  <2>3. \A k \in 1 .. Len(results') : /\ k + 1 \in 1 .. Len(results)
                                    /\ group'[k] = group[k + 1]
                                    /\ results'[k] = results[k + 1]
        BY <2>1, Rest, Zenon
  <2> QED BY <1>1, <2>2, <2>3, Zenon DEF Blame
<1> QED BY <1>1, <1>2, <1>3, Zenon DEF Blame, InGroup

\* The steps between batches and those that answer all jobs of one alike.
LEMMA BatchBlame ==
    ASSUME IInv, Blame, \/ TakeGroup \/ TakeExclusive \/ CallbackReturn \/ CommitOk \/ Crash
                        \/ BeginFails \/ SavepointFails \/ UndoFails \/ ReleaseFails
                        \/ CommitFails
    PROVE  Blame'
<1>1. /\ DOMAIN group = 1 .. Len(group) /\ Len(group) \in Nat /\ Len(results) \in Nat
      /\ group \in Seq(Jobs)
      BY DEF IInv, TypeOK
<1>2. CASE TakeGroup
  <2>1. /\ phase = "idle" /\ phase' = "begin" /\ UNCHANGED <<results, blamed, answer>>
        /\ group = <<>> /\ results = <<>>
        BY <1>2, Zenon DEF TakeGroup, IInv, Batch
  <2>2. \A j \in GroupJobs : answer[j] = "none" => j \notin blamed
        BY <2>1 DEF Blame
  <2>3. IInv' BY <1>2, TakeGroupStep, Zenon
  <2>4. \A i \in 1 .. Len(group') : group'[i] \in GroupJobs /\ answer[group'[i]] = "none"
        BY <2>1, <2>3, Zenon DEF IInv, Batch, InGroup
  <2> QED BY <2>1, <2>2, <2>4 DEF Blame, InGroup
<1>3. CASE TakeExclusive
  <2>1. /\ phase = "idle" /\ phase' = "callback" /\ UNCHANGED <<blamed, answer>>
        /\ group = <<>>
        BY <1>3, Zenon DEF TakeExclusive, IInv, Batch
  <2>2. \A j \in GroupJobs : answer[j] = "none" => j \notin blamed
        BY <2>1 DEF Blame
  <2> QED BY <2>1, <2>2, Zenon DEF Blame, InGroup
<1>4. CASE CallbackReturn
  <2>1. /\ phase = "callback" /\ phase' = "respond" /\ UNCHANGED <<group, blamed, answer>>
        BY <1>4, Zenon DEF CallbackReturn
  <2>2. group[1] \notin GroupJobs BY <2>1, JobsAssumption, Zenon DEF IInv, Batch
  <2> QED BY <2>1, <2>2, Zenon DEF Blame, InGroup
<1>5. CASE CommitOk
  <2>1. /\ phase = "commit" /\ phase' = "respond"
        /\ UNCHANGED <<group, results, blamed, answer>>
        BY <1>5, Zenon DEF CommitOk
  <2> QED BY <2>1, Zenon DEF Blame, InGroup
<1>6. CASE Crash
  <2>1. /\ phase' = "idle" /\ UNCHANGED blamed
        /\ \A j \in GroupJobs : answer'[j] = IF \E i \in 1 .. Len(group) : group[i] = j
                                            THEN "lost" ELSE answer[j]
        BY <1>1, <1>6, Zenon DEF Crash, Jobs
  <2> QED BY <2>1, Zenon DEF Blame, InGroup
<1>7. CASE BeginFails \/ SavepointFails \/ UndoFails \/ ReleaseFails \/ CommitFails
  <2>1. /\ phase' = "respond" /\ results' = AllErr(group)
        /\ UNCHANGED <<group, blamed, answer>>
        BY <1>7, Zenon DEF BeginFails, SavepointFails, UndoFails, ReleaseFails, CommitFails, Fatal
  <2>2. Len(results') = Len(group) /\ \A i \in 1 .. Len(group) : results'[i] = "err"
        BY <1>1, <2>1 DEF AllErr
  <2> QED BY <2>1, <2>2, Zenon DEF Blame, InGroup
<1> QED BY <1>2, <1>3, <1>4, <1>5, <1>6, <1>7, Zenon

\* Group commit keeps failure domains apart, for groups of any size: in a
\* committed group exactly the jobs with a failed statement are refused.
THEOREM OwnFailuresOnly == Spec => []FailuresIsolated
<1>1. Init => Blame BY Zenon DEF Init, Blame, InGroup
<1>2. IInv /\ Blame /\ [Next]_vars => Blame'
  <2> SUFFICES ASSUME IInv, Blame, [Next]_vars PROVE Blame'
      BY Zenon
  <2>1. CASE UNCHANGED vars BY <2>1, Zenon DEF Blame, vars, Current
  <2>2. CASE BeginOk \/ SavepointOk \/ StatementOk
    <3>1. /\ phase \in InGroup \ {"undo"} /\ phase' \in InGroup \ {"undo"}
          /\ UNCHANGED <<group, results, blamed, answer>>
          BY <2>2, Zenon DEF BeginOk, SavepointOk, StatementOk, NextStatement, InGroup
    <3> QED BY <3>1, Zenon DEF Blame, InGroup
  <2>3. CASE CallbackStatement \/ CallbackBegin \/ CallbackCommit
    <3>1. phase = "callback" /\ UNCHANGED <<phase, group, results, blamed, answer>>
          BY <2>3, Zenon DEF CallbackStatement, CallbackBegin, CallbackCommit, InCallback
    <3> QED BY <3>1, Zenon DEF Blame, InGroup
  <2>4. CASE UndoOk BY <2>4, FinishBlame, Zenon DEF UndoOk
  <2>5. CASE ReleaseOk BY <2>5, FinishBlame, Zenon DEF ReleaseOk
  <2> QED BY <2>1, <2>2, <2>3, <2>4, <2>5, FailBlame, RespondBlame, BatchBlame, Zenon
          DEF Next, Group, Exclusive
<1>3. IInv /\ Blame => FailuresIsolated
  <2> SUFFICES ASSUME IInv, Blame, phase = "respond", Head(group) \in GroupJobs
               PROVE  \A i \in DOMAIN results :
                         /\ results[i] = "ok" => group[i] \notin blamed
                         /\ results[i] = "err" /\ (\E k \in DOMAIN results : results[k] = "ok")
                               => group[i] \in blamed
      BY Zenon DEF FailuresIsolated
  <2>1. DOMAIN results = 1 .. Len(results) /\ Head(group) = group[1]
        BY DEF IInv, TypeOK, Batch
  <2> QED BY <2>1, Zenon DEF Blame
<1> QED BY <1>1, <1>2, <1>3, Invariant, PTL DEF Spec

=============================================================================
