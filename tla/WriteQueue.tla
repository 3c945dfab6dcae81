----------------------------- MODULE WriteQueue -----------------------------
(***************************************************************************)
(* The write path of DatabasePool (crates/csgdb/src/pool.rs): submitting   *)
(* threads, the bounded queue behind one mutex and two condition           *)
(* variables, the single writer thread that drains it (alone for an        *)
(* exclusive job, in groups for groupable ones), the handles that keep the *)
(* pool alive and the shutdown run by the last of them.                    *)
(*                                                                         *)
(* Each critical section of the mutex is one action.  A job is named by    *)
(* its submitting thread, which is blocked until the job is answered and   *)
(* so has at most one.  What a job does to the database is in GroupCommit. *)
(***************************************************************************)
EXTENDS Integers, Sequences, FiniteSets

CONSTANTS Threads,   \* threads of the application
          Capacity,  \* PoolOptions::write_queue_capacity
          MaxJobs    \* GroupCommitOptions::max_jobs

ASSUME CapacityAssumption == Capacity \in Nat \ {0}
ASSUME MaxJobsAssumption == MaxJobs \in Nat \ {0}
ASSUME ThreadsAssumption == IsFiniteSet(Threads) /\ Threads # {}

VARIABLES
    handles,     \* threads that own a clone of the pool
    pc,          \* where each thread is in its current call
    call,        \* the call of each thread: job kind and backpressure policy
    jobs,        \* WriteQueueState::jobs, as the submitting threads
    accepting,   \* WriteQueueState::accepting
    wpc,         \* where the writer thread is
    batch,       \* jobs the writer popped and has not answered yet
    responses,   \* threads whose response channel holds the answer
    unfinished,  \* write_jobs_submitted - write_jobs_completed
    shut         \* the step of PoolInner::shutdown reached

vars == <<handles, pc, call, jobs, accepting, wpc, batch, responses,
          unfinished, shut>>

\* write, try_write and write_with_policy submit exclusive jobs under any
\* policy; execute and execute_transaction submit groupable jobs and wait.
Calls == [kind : {"exclusive"}, policy : {"wait", "reject", "timeout"}]
         \union [kind : {"groupable"}, policy : {"wait"}]

NoCall == [kind |-> "groupable", policy |-> "wait"]

Outcomes == {"full", "timedout", "closed", "answered"}
PCs == {"idle", "waiting", "woken", "expired", "pushed", "recv", "inuse",
        "shutdown"} \union Outcomes
WPCs == {"pop", "waitEmpty", "waitGroup", "collect", "expired", "exec",
         "respond", "done"}

Groupable(t) == call[t].kind = "groupable"
Elements(s) == {s[i] : i \in DOMAIN s}
InCall(t) == pc[t] \notin {"idle", "shutdown"}

TypeOK ==
    /\ handles \subseteq Threads
    /\ pc \in [Threads -> PCs]
    /\ call \in [Threads -> Calls]
    /\ jobs \in Seq(Threads)
    /\ accepting \in BOOLEAN
    /\ wpc \in WPCs
    /\ batch \in Seq(Threads)
    /\ responses \subseteq Threads
    /\ unfinished \in Int
    /\ shut \in {"open", "close", "join", "readers", "closed"}

\* The pool has just been opened by one thread; the writer is at its first pop.
Init ==
    /\ \E t \in Threads : handles = {t}
    /\ pc = [t \in Threads |-> "idle"]
    /\ call = [t \in Threads |-> NoCall]
    /\ jobs = <<>>
    /\ accepting = TRUE
    /\ wpc = "pop"
    /\ batch = <<>>
    /\ responses = {}
    /\ unfinished = 0
    /\ shut = "open"

-----------------------------------------------------------------------------
(* Submitting threads.                                                     *)

\* Mutant: one more job than the capacity fits.
FullLate == Len(jobs) > Capacity

Full == Len(jobs) >= Capacity
Admission == IF accepting THEN "pushed" ELSE "closed"

\* What one pass of push through its critical section decides, before and
\* after a wait.  Reject looks at the length before it looks at `accepting`.
PushDecision(policy) ==
    IF ~Full THEN Admission
    ELSE IF policy = "reject" THEN "full"
    ELSE IF accepting THEN "waiting" ELSE "closed"

\* Mutant: every wait starts the whole timeout anew.
ResumeDecisionsRestarted(t) == {PushDecision(call[t].policy)}

\* After a wait a Timeout call that finds the queue still full gives up when
\* its wait timed out or its time has elapsed by now.
ResumeDecisions(t) ==
    IF call[t].policy = "timeout" /\ Full
    THEN {"timedout"} \union (IF pc[t] = "woken" THEN {PushDecision("timeout")}
                              ELSE {})
    ELSE {PushDecision(call[t].policy)}

\* Mutant: a call that timed out leaves its job in the queue.
LeaveQueued(t, decision) ==
    /\ pc' = [pc EXCEPT ![t] = decision]
    /\ jobs' = IF decision \in {"pushed", "timedout"} THEN Append(jobs, t) ELSE jobs

Leave(t, decision) ==
    /\ pc' = [pc EXCEPT ![t] = decision]
    /\ jobs' = IF decision = "pushed" THEN Append(jobs, t) ELSE jobs

Push(t, c) ==
    /\ t \in handles /\ pc[t] = "idle"
    /\ call' = [call EXCEPT ![t] = c]
    /\ Leave(t, PushDecision(c.policy))
    /\ UNCHANGED <<handles, accepting, wpc, batch, responses, unfinished, shut>>

Resume(t) ==
    /\ pc[t] \in {"woken", "expired"}
    /\ \E d \in ResumeDecisions(t) : Leave(t, d)
    /\ UNCHANGED <<handles, call, accepting, wpc, batch, responses, unfinished,
                   shut>>

\* Condvar::wait may return without a notification.
SpuriousWake(t) ==
    /\ pc[t] = "waiting"
    /\ pc' = [pc EXCEPT ![t] = "woken"]
    /\ UNCHANGED <<handles, call, jobs, accepting, wpc, batch, responses,
                   unfinished, shut>>

PushTimeout(t) ==
    /\ pc[t] = "waiting" /\ call[t].policy = "timeout"
    /\ pc' = [pc EXCEPT ![t] = "expired"]
    /\ UNCHANGED <<handles, call, jobs, accepting, wpc, batch, responses,
                   unfinished, shut>>

\* Mutant: not_empty.notify_one is forgotten.
WakeWriterForgotten == UNCHANGED wpc

WakeWriter ==
    wpc' = CASE wpc = "waitEmpty" -> "pop"
             [] wpc = "waitGroup" -> "collect"
             [] OTHER -> wpc

\* The submission counter and notify_one, both after the mutex is released.
NotifyWriter(t) ==
    /\ pc[t] = "pushed"
    /\ pc' = [pc EXCEPT ![t] = "recv"]
    /\ unfinished' = unfinished + 1
    /\ WakeWriter
    /\ UNCHANGED <<handles, call, jobs, accepting, batch, responses, shut>>

Receive(t) ==
    /\ pc[t] = "recv" /\ t \in responses
    /\ pc' = [pc EXCEPT ![t] = "answered"]
    /\ responses' = responses \ {t}
    /\ UNCHANGED <<handles, call, jobs, accepting, wpc, batch, unfinished, shut>>

Return(t) ==
    /\ pc[t] \in Outcomes
    /\ pc' = [pc EXCEPT ![t] = "idle"]
    /\ call' = [call EXCEPT ![t] = NoCall]
    /\ UNCHANGED <<handles, jobs, accepting, wpc, batch, responses,
                   unfinished, shut>>

-----------------------------------------------------------------------------
(* The writer thread.                                                      *)

\* Mutant: not_full.notify_all is forgotten.
WakeSubmittersForgotten == UNCHANGED pc

\* not_full.notify_all, called by every removal from the queue.
WakeSubmitters ==
    pc' = [t \in Threads |-> IF pc[t] = "waiting" THEN "woken" ELSE pc[t]]

PopNothing ==
    /\ wpc = "pop" /\ jobs = <<>>
    /\ wpc' = IF accepting THEN "waitEmpty" ELSE "done"
    /\ UNCHANGED <<handles, pc, call, jobs, accepting, batch, responses,
                   unfinished, shut>>

PopExclusive ==
    /\ wpc = "pop" /\ jobs # <<>> /\ ~Groupable(Head(jobs))
    /\ batch' = <<Head(jobs)>>
    /\ jobs' = Tail(jobs)
    /\ WakeSubmitters
    /\ wpc' = "exec"
    /\ UNCHANGED <<handles, call, accepting, responses, unfinished, shut>>

\* Mutant: whatever is queued joins the group.
CollectableAnyKind(n) ==
    /\ Len(batch) + n =< MaxJobs
    /\ n < Len(jobs) => Len(batch) + n = MaxJobs

\* n is how many jobs the collection loop takes: the groupable jobs at the
\* front of the queue, as long as the group has room.
Collectable(n) ==
    /\ Len(batch) + n =< MaxJobs
    /\ \A i \in 1 .. n : Groupable(jobs[i])
    /\ n < Len(jobs) /\ Len(batch) + n < MaxJobs => ~Groupable(jobs[n + 1])

\* With room left, nothing queued and the queue open, the writer waits for
\* more unless its deadline has passed (at once when max_delay is zero).
AfterCollecting(n) ==
    IF /\ n = Len(jobs) /\ Len(batch) + n < MaxJobs
       /\ accepting /\ wpc # "expired"
    THEN {"exec", "waitGroup"} ELSE {"exec"}

CollectGroup ==
    /\ \/ wpc = "pop" /\ jobs # <<>> /\ Groupable(Head(jobs))
       \/ wpc \in {"collect", "expired"}
    /\ \E n \in 0 .. Len(jobs) :
          /\ Collectable(n)
          /\ batch' = batch \o SubSeq(jobs, 1, n)
          /\ jobs' = SubSeq(jobs, n + 1, Len(jobs))
          /\ IF n > 0 THEN WakeSubmitters ELSE UNCHANGED pc
          /\ wpc' \in AfterCollecting(n)
    /\ UNCHANGED <<handles, call, accepting, responses, unfinished, shut>>

SpuriousWriterWake ==
    /\ wpc \in {"waitEmpty", "waitGroup"}
    /\ WakeWriter
    /\ UNCHANGED <<handles, pc, call, jobs, accepting, batch, responses,
                   unfinished, shut>>

GroupDeadline ==
    /\ wpc = "waitGroup"
    /\ wpc' = "expired"
    /\ UNCHANGED <<handles, pc, call, jobs, accepting, batch, responses,
                   unfinished, shut>>

\* Mutant: a group counts as one job.
ExecuteCountsGroup ==
    /\ wpc = "exec"
    /\ wpc' = "respond"
    /\ unfinished' = unfinished - 1
    /\ UNCHANGED <<handles, pc, call, jobs, accepting, batch, responses, shut>>

\* The database work, the maintenance after it and the completion counter.
Execute ==
    /\ wpc = "exec"
    /\ wpc' = "respond"
    /\ unfinished' = unfinished - Len(batch)
    /\ UNCHANGED <<handles, pc, call, jobs, accepting, batch, responses, shut>>

\* Mutant: the newest job first.
RespondNewestFirst ==
    /\ wpc = "respond"
    /\ responses' = responses \union {batch[Len(batch)]}
    /\ batch' = SubSeq(batch, 1, Len(batch) - 1)
    /\ wpc' = IF Len(batch) = 1 THEN "pop" ELSE "respond"
    /\ UNCHANGED <<handles, pc, call, jobs, accepting, unfinished, shut>>

\* One send on the response channel of the oldest job of the batch.
Respond ==
    /\ wpc = "respond"
    /\ responses' = responses \union {Head(batch)}
    /\ batch' = Tail(batch)
    /\ wpc' = IF Len(batch) = 1 THEN "pop" ELSE "respond"
    /\ UNCHANGED <<handles, pc, call, jobs, accepting, unfinished, shut>>

-----------------------------------------------------------------------------
(* Handles and shutdown.                                                   *)

Clone(t, u) ==
    /\ t \in handles /\ pc[t] = "idle"
    /\ u \notin handles /\ pc[u] = "idle"
    /\ handles' = handles \union {u}
    /\ UNCHANGED <<pc, call, jobs, accepting, wpc, batch, responses, unfinished,
                   shut>>

\* Mutant: close does not look for other handles.
CloseAnyway(t) ==
    /\ t \in handles /\ pc[t] = "idle"
    /\ handles' = handles \ {t}
    /\ pc' = [pc EXCEPT ![t] = "shutdown"]
    /\ shut' = "close"
    /\ UNCHANGED <<call, jobs, accepting, wpc, batch, responses, unfinished>>

\* DatabasePool::close: Arc::try_unwrap succeeds for the only handle; otherwise
\* the caller gets ConnectionManagerInUse and its handle is dropped after that.
Close(t) ==
    /\ t \in handles /\ pc[t] = "idle"
    /\ IF handles = {t}
       THEN /\ handles' = {}
            /\ pc' = [pc EXCEPT ![t] = "shutdown"]
            /\ shut' = "close"
       ELSE /\ pc' = [pc EXCEPT ![t] = "inuse"]
            /\ UNCHANGED <<handles, shut>>
    /\ UNCHANGED <<call, jobs, accepting, wpc, batch, responses, unfinished>>

\* Dropping the last handle runs Drop for PoolInner.
DropHandle(t) ==
    /\ t \in handles /\ pc[t] \in {"idle", "inuse"}
    /\ handles' = handles \ {t}
    /\ IF handles = {t}
       THEN pc' = [pc EXCEPT ![t] = "shutdown"] /\ shut' = "close"
       ELSE pc' = [pc EXCEPT ![t] = "idle"] /\ UNCHANGED shut
    /\ UNCHANGED <<call, jobs, accepting, wpc, batch, responses, unfinished>>

\* Mutant: the writer asleep on an empty queue is not told.
CloseQueueSilently ==
    /\ shut = "close"
    /\ accepting' = FALSE
    /\ WakeSubmitters
    /\ shut' = "join"
    /\ UNCHANGED <<handles, call, jobs, wpc, batch, responses, unfinished>>

CloseQueue ==
    /\ shut = "close"
    /\ accepting' = FALSE
    /\ WakeWriter
    /\ WakeSubmitters
    /\ shut' = "join"
    /\ UNCHANGED <<handles, call, jobs, batch, responses, unfinished>>

JoinWriter ==
    /\ shut = "join" /\ wpc = "done"
    /\ shut' = "readers"
    /\ UNCHANGED <<handles, pc, call, jobs, accepting, wpc, batch, responses,
                   unfinished>>

CloseReaders ==
    /\ shut = "readers"
    /\ shut' = "closed"
    /\ pc' = [t \in Threads |-> IF pc[t] = "shutdown" THEN "idle" ELSE pc[t]]
    /\ UNCHANGED <<handles, call, jobs, accepting, wpc, batch, responses,
                   unfinished>>

\* The pool is gone; the threads live on without it.
Closed == shut = "closed" /\ UNCHANGED vars

-----------------------------------------------------------------------------

Submitter(t) ==
    \/ \E c \in Calls : Push(t, c)
    \/ Resume(t) \/ SpuriousWake(t) \/ PushTimeout(t)
    \/ NotifyWriter(t) \/ Receive(t) \/ Return(t)
    \/ \E u \in Threads : Clone(t, u)
    \/ Close(t) \/ DropHandle(t)

Pop == PopNothing \/ PopExclusive \/ CollectGroup
Writer == Pop \/ Execute \/ Respond
Shutdown == CloseQueue \/ JoinWriter \/ CloseReaders

Next ==
    \/ \E t \in Threads : Submitter(t)
    \/ Writer \/ SpuriousWriterWake \/ GroupDeadline
    \/ Shutdown \/ Closed

\* The next step of a thread inside a call that does not sleep; at most one of
\* these is possible.
Proceed(t) == \/ Resume(t) \/ NotifyWriter(t) \/ Receive(t) \/ Return(t)
              \/ pc[t] = "inuse" /\ DropHandle(t)

\* A thread inside a call keeps running, and so do the writer and the thread
\* in shutdown.  A deadline is a fixed instant, so waking up early again and
\* again does not postpone it for ever: hence strong fairness.  Nothing makes
\* a thread start a call, clone, close or drop a handle.
Fairness ==
    /\ WF_vars(Writer) /\ SF_vars(GroupDeadline) /\ WF_vars(Shutdown)
    /\ \A t \in Threads : WF_vars(Proceed(t)) /\ SF_vars(PushTimeout(t))

Spec == Init /\ [][Next]_vars
FairSpec == Spec /\ Fairness

-----------------------------------------------------------------------------
(* Properties.                                                             *)

Pending(t) == pc[t] \in {"pushed", "recv"}
Pipeline == batch \o jobs

\* The queue never holds more jobs than its capacity, although a submitter
\* re-checks the length only after it has been woken and others may have
\* pushed in between (WriteQueue::push).
QueueBounded == Len(jobs) =< Capacity

\* A thread sleeps on a condition variable only while somebody is bound to
\* wake it: the writer never sleeps on a non-empty queue unless a submitter is
\* between its push and its notify_one (which happens outside the mutex), no
\* submitter sleeps while the queue has room, and nobody sleeps on a closed
\* queue.
NoLostWakeup ==
    /\ wpc \in {"waitEmpty", "waitGroup"} =>
          /\ accepting
          /\ jobs # <<>> => \E t \in Threads : pc[t] = "pushed"
    /\ \A t \in Threads : pc[t] = "waiting" => accepting /\ Full

\* Every admitted job is in exactly one place until its submitter has the
\* answer: once in the queue, once in the writer's batch, or once in its
\* response channel.  No job is lost, run twice or answered twice, whatever
\* the grouping.
JobInOnePlace ==
    /\ \A i, j \in DOMAIN Pipeline : Pipeline[i] = Pipeline[j] => i = j
    /\ Elements(Pipeline) \intersect responses = {}
    /\ Elements(Pipeline) \union responses = {t \in Threads : Pending(t)}

\* An exclusive job is a barrier: it is alone in its batch, so it never shares
\* the transaction of a group; and a group respects max_jobs.
ExclusiveAlone ==
    /\ Len(batch) =< MaxJobs
    /\ (\E i \in DOMAIN batch : ~Groupable(batch[i])) => Len(batch) = 1

\* Shutdown is run by the thread that gave up the last handle, so it finds no
\* call in progress and nothing queued: the ConnectionManagerClosed exits of
\* push and recv are never taken, and the writer stops with nothing undone.
NoCallSeesShutdown ==
    /\ \A t \in Threads : pc[t] # "closed"
    /\ shut # "open" =>
          /\ handles = {} /\ Pipeline = <<>> /\ responses = {}
          /\ \A t \in Threads : ~InCall(t)
    /\ wpc = "done" => shut # "open"

\* The counters that stats() exports agree with the jobs in flight, up to the
\* submitters that have pushed and not counted yet (the counter is bumped
\* after the mutex is released, so completed may overtake submitted).
StatsBalance ==
    LET running == Elements(IF wpc = "respond" THEN jobs ELSE Pipeline)
    IN  unfinished = Cardinality(running)
                     - Cardinality({t \in Threads : pc[t] = "pushed"})

(* The facts behind those invariants that make them inductive.             *)

\* The writer holds jobs exactly from a successful pop to the last response,
\* and is done only when a closed queue is empty.
WriterShape ==
    /\ wpc \in {"pop", "waitEmpty", "done"} <=> batch = <<>>
    /\ wpc = "done" => ~accepting /\ jobs = <<>>

\* A call borrows the handle of its thread; the last handle starts shutdown.
HandleShape ==
    /\ \A t \in Threads : InCall(t) => t \in handles /\ pc[t] # "closed"
    /\ shut = "open" <=> handles # {}
    /\ accepting <=> shut \in {"open", "close"}

\* The batch of a writer that still collects is a group.
GroupShape ==
    wpc \in {"waitGroup", "collect", "expired"} =>
       \A i \in DOMAIN batch : Groupable(batch[i])

IInv ==
    /\ TypeOK /\ QueueBounded /\ NoLostWakeup /\ JobInOnePlace
    /\ WriterShape /\ HandleShape /\ GroupShape /\ ExclusiveAlone

\* The pool keeps the promise of SerialWriter: first in, first answered, once.
SW == INSTANCE SerialWriter WITH line <- Pipeline, answered <- responses
ServesInOrder == SW!Spec

\* A submitter asleep on a full queue is woken again: every removal notifies.
WaitersWoken == \A t \in Threads : pc[t] = "waiting" ~> pc[t] # "waiting"

\* A call with a deadline returns, admitted or not: push gives up once its
\* time has elapsed and an admitted job is answered.
TimedCallsReturn ==
    \A t \in Threads : (InCall(t) /\ call[t].policy = "timeout") ~> ~InCall(t)

\* Shutdown never hangs: the writer leaves its condition variable, drains and
\* stops, so the thread that closes or drops the last handle gets through.
ShutdownCompletes == shut = "close" ~> shut = "closed"

=============================================================================
