------------------------------ MODULE ReadPool ------------------------------
(***************************************************************************)
(* The read side of DatabasePool (crates/csgdb/src/pool.rs): a fixed set   *)
(* of read connections lent to read callbacks under one mutex and one      *)
(* condition variable, and the thread-local marks by which a callback that *)
(* calls back into its own pool is refused instead of waiting for itself.  *)
(* Write jobs appear only as far as their callbacks use the read side; the *)
(* queue they go through is in WriteQueue.                                 *)
(***************************************************************************)
EXTENDS Integers, Sequences, FiniteSets

CONSTANTS Connections,  \* the read connections of the pool
          Threads,      \* all threads, the writer among them
          Writer,       \* the csgdb-writer thread
          None          \* no connection, no thread

ASSUME ConnectionsAssumption == IsFiniteSet(Connections) /\ None \notin Connections
ASSUME ThreadsAssumption == IsFiniteSet(Threads) /\ Writer \in Threads
                            /\ None \notin Threads

VARIABLES
    connections,  \* ReadPool::connections, a stack of idle connections
    active,       \* ReadPool::active
    lease,        \* the connection each thread has checked out, or None
    marked,       \* is the pool in the thread's READ_CALLBACK_POOLS?
    pc,           \* running, asleep on `available`, woken, or in recv
    running       \* the thread whose write job the writer runs, or None

vars == <<connections, active, lease, marked, pc, running>>

TypeOK ==
    /\ connections \in Seq(Connections)
    /\ active \in Int
    /\ lease \in [Threads -> Connections \union {None}]
    /\ marked \in [Threads -> BOOLEAN]
    /\ pc \in [Threads -> {"run", "waiting", "woken", "submitted"}]
    /\ running \in Threads \union {None}

IsEnumeration(s, S) == Len(s) = Cardinality(S) /\ {s[i] : i \in DOMAIN s} = S

Init ==
    /\ connections \in [1 .. Cardinality(Connections) -> Connections]
    /\ IsEnumeration(connections, Connections)
    /\ active = 0
    /\ lease = [t \in Threads |-> None]
    /\ marked = [t \in Threads |-> FALSE]
    /\ pc = [t \in Threads |-> "run"]
    /\ running = None

-----------------------------------------------------------------------------

\* The writer runs application code only inside a write callback.
CanCall(t) == pc[t] = "run" /\ (t = Writer => running # None)

\* Mutant: the connection is read from the stack and not popped.
CheckoutPeeks(t) ==
    IF connections # <<>>
    THEN /\ lease' = [lease EXCEPT ![t] = connections[Len(connections)]]
         /\ active' = active + 1
         /\ pc' = [pc EXCEPT ![t] = "run"]
         /\ UNCHANGED connections
    ELSE /\ pc' = [pc EXCEPT ![t] = "waiting"]
         /\ UNCHANGED <<connections, active, lease>>

\* The loop body of checkout under the mutex.
Checkout(t) ==
    IF connections # <<>>
    THEN /\ lease' = [lease EXCEPT ![t] = connections[Len(connections)]]
         /\ connections' = SubSeq(connections, 1, Len(connections) - 1)
         /\ active' = active + 1
         /\ pc' = [pc EXCEPT ![t] = "run"]
    ELSE /\ pc' = [pc EXCEPT ![t] = "waiting"]
         /\ UNCHANGED <<connections, active, lease>>

\* DatabasePool::read.  Within its own callback the thread is marked and gets
\* ReentrantRead, which changes nothing.
Read(t) ==
    /\ CanCall(t) /\ ~marked[t]
    /\ marked' = [marked EXCEPT ![t] = TRUE]
    /\ Checkout(t)
    /\ UNCHANGED running

\* try_read: with no idle connection the mark is taken back and the call
\* returns ReadPoolExhausted, which changes nothing else.
TryRead(t) ==
    /\ connections # <<>>
    /\ Read(t)

Resume(t) ==
    /\ pc[t] = "woken"
    /\ Checkout(t)
    /\ UNCHANGED <<marked, running>>

SpuriousWake(t) ==
    /\ pc[t] = "waiting"
    /\ pc' = [pc EXCEPT ![t] = "woken"]
    /\ UNCHANGED <<connections, active, lease, marked, running>>

\* Mutant: a returned connection is announced only when the stack was empty.
NotifyOneWhenEmpty ==
    IF connections = <<>> /\ \E u \in Threads : pc[u] = "waiting"
    THEN \E u \in Threads : pc[u] = "waiting" /\ pc' = [pc EXCEPT ![u] = "woken"]
    ELSE UNCHANGED pc

\* available.notify_one wakes some sleeper, if there is one.
NotifyOne ==
    IF \E u \in Threads : pc[u] = "waiting"
    THEN \E u \in Threads : pc[u] = "waiting" /\ pc' = [pc EXCEPT ![u] = "woken"]
    ELSE UNCHANGED pc

\* Mutant: the mark comes off and the lease is not returned.
EndReadLeaks(t) ==
    /\ pc[t] = "run" /\ lease[t] # None
    /\ marked' = [marked EXCEPT ![t] = FALSE]
    /\ UNCHANGED <<connections, active, lease, pc, running>>

\* The callback returns or unwinds: Drop for ReadLease, then for the guard.
EndRead(t) ==
    /\ pc[t] = "run" /\ lease[t] # None
    /\ connections' = Append(connections, lease[t])
    /\ active' = active - 1
    /\ NotifyOne
    /\ lease' = [lease EXCEPT ![t] = None]
    /\ marked' = [marked EXCEPT ![t] = FALSE]
    /\ UNCHANGED running

\* Mutant: only the writer thread is refused.
MaySubmitFromRead(t) == t # Writer

\* write_internal and submit_groupable refuse a thread that is the writer or is
\* inside a read callback of this pool; any other blocks until it is answered.
MaySubmit(t) == t # Writer /\ ~marked[t]

SubmitWrite(t) ==
    /\ CanCall(t) /\ MaySubmit(t)
    /\ pc' = [pc EXCEPT ![t] = "submitted"]
    /\ UNCHANGED <<connections, active, lease, marked, running>>

StartJob(t) ==
    /\ running = None /\ pc[t] = "submitted"
    /\ running' = t
    /\ UNCHANGED <<connections, active, lease, marked, pc>>

\* The write callback is over, and with it every read it made.
FinishJob ==
    /\ running # None /\ pc[Writer] = "run" /\ lease[Writer] = None
    /\ pc' = [pc EXCEPT ![running] = "run"]
    /\ running' = None
    /\ UNCHANGED <<connections, active, lease, marked>>

-----------------------------------------------------------------------------

Next ==
    \/ \E t \in Threads : \/ Read(t) \/ TryRead(t) \/ Resume(t) \/ SpuriousWake(t)
                          \/ EndRead(t) \/ SubmitWrite(t) \/ StartJob(t)
    \/ FinishJob

\* Callbacks end and awake threads run; nothing makes a thread start a call,
\* and which thread gets the mutex first is not assumed to be fair.
Fairness == /\ \A t \in Threads : WF_vars(Resume(t)) /\ WF_vars(EndRead(t))
            /\ WF_vars(\E t \in Threads : StartJob(t)) /\ WF_vars(FinishJob)

Spec == Init /\ [][Next]_vars /\ Fairness

-----------------------------------------------------------------------------
(* Properties.                                                             *)

Sleepers == {t \in Threads : pc[t] = "waiting"}
Woken == {t \in Threads : pc[t] = "woken"}
Holders == {t \in Threads : lease[t] # None}
Idle == {connections[i] : i \in DOMAIN connections}

\* Every read connection is in exactly one place, idle once or lent to one
\* thread, and `active` counts the lent ones: no connection leaks or is used by
\* two callbacks at once, however callbacks end (checkout, Drop for ReadLease).
LeasesConserved ==
    /\ \A i, j \in DOMAIN connections : connections[i] = connections[j] => i = j
    /\ \A t, u \in Holders : lease[t] = lease[u] => t = u
    /\ Idle \intersect {lease[t] : t \in Holders} = {}
    /\ Idle \union {lease[t] : t \in Holders} = Connections
    /\ active = Cardinality(Holders)

\* notify_one per returned connection is enough although another thread may
\* take the connection before the woken one runs: while anybody sleeps, at
\* least as many threads are awake and on their way as connections are idle.
NoLostReturn == Sleepers # {} => Cardinality(Woken) >= Len(connections)

\* "avoids deadlock caused by a connection or the writer thread waiting for
\* itself" (docs/architecture.md:117): a thread that holds a read connection is
\* never blocked on the pool, and the writer never waits for its own queue.
NoSelfWait ==
    \A t \in Threads : pc[t] # "run" =>
        lease[t] = None /\ (t = Writer => pc[t] # "submitted")

\* A thread asleep for a connection does not sleep on a dead pool: a
\* connection comes back or some sleeper is woken.
ConnectionComesBack ==
    Sleepers # {} ~> connections # <<>> \/ Woken # {}

=============================================================================
