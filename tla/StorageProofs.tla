---------------------------- MODULE StorageProofs ----------------------------
(***************************************************************************)
(* What holds of the storage crate's read pool, of the maintenance of the  *)
(* write-ahead log and of the fault layer its tests open databases on, for *)
(* any connections, threads, readers, policies and files.                  *)
(***************************************************************************)
EXTENDS ReadPool, WalMaintenance, FaultVfs, Functions, FiniteSetTheorems, WellFoundedInduction,
        TLAPS

-----------------------------------------------------------------------------
(* The read pool: its inductive invariant.                                 *)

\* A lease and a wait for one belong to a marked thread, a lease to a running
\* one; the job the writer runs belongs to a thread that waits for its answer.
Calls ==
    /\ \A t \in Threads :
          /\ lease[t] # None => pc[t] = "run" /\ marked[t]
          /\ pc[t] \in {"waiting", "woken"} => marked[t]
          /\ pc[t] = "submitted" => t # Writer
    /\ running # None => pc[running] = "submitted"

IInv == TypeOK /\ Calls /\ LeasesConserved /\ NoLostReturn

\* The two changes of the stack: a thread takes the last connection, or puts
\* its own back.
Take(t) ==
    /\ connections # <<>> /\ lease[t] = None
    /\ lease' = [lease EXCEPT ![t] = connections[Len(connections)]]
    /\ connections' = SubSeq(connections, 1, Len(connections) - 1)
    /\ active' = active + 1

GiveBack(t) ==
    /\ lease[t] # None
    /\ connections' = Append(connections, lease[t])
    /\ lease' = [lease EXCEPT ![t] = None]
    /\ active' = active - 1

Kept == UNCHANGED <<connections, active, lease>>

-----------------------------------------------------------------------------

\* Sets of threads are finite, and their sizes are numbers.
LEMMA FiniteThreads ==
    ASSUME NEW S, S \subseteq Threads
    PROVE  IsFiniteSet(S) /\ Cardinality(S) \in Nat
<1>1. IsFiniteSet(S)
  BY FS_Subset, ThreadsAssumption, Zenon
<1> QED
  BY <1>1, FS_CardinalityType, Zenon

\* Every action does one of three things to the stack.
LEMMA StackStep ==
    ASSUME TypeOK, Calls, [Next]_vars
    PROVE  \/ \E t \in Threads : Take(t) \/ GiveBack(t)
           \/ Kept
<1>1. ASSUME NEW t \in Threads, lease[t] = None, Checkout(t)
      PROVE  Take(t) \/ Kept
  BY <1>1, Zenon DEF Checkout, Take, Kept
<1>2. ASSUME NEW t \in Threads, Read(t) \/ TryRead(t)
      PROVE  Take(t) \/ Kept
  <2>1. Checkout(t) /\ ~marked[t]
    BY <1>2, Zenon DEF Read, TryRead
  <2> QED
    BY <2>1, <1>1, Zenon DEF Calls
<1>3. ASSUME NEW t \in Threads, Resume(t)
      PROVE  Take(t) \/ Kept
  <2>1. lease[t] = None
    BY <1>3, Zenon DEF Calls, Resume
  <2> QED
    BY <1>3, <2>1, <1>1, Zenon DEF Resume
<1>4. ASSUME NEW t \in Threads, EndRead(t)
      PROVE  GiveBack(t)
  BY <1>4, Zenon DEF EndRead, GiveBack
<1>5. ASSUME NEW t \in Threads, SpuriousWake(t) \/ SubmitWrite(t) \/ StartJob(t)
      PROVE  Kept
  BY <1>5, Zenon DEF SpuriousWake, SubmitWrite, StartJob, Kept
<1>6. CASE FinishJob
  BY <1>6, Zenon DEF FinishJob, Kept
<1>7. CASE UNCHANGED vars
  BY <1>7, Zenon DEF vars, Kept
<1> QED
  BY <1>2, <1>3, <1>4, <1>5, <1>6, <1>7, Zenon DEF Next

-----------------------------------------------------------------------------
(* Leases                                                                  *)

\* Moving an element between the two parts of a set leaves them its parts.
LEMMA MovedElement ==
    ASSUME NEW A, NEW B, NEW S, NEW c \in A, A \intersect B = {}, A \union B = S
    PROVE  /\ (A \ {c}) \intersect (B \union {c}) = {}
           /\ (A \ {c}) \union (B \union {c}) = S
BY Zenon

\* Taking a connection moves it from the stack to the thread.
LEMMA TakeMoves ==
    ASSUME TypeOK, LeasesConserved, NEW t \in Threads, Take(t)
    PROVE  LeasesConserved'
<1> DEFINE n == Len(connections)
           c == connections[n]
<1>1. n \in Nat \ {0} /\ c \in Connections /\ DOMAIN connections = 1 .. n
  BY DEF TypeOK, Take
<1>2. /\ connections' \in Seq(Connections)
      /\ DOMAIN connections' = 1 .. n - 1
      /\ \A i \in 1 .. n - 1 : connections'[i] = connections[i]
  BY <1>1 DEF TypeOK, Take
<1>3. c # None /\ c \in Idle /\ t \notin Holders
  BY <1>1, ConnectionsAssumption DEF Idle, Holders, Take
<1>4. lease'[t] = c /\ \A u \in Threads \ {t} : lease'[u] = lease[u]
  BY Zenon DEF TypeOK, Take
<1>5. Idle' = Idle \ {c}
  BY <1>1, <1>2 DEF Idle, LeasesConserved
<1>6. Holders' = Holders \union {t}
  BY <1>3, <1>4, Zenon DEF Holders
<1>7. {lease'[u] : u \in Holders'} = {lease[u] : u \in Holders} \union {c}
  BY <1>3, <1>4, <1>6 DEF Holders
<1>8. active' = Cardinality(Holders')
  <2>1. IsFiniteSet(Holders) /\ Cardinality(Holders) \in Nat
    BY FiniteThreads, Zenon DEF Holders
  <2>2. Cardinality(Holders') = Cardinality(Holders) + 1
    BY <2>1, <1>3, <1>6, FS_AddElement, Zenon
  <2> QED
    BY <2>2, Zenon DEF Take, LeasesConserved
<1>9. \A u, v \in Holders' : lease'[u] = lease'[v] => u = v
  BY <1>3, <1>4, <1>6 DEF Holders, LeasesConserved
<1>10. \A i, j \in DOMAIN connections' : connections'[i] = connections'[j] => i = j
  BY <1>1, <1>2 DEF LeasesConserved
<1>11. /\ Idle' \intersect {lease'[u] : u \in Holders'} = {}
       /\ Idle' \union {lease'[u] : u \in Holders'} = Connections
  <2> DEFINE lent == {lease[u] : u \in Holders}
  <2>1. Idle \intersect lent = {} /\ Idle \union lent = Connections
    BY Zenon DEF LeasesConserved
  <2>2. /\ (Idle \ {c}) \intersect (lent \union {c}) = {}
        /\ (Idle \ {c}) \union (lent \union {c}) = Connections
    <3> HIDE DEF lent, c
    <3> QED
      BY <1>3, <2>1, MovedElement
  <2> QED
    BY <1>5, <1>7, <2>2, Zenon
<1> QED
  BY <1>8, <1>9, <1>10, <1>11, Zenon DEF LeasesConserved

\* Giving it back moves it the other way.
LEMMA GiveBackMoves ==
    ASSUME TypeOK, LeasesConserved, NEW t \in Threads, GiveBack(t)
    PROVE  LeasesConserved'
<1> DEFINE n == Len(connections)
           c == lease[t]
<1>1. n \in Nat /\ c \in Connections /\ DOMAIN connections = 1 .. n
  BY DEF TypeOK, GiveBack
<1>2. /\ DOMAIN connections' = 1 .. n + 1
      /\ connections'[n + 1] = c
      /\ \A i \in 1 .. n : connections'[i] = connections[i]
  BY <1>1 DEF TypeOK, GiveBack
<1>3. t \in Holders
  BY Zenon DEF Holders, GiveBack
<1>4. lease'[t] = None /\ \A u \in Threads \ {t} : lease'[u] = lease[u]
  BY Zenon DEF TypeOK, GiveBack
<1>5. Idle' = Idle \union {c}
  BY <1>1, <1>2 DEF Idle
<1>6. Holders' = Holders \ {t}
  BY <1>4, Zenon DEF Holders
<1>7. c \notin Idle /\ {lease'[u] : u \in Holders'} = {lease[u] : u \in Holders} \ {c}
  BY <1>3, <1>4, <1>6 DEF Holders, LeasesConserved
<1>8. active' = Cardinality(Holders')
  <2>1. IsFiniteSet(Holders) /\ Cardinality(Holders) \in Nat
    BY FiniteThreads, Zenon DEF Holders
  <2>2. Cardinality(Holders') = Cardinality(Holders) - 1
    BY <2>1, <1>3, <1>6, FS_RemoveElement, Zenon
  <2> QED
    BY <2>2, Zenon DEF GiveBack, LeasesConserved
<1>9. \A u, v \in Holders' : lease'[u] = lease'[v] => u = v
  BY <1>4, <1>6, Zenon DEF Holders, LeasesConserved
<1>10. \A i, j \in DOMAIN connections' : connections'[i] = connections'[j] => i = j
  <2>1. \A i \in 1 .. n : connections'[i] # c
    BY <1>1, <1>2, <1>7, Zenon DEF Idle
  <2> QED
    BY <1>1, <1>2, <2>1 DEF LeasesConserved
<1>11. /\ Idle' \intersect {lease'[u] : u \in Holders'} = {}
       /\ Idle' \union {lease'[u] : u \in Holders'} = Connections
  <2> DEFINE lent == {lease[u] : u \in Holders}
  <2>1. Idle \intersect lent = {} /\ Idle \union lent = Connections
    BY Zenon DEF LeasesConserved
  <2>2. c \in lent
    BY <1>3, Zenon
  <2>3. /\ (lent \ {c}) \intersect (Idle \union {c}) = {}
        /\ (lent \ {c}) \union (Idle \union {c}) = Connections
    <3> HIDE DEF lent, c
    <3> QED
      BY <2>1, <2>2, MovedElement
  <2> QED
    BY <1>5, <1>7, <2>3, Zenon
<1> QED
  BY <1>8, <1>9, <1>10, <1>11, Zenon DEF LeasesConserved

\* Every step keeps the connections together.
LEMMA LeasesStep ==
    ASSUME TypeOK, Calls, LeasesConserved, [Next]_vars
    PROVE  LeasesConserved'
<1>1. CASE Kept
  BY <1>1 DEF Kept, LeasesConserved, Idle, Holders
<1> QED
  BY <1>1, StackStep, TakeMoves, GiveBackMoves, Zenon

-----------------------------------------------------------------------------
(* Types and calls                                                         *)

\* Every step keeps the types.
LEMMA TypeStep ==
    ASSUME TypeOK, Calls, [Next]_vars
    PROVE  TypeOK'
<1>1. connections' \in Seq(Connections) /\ active' \in Int
      /\ lease' \in [Threads -> Connections \union {None}]
  <2>1. CASE Kept
    BY <2>1, Zenon DEF Kept, TypeOK
  <2>2. ASSUME NEW t \in Threads, Take(t)
        PROVE  <1>1!:
    <3>1. Len(connections) \in 1 .. Len(connections)
      BY <2>2 DEF TypeOK, Take
    <3> QED
      BY <2>2, <3>1 DEF TypeOK, Take
  <2>3. ASSUME NEW t \in Threads, GiveBack(t)
        PROVE  <1>1!:
    BY <2>3 DEF TypeOK, GiveBack
  <2> QED
    BY <2>1, <2>2, <2>3, StackStep, Zenon
<1>2. /\ marked' \in [Threads -> BOOLEAN]
      /\ pc' \in [Threads -> {"run", "waiting", "woken", "submitted"}]
      /\ running' \in Threads \union {None}
  BY Zenon DEF TypeOK, Next, vars, Read, TryRead, Resume, Checkout, SpuriousWake, EndRead,
         NotifyOne, SubmitWrite, StartJob, FinishJob
<1> QED
  BY <1>1, <1>2, Zenon DEF TypeOK

\* Every step keeps the marks and the calls in agreement.
LEMMA CallsStep ==
    ASSUME TypeOK, Calls, [Next]_vars
    PROVE  Calls'
<1>1. ASSUME NEW t \in Threads, Read(t) \/ TryRead(t)
      PROVE  Calls'
  <2>1. Read(t)
    BY <1>1, Zenon DEF TryRead
  <2>2. pc[t] = "run" /\ lease[t] = None
    BY <2>1, Zenon DEF Read, CanCall, Calls
  <2> QED
    BY <2>1, <2>2 DEF Read, Checkout, Calls, TypeOK
<1>2. ASSUME NEW t \in Threads, Resume(t)
      PROVE  Calls'
  BY <1>2 DEF Resume, Checkout, Calls, TypeOK
<1>3. ASSUME NEW t \in Threads, SpuriousWake(t)
      PROVE  Calls'
  BY <1>3, Zenon DEF SpuriousWake, Calls, TypeOK
<1>4. ASSUME NEW t \in Threads, EndRead(t)
      PROVE  Calls'
  BY <1>4 DEF EndRead, NotifyOne, Calls, TypeOK
<1>5. ASSUME NEW t \in Threads, SubmitWrite(t)
      PROVE  Calls'
  BY <1>5, Zenon DEF SubmitWrite, CanCall, MaySubmit, Calls, TypeOK
<1>6. ASSUME NEW t \in Threads, StartJob(t)
      PROVE  Calls'
  BY <1>6, Zenon DEF StartJob, Calls, TypeOK
<1>7. CASE FinishJob
  BY <1>7, Zenon DEF FinishJob, Calls, TypeOK
<1>8. CASE UNCHANGED vars
  BY <1>8, Zenon DEF vars, Calls
<1> QED
  BY <1>1, <1>2, <1>3, <1>4, <1>5, <1>6, <1>7, <1>8, Zenon DEF Next

-----------------------------------------------------------------------------
(* Wakeups                                                                 *)

\* The numbers NoLostReturn compares.
LEMMA Numbers ==
    ASSUME TypeOK
    PROVE  IsFiniteSet(Woken) /\ Cardinality(Woken) \in Nat /\ Len(connections) \in Nat
BY FiniteThreads DEF Woken, TypeOK

\* A checkout takes a connection from as many as there are, or finds none; a
\* woken thread that runs it is one of those on their way.
LEMMA CheckoutKeepsReturns ==
    ASSUME TypeOK, TypeOK', NoLostReturn, NEW t \in Threads, pc[t] \in {"run", "woken"},
           Checkout(t)
    PROVE  NoLostReturn'
<1>1. CASE connections # <<>>
  <2>1. Len(connections') = Len(connections) - 1
    BY <1>1 DEF Checkout, TypeOK
  <2>2. Sleepers' = Sleepers /\ Woken' = Woken \ {t}
    BY <1>1, Zenon DEF Checkout, TypeOK, Sleepers, Woken
  <2>3. Cardinality(Woken') >= Cardinality(Woken) - 1
    <3>1. Cardinality(Woken \ {t}) =
             IF t \in Woken THEN Cardinality(Woken) - 1 ELSE Cardinality(Woken)
      BY Numbers, FS_RemoveElement, Zenon
    <3> QED
      BY <2>2, <3>1, Numbers, SMTT(20)
  <2>4. CASE Sleepers # {}
    <3>1. Cardinality(Woken) >= Len(connections)
      BY <2>4, Zenon DEF NoLostReturn
    <3>2. Cardinality(Woken') \in Nat /\ Len(connections') \in Nat
      BY FiniteThreads DEF Woken, TypeOK
    <3>3. Cardinality(Woken') >= Len(connections')
      BY <3>1, <3>2, <2>1, <2>3, Numbers, SMTT(20)
    <3> QED
      BY <3>3, Zenon DEF NoLostReturn
  <2> QED
    BY <2>2, <2>4, Zenon DEF NoLostReturn
<1>2. CASE connections = <<>>
  <2>1. Len(connections') = 0
    BY <1>2 DEF Checkout
  <2>2. Cardinality(Woken') \in Nat
    BY FiniteThreads, Zenon DEF Woken
  <2> QED
    BY <2>1, <2>2 DEF NoLostReturn
<1> QED
  BY <1>1, <1>2, Zenon

\* Waking a sleeper adds one to those on their way.
LEMMA OneMoreWoken ==
    ASSUME TypeOK, NEW u \in Threads, pc[u] = "waiting", pc' = [pc EXCEPT ![u] = "woken"]
    PROVE  Cardinality(Woken') = Cardinality(Woken) + 1
<1>1. u \notin Woken /\ Woken' = Woken \union {u}
  BY Zenon DEF Woken, TypeOK
<1> QED
  BY <1>1, Numbers, FS_AddElement, Zenon

\* Every step keeps enough threads on their way.
LEMMA ReturnsStep ==
    ASSUME TypeOK, TypeOK', Calls, NoLostReturn, [Next]_vars
    PROVE  NoLostReturn'
<1>1. ASSUME NEW t \in Threads, Read(t) \/ TryRead(t) \/ Resume(t)
      PROVE  NoLostReturn'
  <2>1. pc[t] \in {"run", "woken"} /\ Checkout(t)
    BY <1>1, Zenon DEF Read, TryRead, Resume, CanCall
  <2> QED
    BY <2>1, CheckoutKeepsReturns, Zenon
<1>2. ASSUME NEW t \in Threads, SpuriousWake(t)
      PROVE  NoLostReturn'
  <2>1. Cardinality(Woken') = Cardinality(Woken) + 1
    BY <1>2, OneMoreWoken, Zenon DEF SpuriousWake
  <2>2. Sleepers # {} /\ connections' = connections
    BY <1>2, Zenon DEF SpuriousWake, Sleepers
  <2> QED
    BY <2>1, <2>2, Numbers DEF NoLostReturn
<1>3. ASSUME NEW t \in Threads, EndRead(t)
      PROVE  NoLostReturn'
  <2>1. Len(connections') = Len(connections) + 1
    BY <1>3 DEF EndRead, TypeOK
  <2>2. CASE Sleepers = {}
    <3>1. pc' = pc
      BY <1>3, <2>2, Zenon DEF EndRead, NotifyOne, Sleepers
    <3> QED
      BY <2>2, <3>1, Zenon DEF NoLostReturn, Sleepers
  <2>3. CASE Sleepers # {}
    <3>1. PICK u \in Threads : pc[u] = "waiting" /\ pc' = [pc EXCEPT ![u] = "woken"]
      BY <1>3, <2>3, Zenon DEF EndRead, NotifyOne, Sleepers
    <3>2. Cardinality(Woken') = Cardinality(Woken) + 1
      BY <3>1, OneMoreWoken, Zenon
    <3> QED
      BY <2>1, <2>3, <3>2, Numbers DEF NoLostReturn
  <2> QED
    BY <2>2, <2>3, Zenon
<1>4. ASSUME connections' = connections, Sleepers' = Sleepers, Woken' = Woken
      PROVE  NoLostReturn'
  BY <1>4, Zenon DEF NoLostReturn
<1>5. ASSUME NEW t \in Threads, SubmitWrite(t) \/ StartJob(t)
      PROVE  NoLostReturn'
  <2>1. connections' = connections /\ Sleepers' = Sleepers /\ Woken' = Woken
    BY <1>5, Zenon DEF SubmitWrite, StartJob, CanCall, Sleepers, Woken, TypeOK
  <2> QED
    BY <2>1, <1>4, Zenon
<1>6. CASE FinishJob
  <2>1. running \in Threads /\ pc[running] = "submitted"
    BY <1>6, Zenon DEF FinishJob, Calls, TypeOK
  <2>2. connections' = connections /\ Sleepers' = Sleepers /\ Woken' = Woken
    BY <1>6, <2>1, Zenon DEF FinishJob, Sleepers, Woken, TypeOK
  <2> QED
    BY <2>2, <1>4, Zenon
<1>7. CASE UNCHANGED vars
  <2>1. connections' = connections /\ Sleepers' = Sleepers /\ Woken' = Woken
    BY <1>7, Zenon DEF vars, Sleepers, Woken
  <2> QED
    BY <2>1, <1>4, Zenon
<1> QED
  BY <1>1, <1>2, <1>3, <1>5, <1>6, <1>7, Zenon DEF Next

-----------------------------------------------------------------------------
(* Theorems                                                                *)

\* The stack the pool starts with holds every connection once.
LEMMA InitIInv ==
    ASSUME Init
    PROVE  IInv
<1> DEFINE n == Cardinality(Connections)
<1>1. n \in Nat /\ IsFiniteSet(1 .. n) /\ Cardinality(1 .. n) = n
  BY ConnectionsAssumption, FS_CardinalityType, FS_Interval
<1>2. connections \in Surjection(1 .. n, Connections)
  BY Zenon DEF Init, IsEnumeration, Surjection
<1>3. connections \in Injection(1 .. n, Connections)
  BY <1>1, <1>2, FS_Surjection, Zenon
<1>4. connections \in Seq(Connections) /\ DOMAIN connections = 1 .. n
  BY <1>1, <1>2 DEF Surjection
<1>5. TypeOK
  BY <1>4 DEF Init, TypeOK
<1>6. Calls
  BY Zenon DEF Init, Calls
<1>7. LeasesConserved
  <2>1. \A i, j \in DOMAIN connections : connections[i] = connections[j] => i = j
    BY <1>3, <1>4, Zenon DEF Injection, IsInjective
  <2>2. Holders = {} /\ Idle = Connections
    BY Zenon DEF Init, Holders, Idle, IsEnumeration
  <2>3. active = Cardinality(Holders)
    BY <2>2, FS_EmptySet, Zenon DEF Init
  <2> QED
    BY <2>1, <2>2, <2>3, Zenon DEF LeasesConserved
<1>8. NoLostReturn
  BY Zenon DEF Init, NoLostReturn, Sleepers
<1> QED
  BY <1>5, <1>6, <1>7, <1>8, Zenon DEF IInv

\* Every state the pool reaches satisfies the inductive invariant.
LEMMA Inductive ==
    Spec => []IInv
<1>1. Init => IInv
  BY InitIInv, Zenon
<1>2. IInv /\ [Next]_vars => IInv'
  BY TypeStep, CallsStep, LeasesStep, ReturnsStep, Zenon DEF IInv
<1> QED
  BY <1>1, <1>2, PTL DEF Spec

\* No read connection leaks or is lent twice, for any number of connections and
\* threads and however callbacks end (checkout, Drop for ReadLease).
THEOREM Leases ==
    Spec => []LeasesConserved
BY Inductive, PTL DEF IInv

\* One notify_one per returned connection is enough: no idle connection is left
\* to a pool whose only interested threads sleep (Drop for ReadLease).
THEOREM Returns ==
    Spec => []NoLostReturn
BY Inductive, PTL DEF IInv

\* A thread that holds a connection is never blocked on the pool, and the writer
\* never waits for its own queue (in_read_callback, in_write_worker).
THEOREM NoThreadWaitsForItself ==
    Spec => []NoSelfWait
<1>1. IInv => NoSelfWait
  BY Zenon DEF IInv, Calls, NoSelfWait
<1> QED
  BY <1>1, Inductive, PTL

-----------------------------------------------------------------------------
(* Maintenance of the log.                                                 *)

\* How far a checkpoint may go: not past a snapshot that lies ahead.
Admissible(n) ==
    \A r \in Readers : snapshot[r] # NoSnapshot => n =< snapshot[r] \/ n = backfill

\* There is a last admissible frame, so a checkpoint has a well-defined target;
\* it stays in the log, keeps what was copied and passes no reader's snapshot.
LEMMA ReclaimableExact ==
    ASSUME WalTypeOK
    PROVE  /\ Reclaimable \in backfill .. frames
           /\ Admissible(Reclaimable)
           /\ \A m \in Reclaimable + 1 .. frames :
                 \E r \in Readers : snapshot[r] # NoSnapshot /\ m > snapshot[r]
<1>1. frames \in Nat /\ backfill \in 0 .. frames /\ backfill \in Nat
  BY DEF WalTypeOK, BoundsAssumption
<1>2. \A r \in Readers : snapshot[r] \in Int
  BY <1>1 DEF WalTypeOK, NoSnapshot
<1> DEFINE Left == {frames - n : n \in {k \in backfill .. frames : Admissible(k)}}
<1>3. Left \subseteq Nat /\ frames - backfill \in Left
  BY <1>1 DEF Admissible
<1>4. PICK x \in Left : \A y \in Left : ~(<<y, x>> \in OpToRel(<, Nat))
  BY <1>3, NatLessThanWellFounded, WFMin, Zenon
<1>5. \A y \in Left : ~(y < x)
  BY <1>3, <1>4, Zenon DEF OpToRel
<1>6. PICK n \in backfill .. frames : Admissible(n) /\ x = frames - n
  BY <1>4, Zenon
<1>7. ASSUME NEW m \in n + 1 .. frames
      PROVE  \E r \in Readers : snapshot[r] # NoSnapshot /\ m > snapshot[r]
  <2>1. m \in backfill .. frames /\ frames - m < x /\ m # backfill
    BY <1>1, <1>6, <1>7
  <2>2. ~Admissible(m)
    BY <1>5, <2>1, Zenon
  <2>. QED  BY <1>1, <1>2, <2>1, <2>2 DEF Admissible
<1>8. \E k \in backfill .. frames :
        /\ \A r \in Readers : snapshot[r] # NoSnapshot => k =< snapshot[r] \/ k = backfill
        /\ \A m \in k + 1 .. frames :
              \E r \in Readers : snapshot[r] # NoSnapshot /\ m > snapshot[r]
  BY <1>6, <1>7, Zenon DEF Admissible
<1>. QED  BY <1>8, Zenon DEF Reclaimable, Admissible

\* The inductive invariant: the two properties, and the types that keep the
\* log's counts and the policy meaningful.
WalInv == WalTypeOK /\ AttemptWithinInterval /\ PressureExplained

\* Nobody outside the pool checkpoints: so it is throughout WalSpec.
Alone == foreign = FALSE

\* What the types say of the numbers.
LEMMA WalNumbers ==
    ASSUME WalTypeOK
    PROVE  /\ frames \in Nat /\ backfill \in Nat /\ backfill =< frames /\ frames =< MaxFrames
           /\ MaxFrames \in Nat
           /\ \A r \in Readers : snapshot[r] \in Int /\ snapshot[r] =< frames
           /\ maintenance.enabled \in BOOLEAN /\ maintenance.interval \in Nat \ {0}
           /\ maintenance.limit \in Nat
BY BoundsAssumption DEF WalTypeOK, NoSnapshot, WalMaintenanceOptions

\* A checkpoint keeps the invariant and records the backlog it leaves.
LEMMA CheckpointKeeps ==
    ASSUME WalInv, CheckpointMain, commits' \in {0, commits}, phase' \in {"idle", "after"},
           UNCHANGED <<snapshot, foreign, maintenance, engineAuto>>
    PROVE  /\ WalInv'
           /\ ~foreign => pressure' = (frames' - backfill' > maintenance.limit)
<1>1. /\ frames' = frames /\ backfill' \in 0 .. frames
      /\ Record(IF foreign THEN 0 ELSE frames - backfill')
  BY ReclaimableExact, WalNumbers DEF WalInv, CheckpointMain, WalTypeOK
<1>2. PICK left \in 0 .. MaxFrames : Record(left) /\ (~foreign => left = frames' - backfill')
  BY <1>1, WalNumbers DEF WalInv
<1>3. /\ lastRemaining' = left /\ pressure' \in BOOLEAN /\ shown' \in BOOLEAN
      /\ shown' = pressure' /\ pressure' = (left > maintenance.limit)
  <2>1. (left > maintenance.limit) \in BOOLEAN
    BY WalNumbers DEF WalInv
  <2>. QED  BY <1>2, <2>1, Zenon DEF Record
<1>4. WalTypeOK'
  BY <1>1, <1>2, <1>3 DEF WalInv, WalTypeOK
<1>5. PressureExplained'
  <2>1. shown' => lastRemaining' > maintenance'.limit
    BY <1>3, Zenon
  <2>. QED  BY <1>3, <2>1, Zenon DEF PressureExplained
<1>6. AttemptWithinInterval'
  BY WalNumbers DEF WalInv, AttemptWithinInterval
<1>. QED  BY <1>2, <1>3, <1>4, <1>5, <1>6, Zenon DEF WalInv

\* Replacing the policy resets what was counted against the old one.
LEMMA PolicyKeeps ==
    ASSUME WalInv, Policy
    PROVE  WalInv'
<1>1. /\ maintenance' \in WalMaintenanceOptions /\ engineAuto' \in BOOLEAN
      /\ UNCHANGED <<frames, backfill, snapshot, foreign, phase, lastRemaining>>
      /\ commits' = 0
  BY PoliciesAssumption, Zenon DEF Policy, SetWalAutocheckpoint, SetAutomaticWalMaintenance, WalInv,
                            WalTypeOK, WalMaintenanceOptions, log
<1>2. pressure' = FALSE /\ shown' = FALSE
  BY Zenon DEF Policy, SetWalAutocheckpoint, SetAutomaticWalMaintenance
<1>3. WalTypeOK'
  BY <1>1, <1>2, Zenon DEF WalInv, WalTypeOK
<1>4. AttemptWithinInterval'
  BY <1>1, <1>3, WalNumbers DEF AttemptWithinInterval, WalTypeOK, WalMaintenanceOptions
<1>. QED  BY <1>2, <1>3, <1>4, Zenon DEF WalInv, PressureExplained

\* Every step keeps the invariant, those of a connection outside the pool too.
LEMMA WalStep ==
    ASSUME WalInv, [WalNext \/ ForeignBegins \/ ForeignEnds]_walVars
    PROVE  WalInv'
<1> USE WalNumbers
<1>0. WalTypeOK /\ AttemptWithinInterval /\ PressureExplained
  BY Zenon DEF WalInv
<1>1. ASSUME NEW r \in Readers, BeginSnapshot(r) \/ EndSnapshot(r)
      PROVE  WalInv'
  <2>1. WalTypeOK'
    BY <1>0, <1>1 DEF BeginSnapshot, EndSnapshot, WalTypeOK, log, runtime
  <2>. QED
    BY <1>0, <1>1, <2>1 DEF BeginSnapshot, EndSnapshot, WalInv, AttemptWithinInterval, PressureExplained, runtime
<1>2. CASE Write
  <2>1. PICK n \in 0 .. MaxCommitFrames : AppendFrames(n)
    BY <1>2, Zenon DEF Write
  <2>2. frames' \in 0 .. MaxFrames /\ backfill' \in 0 .. frames'
        /\ \A r \in Readers : snapshot[r] \in {NoSnapshot} \union 0 .. frames'
    BY <1>0, <2>1, BoundsAssumption DEF AppendFrames, LogRestarts, WalTypeOK
  <2>3. WalTypeOK'
    BY <1>0, <1>2, <2>2, Zenon DEF Write, WalTypeOK, runtime
  <2>. QED
    BY <1>0, <1>2, <2>3, Zenon DEF Write, WalInv, AttemptWithinInterval, PressureExplained, runtime
<1>3. CASE SkipMaintenance
  <2>1. commits' \in Nat /\ (maintenance.enabled => commits' < maintenance.interval)
    BY <1>0, <1>3 DEF SkipMaintenance, Due, WalTypeOK
  <2>2. WalTypeOK'
    BY <1>0, <1>3, <2>1, Zenon DEF SkipMaintenance, WalTypeOK, log
  <2>. QED
    BY <1>0, <1>3, <2>1, <2>2, Zenon DEF SkipMaintenance, WalInv, AttemptWithinInterval, PressureExplained
<1>4. CASE Maintain
  BY <1>4, CheckpointKeeps, Zenon DEF Maintain
<1>5. CASE MaintenanceFails
  <2>1. WalTypeOK'
    BY <1>0, <1>5, Zenon DEF MaintenanceFails, WalTypeOK, log
  <2>. QED
    BY <1>0, <1>5, <2>1 DEF MaintenanceFails, WalInv, AttemptWithinInterval, PressureExplained
<1>6. CASE EngineCheckpoint \/ ForeignEnds
  <2>1. backfill' \in 0 .. frames
    BY <1>0, <1>6, ReclaimableExact DEF EngineCheckpoint, ForeignEnds
  <2>2. WalTypeOK'
    BY <1>0, <1>6, <2>1, Zenon DEF EngineCheckpoint, ForeignEnds, WalTypeOK, runtime
  <2>. QED
    BY <1>0, <1>6, <2>2 DEF EngineCheckpoint, ForeignEnds, WalInv, AttemptWithinInterval,
                            PressureExplained, runtime
<1>7. CASE ManualCheckpoint
  BY <1>0, <1>7, CheckpointKeeps, Zenon DEF ManualCheckpoint, WalTypeOK
<1>8. CASE ManualTruncate
  <2>1. pressure' = FALSE /\ shown' = FALSE /\ lastRemaining' = 0
    <3>1. ~(0 > maintenance.limit)
      BY <1>0
    <3>2. (0 > maintenance.limit) = FALSE
      BY <3>1
    <3>. QED  BY <1>8, <3>2, Zenon DEF ManualTruncate, Record
  <2>2. \A r \in Readers : snapshot[r] = NoSnapshot
    BY <1>8, Zenon DEF ManualTruncate, NoReaders
  <2>3. WalTypeOK'
    <3>1. \A r \in Readers : snapshot'[r] \in {NoSnapshot} \union 0 .. 0
      BY <1>8, <2>2, Zenon DEF ManualTruncate
    <3>2. snapshot' \in [Readers -> {NoSnapshot} \union 0 .. frames']
      BY <1>0, <1>8, <3>1, Zenon DEF ManualTruncate, WalTypeOK
    <3>3. /\ frames' = 0 /\ backfill' = 0
          /\ UNCHANGED <<foreign, phase, maintenance, commits, engineAuto>>
      BY <1>8, Zenon DEF ManualTruncate
    <3>4. frames' \in 0 .. MaxFrames /\ backfill' \in 0 .. frames' /\ lastRemaining' \in 0 .. MaxFrames
      BY <1>0, <2>1, <3>3
    <3>5. pressure' \in BOOLEAN /\ shown' \in BOOLEAN
      BY <2>1, Zenon
    <3>. QED  BY <1>0, <3>2, <3>3, <3>4, <3>5, ZenonT(30) DEF WalTypeOK
  <2>. QED
    BY <1>0, <1>8, <2>1, <2>3, Zenon DEF ManualTruncate, WalInv, AttemptWithinInterval, PressureExplained
<1>9. CASE Policy
  BY <1>9, PolicyKeeps, Zenon
<1>10. CASE CheckpointAttached
  <2>1. PICK left \in 0 .. MaxFrames : Record(left)
    BY <1>10, Zenon DEF CheckpointAttached
  <2>2. (left > maintenance.limit) \in BOOLEAN
    BY <1>0
  <2>3. /\ lastRemaining' = left /\ pressure' \in BOOLEAN /\ shown' \in BOOLEAN
        /\ shown' = pressure' /\ pressure' = (left > maintenance.limit)
    BY <2>1, <2>2, Zenon DEF Record
  <2>4. WalTypeOK'
    BY <1>0, <1>10, <2>3, Zenon DEF CheckpointAttached, WalTypeOK, log
  <2>5. maintenance' = maintenance /\ commits' = commits
    BY <1>10, Zenon DEF CheckpointAttached
  <2>. QED
    BY <1>0, <2>3, <2>4, <2>5, Zenon DEF WalInv, AttemptWithinInterval, PressureExplained
<1>11. CASE ForeignBegins \/ UNCHANGED walVars
  <2>1. foreign' \in BOOLEAN
    BY <1>0, <1>11, Zenon DEF ForeignBegins, walVars, WalTypeOK
  <2>2. UNCHANGED <<frames, backfill, snapshot, phase, maintenance, commits, pressure, shown,
                    lastRemaining, engineAuto>>
    BY <1>11, Zenon DEF ForeignBegins, walVars, log, runtime
  <2>3. WalTypeOK'
    BY <1>0, <2>1, <2>2, Zenon DEF WalTypeOK
  <2>. QED  BY <1>0, <2>2, <2>3, Zenon DEF WalInv, AttemptWithinInterval, PressureExplained
<1>. QED
  BY <1>1, <1>2, <1>3, <1>4, <1>5, <1>6, <1>7, <1>8, <1>9, <1>10, <1>11,
     Zenon DEF WalNext, MainNext, AfterWrite

\* The invariant holds at the start, and nobody outside the pool checkpoints yet.
LEMMA WalStart == WalInit => WalInv /\ Alone
<1> SUFFICES ASSUME WalInit PROVE WalInv /\ Alone
  BY Zenon
<1>1. pressure = FALSE /\ shown = FALSE /\ foreign = FALSE
  BY Zenon DEF WalInit
<1>2. maintenance \in WalMaintenanceOptions /\ maintenance.enabled \in BOOLEAN
      /\ maintenance.interval \in Nat \ {0}
  BY PoliciesAssumption, Zenon DEF WalInit, WalMaintenanceOptions
<1>3. engineAuto \in BOOLEAN
  BY Zenon DEF WalInit
<1>4. WalTypeOK
  <2>1. frames = 0 /\ backfill = 0 /\ lastRemaining = 0 /\ commits = 0 /\ phase = "idle"
    BY Zenon DEF WalInit
  <2>2. snapshot \in [Readers -> {NoSnapshot} \union 0 .. frames]
    BY Zenon DEF WalInit
  <2>3. frames \in 0 .. MaxFrames /\ backfill \in 0 .. frames /\ lastRemaining \in 0 .. MaxFrames
        /\ commits \in Nat /\ phase \in {"idle", "after"}
    BY <2>1, BoundsAssumption
  <2>4. pressure \in BOOLEAN /\ shown \in BOOLEAN /\ foreign \in BOOLEAN
    BY <1>1, Zenon
  <2>. QED  BY <1>2, <1>3, <2>2, <2>3, <2>4, Zenon DEF WalTypeOK
<1>5. AttemptWithinInterval
  BY <1>2 DEF WalInit, AttemptWithinInterval
<1>6. PressureExplained
  BY <1>1, Zenon DEF PressureExplained
<1>. QED  BY <1>1, <1>4, <1>5, <1>6, Zenon DEF WalInv, Alone

\* No more than `interval` counted writes go by without an attempt, whichever
\* policies were in force and in which order (after_write), and whether or not
\* connections outside the pool checkpoint too.
THEOREM AttemptsInTime == (WalSpec \/ SpecShared) => []AttemptWithinInterval
<1>1. WalInv => AttemptWithinInterval
  BY Zenon DEF WalInv
<1>2. ASSUME [WalNext]_walVars \/ [MainNext \/ ForeignBegins \/ ForeignEnds]_walVars
      PROVE  [WalNext \/ ForeignBegins \/ ForeignEnds]_walVars
  BY <1>2, Zenon DEF WalNext
<1>. QED  BY <1>1, <1>2, WalStart, WalStep, PTL DEF WalSpec, SpecShared

\* The pressure that stats() exports is the one the writer acts on, and the
\* exported backlog explains it, also where connections outside the pool
\* checkpoint (record_checkpoint and the two setters).
THEOREM PressureAsShown == (WalSpec \/ SpecShared) => []PressureExplained
<1>1. WalInv => PressureExplained
  BY Zenon DEF WalInv
<1>2. ASSUME [WalNext]_walVars \/ [MainNext \/ ForeignBegins \/ ForeignEnds]_walVars
      PROVE  [WalNext \/ ForeignBegins \/ ForeignEnds]_walVars
  BY <1>2, Zenon DEF WalNext
<1>. QED  BY <1>1, <1>2, WalStart, WalStep, PTL DEF WalSpec, SpecShared

\* While the pool is alone, pressure ends only with the backlog, the policy or a
\* checkpoint of an attached database.
LEMMA PressureStep ==
    ASSUME WalInv, Alone, [WalNext]_walVars, pressure, ~pressure'
    PROVE  \/ frames' - backfill' =< maintenance.limit
           \/ Policy \/ CheckpointAttached
<1> USE WalNumbers
<1>0. WalTypeOK
  BY Zenon DEF WalInv
<1>1. CASE Maintain \/ ManualCheckpoint
  <2>1. /\ CheckpointMain /\ commits' \in {0, commits} /\ phase' \in {"idle", "after"}
        /\ UNCHANGED <<snapshot, foreign, maintenance, engineAuto>>
    BY <1>0, <1>1, Zenon DEF Maintain, ManualCheckpoint, WalTypeOK
  <2>2. WalInv' /\ pressure' = (frames' - backfill' > maintenance.limit)
    BY <2>1, CheckpointKeeps, Zenon DEF Alone
  <2>3. ~(frames' - backfill' > maintenance.limit)
    BY <2>2, Zenon
  <2>. QED  BY <1>0, <2>2, <2>3 DEF WalInv, WalTypeOK
<1>2. CASE ManualTruncate
  BY <1>0, <1>2 DEF ManualTruncate
<1>3. CASE ~(Maintain \/ ManualCheckpoint \/ ManualTruncate \/ Policy \/ CheckpointAttached)
  BY <1>3, Zenon DEF WalNext, MainNext, AfterWrite, BeginSnapshot, EndSnapshot, Write, EngineCheckpoint, SkipMaintenance,
              MaintenanceFails, walVars, runtime
<1>. QED  BY <1>1, <1>2, <1>3, Zenon

\* While the pool is alone the flag is given up only when the log really is back
\* under the limit, or by a caller who replaced the policy or checkpointed an
\* attached database (record_checkpoint).
THEOREM PressureRemembered == WalSpec => PressureNotForgotten
<1>1. Alone /\ [WalNext]_walVars => Alone'
  BY Zenon DEF Alone, WalNext, MainNext, CheckpointAttached, BeginSnapshot, EndSnapshot, Write, EngineCheckpoint, AfterWrite, SkipMaintenance, Maintain,
         MaintenanceFails, ManualCheckpoint, ManualTruncate, Policy, SetWalAutocheckpoint,
         SetAutomaticWalMaintenance, walVars
<1>2. [WalNext]_walVars => [WalNext \/ ForeignBegins \/ ForeignEnds]_walVars
  BY Zenon
<1>3. WalInv /\ Alone /\ [WalNext]_walVars =>
        [maintenance.enabled /\ pressure /\ ~pressure' =>
            \/ frames' - backfill' =< maintenance.limit
            \/ Policy \/ CheckpointAttached]_walVars
  BY PressureStep, Zenon
<1>. QED  BY <1>1, <1>2, <1>3, WalStart, WalStep, PTL DEF WalSpec, PressureNotForgotten

\* Under pressure every counted write ends with all the frames copied that the
\* readers of that moment allow, or with a checkpoint that failed.
THEOREM RetriesAfterEveryWrite == WalSpec => RetriesUnderPressure
<1>1. Alone /\ [WalNext]_walVars => Alone'
  BY Zenon DEF Alone, WalNext, MainNext, CheckpointAttached, BeginSnapshot, EndSnapshot, Write, EngineCheckpoint, AfterWrite, SkipMaintenance, Maintain,
         MaintenanceFails, ManualCheckpoint, ManualTruncate, Policy, SetWalAutocheckpoint,
         SetAutomaticWalMaintenance, walVars
<1>2. Alone /\ [WalNext]_walVars =>
        [AfterWrite /\ pressure /\ maintenance.enabled =>
            backfill' = Reclaimable \/ MaintenanceFails]_walVars
  BY Zenon DEF Alone, AfterWrite, SkipMaintenance, Maintain, CheckpointMain, Due
<1>. QED  BY <1>1, <1>2, WalStart, PTL DEF WalSpec, RetriesUnderPressure

-----------------------------------------------------------------------------
(* The fault layer.                                                        *)

\* The inductive invariant.  The rule stays armed exactly as long as the
\* operations it selects have not reached its occurrence, and until then the
\* controller's counter is their number, so the comparison for equality in
\* Controller::intercept cannot miss it, nor can saturation.
FaultInv ==
    /\ armed \in BOOLEAN /\ counting \in BOOLEAN
    /\ rule \in Rules
    /\ match_count \in Nat /\ seen \in Nat /\ faults \in Nat
    /\ dropping \subseteq session
    /\ \A a, b \in session : a = b
    /\ armed => counting /\ match_count = seen
    /\ counting => (armed <=> seen < rule.occurrence)
    /\ counting => session # {} /\ dropping = {}
    /\ FaultExact

\* The counters of a session, and what a reset leaves.
LEMMA ResetKeeps ==
    ASSUME FaultInv, Reset, dropping' \subseteq session', \A a, b \in session' : a = b
    PROVE  FaultInv'
BY Zenon DEF FaultInv, Reset, FaultExact

\* An operation on a file, whichever it is, keeps the invariant.
LEMMA InterceptKeeps ==
    ASSUME MaxCount \in Nat, NEW operation \in Operations, NEW f \in files,
           FaultInv, Intercept(operation, f)
    PROVE  FaultInv'
<1>1. rule' = rule /\ session' = session /\ dropping' = dropping /\ counting' = counting
  BY Zenon DEF Intercept
<1>2. rule.occurrence \in 1 .. MaxCount /\ rule.occurrence \in Nat
  BY DEF FaultInv, Rules
<1>3. CASE ~Selected(operation, f)
  <2>1. UNCHANGED <<armed, match_count, seen, faults>>
    BY <1>3, Zenon DEF Intercept, Hits
  <2> QED
    BY <1>1, <2>1, Zenon DEF FaultInv, FaultExact
<1>4. CASE Selected(operation, f) /\ ~counting
  <2>1. ~armed /\ ~Hits(operation, f)
    BY <1>4, Zenon DEF FaultInv, Hits
  <2>2. UNCHANGED <<armed, match_count, seen, faults>>
    BY <1>4, <2>1, ZenonT(30) DEF Intercept
  <2> QED
    BY <1>1, <2>2, Zenon DEF FaultInv, FaultExact
<1>5. CASE Selected(operation, f) /\ counting /\ ~armed
  <2>1. ~Hits(operation, f)
    BY <1>5, Zenon DEF Hits
  <2>2. UNCHANGED <<armed, match_count, faults>> /\ seen' = seen + 1
    BY <1>5, <2>1, Zenon DEF Intercept
  <2> QED
    BY <1>1, <1>2, <1>5, <2>2 DEF FaultInv, FaultExact
<1>6. CASE Selected(operation, f) /\ counting /\ armed
  <2>1. match_count = seen /\ seen < rule.occurrence /\ faults = 0 /\ seen \in Nat
    BY <1>2, <1>6 DEF FaultInv, FaultExact
  <2>2. saturating_add(match_count) = seen + 1
    BY <1>2, <2>1 DEF saturating_add
  <2>3. Hits(operation, f) <=> seen + 1 = rule.occurrence
    BY <1>6, <2>2, Zenon DEF Hits
  <2>4. match_count' = seen + 1 /\ seen' = seen + 1
    BY <1>6, <2>2, Zenon DEF Intercept
  <2>5. CASE seen + 1 = rule.occurrence
    <3>1. Hits(operation, f)
      BY <2>3, <2>5, Zenon
    <3>2. armed' = FALSE
      BY <1>6, <3>1, Zenon DEF Intercept
    <3>3. faults' = 1
      BY <2>1, <3>1 DEF Intercept
    <3>4. FaultExact'
      BY <1>1, <1>2, <2>1, <2>4, <2>5, <3>3, SMTT(20) DEF FaultExact
    <3>5. ~(seen' < rule'.occurrence)
      BY <1>1, <1>2, <2>1, <2>4, <2>5
    <3>6. ~armed' /\ armed' \in BOOLEAN
      BY <3>2, Zenon
    <3> QED
      BY <1>1, <1>6, <2>1, <2>4, <3>3, <3>4, <3>5, <3>6, SMTT(20) DEF FaultInv
  <2>6. CASE seen + 1 # rule.occurrence
    <3>1. ~Hits(operation, f)
      BY <2>3, <2>6, Zenon
    <3>2. armed' = TRUE
      BY <1>6, <3>1, Zenon DEF Intercept
    <3>3. faults' = 0
      BY <2>1, <3>1, Zenon DEF Intercept
    <3> QED
      BY <1>1, <1>2, <1>6, <2>1, <2>4, <2>6, <3>2, <3>3, SMTT(20) DEF FaultInv, FaultExact
  <2> QED
    BY <2>5, <2>6, Zenon
<1> QED
  BY <1>3, <1>4, <1>5, <1>6, Zenon

\* Every step keeps the invariant.
LEMMA FaultStep ==
    ASSUME MaxCount \in Nat, FaultInv, [FaultNext]_faultVars
    PROVE  FaultInv'
<1>1. ASSUME NEW t \in Testers, Start(t)
      PROVE  FaultInv'
  BY <1>1, ResetKeeps, Zenon DEF Start, FaultInv
<1>2. ASSUME NEW t \in Testers, NEW r \in Rules, Arm(t, r)
      PROVE  FaultInv'
  <2>1. dropping = {}
    BY <1>2, Zenon DEF Arm, FaultInv
  <2>2. r.occurrence \in Nat /\ r.occurrence > 0
    BY DEF Rules
  <2> QED
    BY <1>2, <2>1, <2>2 DEF Arm, FaultInv, FaultExact
<1>3. ASSUME NEW t \in Testers, Disarm(t)
      PROVE  FaultInv'
  BY <1>3, Zenon DEF Disarm, FaultInv, FaultExact
<1>4. ASSUME NEW t \in Testers, DropReset(t)
      PROVE  FaultInv'
  BY <1>4, ResetKeeps, Zenon DEF DropReset, FaultInv
<1>5. ASSUME NEW t \in Testers, DropRelease(t)
      PROVE  FaultInv'
  <2>1. ~counting /\ ~armed
    BY <1>5, Zenon DEF DropRelease, FaultInv
  <2> QED
    BY <1>5, <2>1, Zenon DEF DropRelease, FaultInv, FaultExact, controller, history
<1>6. ASSUME NEW f \in Files, io_sync(f) \/ io_truncate(f)
      PROVE  FaultInv'
  BY <1>6, InterceptKeeps, Zenon DEF io_sync, io_truncate, Operations
<1>7. ASSUME NEW f \in Files, NEW n \in Nat, io_write(f, n)
      PROVE  FaultInv'
  BY <1>7, InterceptKeeps, Zenon DEF io_write, Operations
<1>8. CASE \E f \in Files : io_close(f) \/ \E target \in Targets : fault_open(f, target)
  BY <1>8 DEF io_close, fault_open, FaultInv, FaultExact, controller, history
<1>9. CASE UNCHANGED faultVars \/ Register
  BY <1>9 DEF faultVars, Register, FaultInv, FaultExact, controller, history
<1> QED
  BY <1>1, <1>2, <1>3, <1>4, <1>5, <1>6, <1>7, <1>8, <1>9, Zenon DEF FaultNext

\* In every execution the fault that was armed is injected into the operation it
\* names, once, and only for the test that holds the session.
THEOREM FaultsAsArmed ==
    ASSUME MaxCount \in Nat
    PROVE  FaultSpec => [](FaultExact /\ FaultsOwned)
<1>1. FaultInit => FaultInv
  <2> SUFFICES ASSUME FaultInit PROVE FaultInv
    BY Zenon
  <2>1. ~counting /\ ~armed /\ counting \in BOOLEAN /\ armed \in BOOLEAN
    BY Zenon DEF FaultInit
  <2>2. rule \in Rules /\ match_count = 0 /\ seen = 0 /\ faults = 0
        /\ session = {} /\ dropping = {}
    BY Zenon DEF FaultInit
  <2> QED
    BY <2>1, <2>2, Zenon DEF FaultInv, FaultExact
<1>2. FaultInv /\ [FaultNext]_faultVars => FaultInv'
  BY FaultStep, Zenon
<1>3. FaultInv => FaultExact /\ FaultsOwned
  BY Zenon DEF FaultInv, FaultsOwned
<1> QED
  BY <1>1, <1>2, <1>3, PTL DEF FaultSpec

=============================================================================
