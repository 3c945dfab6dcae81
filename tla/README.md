# A TLA+ model of CSGDB

CSGDB is an embedded database: a Rust library over SQLCipher with a connection
manager, typed collections with a schema registry and migrations, typed
queries, a C ABI and a fault-injecting VFS for tests. This directory holds TLA+
modules of its stateful parts, the TLC configurations that check them on small
instances, and proofs that TLAPS checks. Paths below are relative to the
repository; `pool.rs` is `crates/csgdb/src/pool.rs`.

## 1. The system

| part | code | state | operations | what is hard |
|---|---|---|---|---|
| write queue | `pool.rs` `WriteQueue`, `write_internal`, `submit_groupable` | a bounded `VecDeque` and `accepting` behind a mutex, two condition variables | push (wait, reject, time-out), notify_writer, pop, close | wakeups outside the mutex, stolen slots, time-outs racing notifications |
| handles and shutdown | `pool.rs` `DatabasePool`, `PoolInner` | an `Arc` per clone, the writer's join handle | clone, close, drop, shutdown | the last handle may go at any moment |
| group commit | `pool.rs` `execute_group_commit`, `execute_group_job` | one transaction, a savepoint per job, the collected results | begin, savepoint, statement, rollback to, release, commit, respond | every statement may fail, some failures take the transaction along, crashes |
| exclusive jobs | `pool.rs` `writer_main` | the writer connection between jobs | a callback that owns the connection | transactions left open, panics |
| WAL maintenance | `pool.rs` `WriterRuntime` | policy, commits since the last attempt, pressure, exported copies | after_write, record_checkpoint, manual checkpoints, two setters | long snapshots, two owners of checkpointing, BUSY without counts |
| read pool | `pool.rs` `ReadPool`, `ReadLease`, `ReadCallbackGuard` | a stack of connections, a counter, thread-local marks | read, try_read, drop of a lease, stats | one notification per return, reentrancy |
| schema registry, migrations | `collection.rs` | three registry tables, physical tables and indexes | register, migrate, registered_schema | interrupted and repeated migrations, changed declarations |
| typed collections | `collection.rs` `FieldValue`, `CollectionCrud` | the rows of one table | encode, decode, insert, update, delete, get | integer widths, NULL, the order of parameters, rows other SQL wrote |
| typed queries | `query.rs` | a draft, a compiled plan | build a predicate, order, limit, exists, execute | limits on the whole tree, the order of parameters, three-valued logic, ties |
| derive macro | `csgdb-derive/src/lib.rs` | none | check a declaration, build its schema | a second check at run time that must agree |
| open policy, keys | `csgdb-core/src/open.rs`, `key.rs`, `csgdb/src/lib.rs`, `csgdb-storage/src/lib.rs` | the file, the key store, process-wide cipher defaults | plan, load or create a key, key the connection, verify, fall back, configure | two openers create the key, two openers set the cipher defaults, crashes |
| fault VFS | `csgdb-storage/src/fault.rs` | one armed fault per process | arm, intercept, sessions | shared by all files and by tests that follow each other |
| C ABI | `csgdb-ffi/src/lib.rs` | handles, statements, last error | open, exec, prepare, bind, step, column, reset, finalize, interrupt, close | close with live statements, pointers into rows, errors of another thread |
| CLI, crypto cache | `csgdb-cli`, `crypto_provider_cache.c` | none, cache slots | printing, key set-up | - |

A call travels through the parts like this: an application thread pushes a job
into the write queue; the writer thread pops it, alone or in a group, runs it
against the engine, maintains the log, and sends the response; meanwhile read
callbacks borrow connections from the read pool, hold snapshots that limit
what maintenance can reclaim, and may not call back into their own pool. What
the jobs run is SQL of the application, or the statements of typed collections
and the schema registry. All of it happens on connections that the open path
has keyed, by way of Rust or of the C ABI.

## 2. Modules

| module | models | extends, uses |
|---|---|---|
| `SerialWriter` | the promise of the write path: one line, answered in order, once | - |
| `WriteQueue` | queue, submitters, writer, handles, shutdown | instance of `SerialWriter` |
| `WriteQueueProofs` | theorems about `WriteQueue` | `WriteQueue` |
| `AtomicJobs` | the promise of `execute` and `execute_transaction` for one job | - |
| `GroupCommit` | what the writer does to the database with one batch | instance of `AtomicJobs` |
| `GroupCommitProofs` | theorems about `GroupCommit` | `GroupCommit` |
| `WalMaintenance` | the checkpoint policy of the writer, over an abstract log | - |
| `ReadPool` | leases of read connections and the reentrancy marks | - |
| `FaultVfs` | the fault-injecting VFS | - |
| `StorageProofs` | theorems about the three modules above | `ReadPool`, `WalMaintenance`, `FaultVfs` |
| `SchemaRegistry` | registration, migration and lookup of typed collections | - |
| `SchemaRegistryProofs` | what each helper of registration and migration does to the content of a file; the steps and the theorems | `SchemaRegistry` |
| `DeriveCollection` | what the derive macro accepts and builds | - |
| `FieldValues` | conversions between Rust values and engine values | - |
| `RecordStore` | insert, update, delete and get of one collection | `FieldValues` |
| `TypedCollection` | queries over its records | `RecordStore` |
| `CollectionProofs` | theorems about declarations, fields and records; induction and recursion on predicate trees | `DeriveCollection`, `TypedCollection` |
| `QueryProofs` | the order of rows, theorems about queries | `CollectionProofs` |
| `OpenPolicy` | flags, engine flags and pool limits | - |
| `OpenDatabase` | the open path of several threads | `OpenPolicy` |
| `OpenDatabaseProofs` | theorems about both | `OpenDatabase` |
| `FfiHandles` | handles and statements of the C ABI | - |
| `FfiHandlesProofs` | theorems about `FfiHandles` | `FfiHandles` |

Modules that are model-checked have an `MC` module that names their model
values. Operators called
"Mutant" in a comment are plausible bugs: `PROJECT.json` pairs each with the
property that rejects it. They are not used by the specifications.

### WriteQueue

A critical section of the mutex is one action; what happens before or after it
(the submission counter and `notify_one`, the response channel) is an action of
its own. A job is named by its thread, which blocks in `recv` until it is
answered. `pc[t]` is where thread `t` is:

| `pc` | code |
|---|---|
| idle, inuse, shutdown | outside a call; `close` refused; running `PoolInner::shutdown` |
| waiting, woken, expired | asleep in `not_full.wait`; notified; its `wait_timeout` ended |
| pushed, recv | between `push` and `notify_writer`; blocked in `recv` |
| full, timedout, closed, answered | about to return |

`wpc` is where the writer is: `pop`, asleep on an empty queue (`waitEmpty`) or
within the delay of a group (`waitGroup`), back in the collection loop
(`collect`, or `expired` after the deadline), `exec`, `respond`, `done`.
`PushDecision` is one pass of `push` under the mutex for each policy, with the
order of its tests: `Reject` looks at the length before `accepting`.
`Collectable(n)` says that the collection loop takes exactly `n` jobs in one
critical section. Time is a nondeterministic choice: a deadline may have
passed or not whenever the code looks at it. `Instant::now() + max_delay` with
a delay of zero is the choice of `exec` in `AfterCollecting`.

A call borrows the pool, so a thread in a call owns a handle. Hence shutdown,
which needs the last handle, never meets a call. The branch of `shutdown` that
runs on the writer thread (`pool.rs:1122`) needs a handle owned by the writer;
no call of the API gives it one, and it is left out.

### GroupCommit

One action per SQL statement, in the order of `execute_group_commit`. The
engine is external: `Apply` (a statement takes effect in the open transaction,
or at once), `CommitTx`, and `FailedSql` (a failed statement has no effect and
may have rolled back the whole transaction, which is what an interrupt, a full
disk or `ON CONFLICT ROLLBACK` do). `Fatal` is the path by which an error of
SAVEPOINT, ROLLBACK TO or RELEASE refuses the whole group. Exclusive jobs are
callbacks that run any statements, begin transactions with or without a guard
that rolls back on drop, and return Ok, Err or panic. `Crash` may happen
between any two actions. A job with no statements has no effects and is left
out (`SizeAssumption`). Two assumptions about the engine: a COMMIT that reports
an error has not committed, and a rollback on drop succeeds.

`StatementIsCommit` belongs to `SpecAnySql` only: the text of a groupable
statement is not inspected and may be COMMIT.

### WalMaintenance

The log is two counts, `frames` and `backfill`, and a position per reader that
a checkpoint cannot pass. `Record` is `record_checkpoint`, `Due` the early
return of `after_write`. A write is counted as in `writer_main`: every
exclusive job, and a group that committed something. Readers come from
anywhere: the pool, another pool, another process. `checkpoint_database` takes
the name of a database: without one, or for the main one, it is
`ManualCheckpoint` or `ManualTruncate`; for an attached one it is
`CheckpointAttached`, which leaves the main log alone and records the backlog of
another log, any number, as if it were that of the main one. A second
checkpointer is only in `SpecShared` (`ForeignBegins`, `ForeignEnds`, on a pool
with nothing attached: `MainNext`): while it holds the
checkpoint lock the engine answers BUSY without counts. The exported totals
(`checkpoint_runs` and the like) only ever grow and are left out.

### ReadPool

`Checkout` is the loop body of `checkout`; `EndRead` is both Drop
implementations in their order. `marked` is the membership of this pool in the
thread's `READ_CALLBACK_POOLS`, `MaySubmit` the test at the head of
`write_internal` and `submit_groupable`. The writer thread runs application
code only while it runs a job, and that code may read from the pool.

### SchemaRegistry

`db` is the committed content of the file: which registry tables exist, their
rows (`schema`, `indexRows`, `history`), the physical `tables` and `indexes`,
and `effects`, how often the work of each migration callback is in the data. A
call of `register_collection` or `migrate_collection` works on `tx[c]`, a copy
taken by its first statement; `pc` is `begin`, `read` (the lookups and the
comparison that follow), `callback`, `finish` (the statements after the
callback), `commit` or `done`. The engine's rule for deferred transactions is
`MayWrite`: the write lock must be free and the snapshot the newest one.
Everything that can go wrong with a statement, a full time-out of the lock
included, is `StorageFails`. The operators on a database (`TableFits`,
`Unclaimed`, `ReplaceIndexes`, ...) are the helper functions of
`collection.rs`, one each.

A declaration is a record with its fields and indexes; a fingerprint is the
record that the derive macro hashes, hence SHA-256 is injective here. Physical
columns and indexes are what the pragmas return for them. `Fold` is the
engine's treatment of case in table names. A callback runs up to
`MaxStatements` DDL statements (rebuild, alter, rename, create or drop an
index) on the tables and indexes of its two endpoints, and returns Ok, an error
or panics. `Ddl` is DDL of the application outside a migration; a collection
it touches is in `drifted`, about which the registry promises nothing until
the next successful registration or migration. Files that only have
`__csgdb_schema` are initial states.

A repeated migration is answered `AlreadyApplied` only while its target is the
registered schema; after a later migration the same call returns
`MigrationMismatch`. The documentation of the error codes says so, the comment
of `migrate_collection` leaves it out, and `RetryIsQuiet` claims no more. Its
premise is about the committed file, not about what the call has read, so it
covers the whole way from the commit of a migration, whose answer may have been
lost, to the answer of the next call for it.

### FieldValues, RecordStore and TypedCollection

A field type is a kind with its range and whether it is an `Option`; a
conversion that may fail is a pair of operators (`Encodes` and `Encoded`,
`Decodes` and `Decoded`). Integers keep their width relative to the engine's:
constants give the range of the engine's integers, so that the instance has
unsigned values the engine cannot hold and stored values the field cannot.
Floating point is four sets and a narrowing function.

In `RecordStore`, `table` is the content of the physical table. `Insert`, `Update`, `Delete` and
`Get` are the calls of `CollectionCrud`, with the parameters in the order in
which the derive macro writes them into the statements. The engine keeps NULL
for a NaN (`Stored`), so a NaN in a required field is refused and one in an
`Option` is read back as `None` (`Kept`). `RawReplace` is SQL of
the application that stores what the field type cannot read. To the records a
call of the query interface is a `QueryStep`, which every action that
`TypedCollection` adds contains as a conjunct; `RecordSpec` is the record calls
among such steps. A query is made in
one step (`Take`, `Exists`: `QueryDraft` to `CollectionQuery`, with every limit
and early error of the compilation) and runs later (`Execute`), so that the
table may change in between. `compile_predicate` gives each node a function of
the depth and of the number of nodes before it, as its arguments `depth` and
`nodes` are in the code: whether the tree is accepted, how many nodes there are
behind it, and the values it pushes. What it writes for a node is `Text` (a
comparison with NULL becomes a test, any other takes one parameter); every node
is written in parentheses, so the text of a tree has the shape of the tree and
`sql` keeps the predicate itself. `Evaluation` is the engine: it walks the
condition from left to right with the number of parameters used so far, and
knows texts and parameters only, never the values in the tree. `Height` is a number for each tree
that exceeds those of its operands (a `PredicateNode` owns its operands, so
trees are finite), `Less` the engine's comparison of two values of a column.
The history of `Update` goes by the record's own key, so that it does not depend
on the parameters that the property is about.
The properties compare with reference definitions on the predicate tree
(`Meaning`, `Nodes`, `Depth`, `Promised`), which the compilation does not use.
A consequence of the code is part of the reference: `NOT` over a comparison
with a NULL field is unknown, hence not an answer, although the method is
documented as "Negates this predicate".

### OpenPolicy and OpenDatabase

A flag word is the set of its flags. `FlagsAccepted` and `Normalized` are the
flag policy, `PoolOptionsAccepted` and `CacheShare` the limits of a pool. `OpenDatabase` follows one open per thread
through `pc`: the plan, `Load` and `Create` at the provider, the look at the
file, `OpenEngine`, the process-wide lock with the two cipher defaults
(`TakeLock`, `SetHmac`, `SetPage`), `ApplyKey`, `Verify`, `Configure`, then
either the next read connection of a pool, the next cipher profile, or the end.
Each is a step of its own, and `Crash` may come between any two. The file has a
length (absent, empty, data), a key and the settings it was created with.
The provider is external. As `key.rs` documents it, `create` makes and keeps a
new key; nothing says what becomes of a key made before, and here it is
replaced. `load_or_create_key` looks first and creates then, so two openers may
both create. The history variable `raced` records that this happened. With a
provider that replaces keys the race can cost the key of a file; with one that
returns the key it has it cannot. A failed check of the key is
InvalidDatabaseKey or DatabaseCorrupt (`WrongKeyErrors`), as the engine
reports it. When the check of an older profile is disturbed by a lock, the code discards
that error and reports the one of the current profile (`Fallback`); such opens
are marked `disturbed`. `PLAINTEXT_REQUIRES_OPT_IN`, which
`docs/public-api.md:90` lists, is never constructed and so is not an outcome.

### FaultVfs

One controller for the process: `armed`, the rule with its countdown, and the
session. Every write, sync and truncation of every open file passes
`Intercept`; files may stay open across sessions. Dropping a session resets the
controller first (`DropReset`) and releases the session's lock then. The counters have a width
(`MaxCount`). What is only forwarded to the real VFS has no state here.

### DeriveCollection

A declaration is its attributes, with the number of times each is given, and
its fields. `DeriveAccepts` is the conjunction of the macro's tests, `Derived`
the schema it emits, `validate_collection_schema` the test at run time. Both
compare column names with their case, the engine without it; such a
declaration is refused by CREATE TABLE at registration.

### FfiHandles

A thread uses a statement of its own; the handle is shared. `owners` are the
holders of the `Arc<SharedDatabase>` (the handle is `None`), and `DropOwner`
closes the connection with the last. `word[t]` is the wrapper's atomic state
word, `raw[t]` the engine's statement. `lock` is the wrapper's mutex, which
statement calls do not take, and `engine` the engine's own. A call that runs
SQL is two actions, between which other threads interrupt it or close the
handle; recording the outcome is one action or, for `set_ok`, two (load,
store), so that outcomes of different threads overlap in `lastCode`. Callers
keep the documented contract; what the contract leaves open is any order.
A column pointer is followed through steps, resets and finalization only: that
a later column call on the same row may convert the value to another type, and
with it move what the pointer refers to, is not modelled.

## 3. Runs

| run | configuration | instance | states | shows |
|---|---|---|---|---|
| `write_queue` | `MCWriteQueue.cfg` | 3 threads, capacity 1, groups of 2 | 93,530 | six invariants of the write path; refinement of `SerialWriter` with its fairness; sleepers woken, timed calls return, shutdown ends |
| `group_commit` | `MCGroupCommit.cfg` | 3 groupable jobs of 2, 2 and 1 statements, 2 exclusive ones, groups of 3 | 501,068 | durability, atomicity, isolation of failures, refinement of `AtomicJobs` |
| `group_commit_any_sql` | `MCGroupCommitAnySql.cfg` | 2 groupable, 1 exclusive | violation | COMMIT as a groupable statement |
| `wal_maintenance` | `MCWalMaintenance.cfg` | 2 readers, 4 policies, 4 frames, commits of up to 2 | 30,988 | attempts in time, pressure kept, acted on and given up |
| `wal_shared` | `MCWalShared.cfg` | the same with a second checkpointer | violation | pressure forgotten on BUSY |
| `read_pool` | `MCReadPool.cfg` | 4 threads and the writer, 2 connections | 2,632 | leases conserved, no lost return, no self-wait, connections come back |
| `schema_registry` | `MCSchemaRegistry.cfg` | 2 connections, a collection of 3 versions and one of 2 rival declarations, 4 migrations, 2 statements per callback, 1 foreign DDL, symmetry | 753,339 | registry, history, physical schema and data agree |
| `schema_case` | `MCSchemaCase.cfg` | 2 collections, names that differ in case | violation | two owners of one table |
| `ffi_handles` | `MCFfiHandles.cfg` | 2 threads with a statement each, 2 engine errors, symmetry | 204,515 | owners of the connection, column pointers, state word, no silent restart |
| `open_database` | `MCOpenDatabase.cfg` | 2 openers, 3 keys, every format of the file, 12 kinds of request, symmetry | 1,492,627 | cipher settings as asked, keys kept but for the race of two creates, wrong keys only when wrong |
| `open_existing` | `MCOpenExisting.cfg` | 1 opener with a provider | violation | a missing key reported as a wrong one |
| `typed_collection` | `MCTypedCollection.cfg` | 2 keys, the key between two other fields, 3-bit integers, a NaN, trees up to one node and one level beyond limits of 4 nodes and 3 levels | 77,346 | answers mean what the predicate says, limits are exact, records read back |

Why the bounds are enough for the cases that matter. Three threads on one slot
are a queued job, a job in the writer's hands and a submitter asleep, so a slot
can be stolen, a time-out can race a pop, and a group of two can be cut short by
a barrier; the safety part is proved for every size anyway. Three jobs in one
group put a failing job before, between and after jobs that succeed, and two
exclusive jobs let one leave a transaction open under which the other runs.
Four frames with a limit of one or two let pressure begin, persist under a
snapshot and end. Two read connections, two readers in excess and the writer let a
returned connection be stolen while two threads sleep. Two registry connections let
every call race another one, and the declarations contain a table and an index
name that two collections want, two declarations of one version, a reused
migration identifier and a migration that goes backwards; two statements are
enough for a callback to do the right change, half of it, or undo it. Two
statements of a C handle are enough for the handle to go first, last or in
between. Two openers are enough for each race about the key store and the
cipher defaults; three keys are the file's own, a new one, and a second new one
that the race of two creates makes. The predicate trees reach each limit and exceed it by one, also
where the nodes are spread over two `filter` calls.

### Properties

Write path: the queue keeps its bound; nobody sleeps without somebody bound to
wake them; every admitted job is in exactly one place; an exclusive job is
alone in its batch; shutdown meets no call; the counters agree with the jobs
in flight. Group commit: Ok means committed, Err means no trace, each job is
all or nothing at every moment, and a job is refused in a committed group only
for its own failure. Maintenance: at most one interval passes without an
attempt, and the pressure flag is raised, shown, acted on and cleared for a
reason. Read pool: no connection leaks or is shared, as many threads are on
their way as connections are idle while anybody sleeps, and no thread waits for
itself. Schema registry: what is registered is what exists, a table has one
owner, recorded migrations form a chain that ends at the registered version,
the work of a callback is there at most once and only with its record, rows
move by recorded migrations only, a success is true when it is answered, and a
committed migration can be asked for again without harm. C ABI: the connection lives exactly as long as its
owners, a column pointer is valid as long as the contract lets the caller use
it, the state word is true between calls, and a finished statement is not run
again without a reset. Opening: a connection is keyed with the settings of the
profile that is tried, the key of a file is in the provider if the provider
made it and no two openers created at once, and InvalidDatabaseKey means a
wrong key. Typed collections: a query
answers its predicate on the rows at execution, is refused exactly beyond the
limits, and a record is read back as it was written.

`TypeOK` of each module documents its state; it is proved where there are
proofs (`WriteQueue`, `ReadPool`, `GroupCommit`, `WalMaintenance`,
`OpenDatabase`, `SchemaRegistry`) and is not an invariant of the
configurations.

### Fairness

Threads inside a call, the writer and the thread in shutdown keep running
(weak fairness on their steps): they hold no resource the scheduler could
withhold for ever. Time-outs are strongly fair because a deadline is a fixed
instant: waking early again and again does not postpone it. Nothing is assumed
about starting calls, cloning, closing or dropping, about spurious wakeups, or
about which thread gets a mutex first; so a waiting `write` may starve behind
newcomers, and only calls with a time-out are claimed to return. In `ReadPool`
callbacks are assumed to end and the writer to serve its queue. In
`WalMaintenance` the writer finishes the job it has begun; that writes go on,
snapshots end and checkpoints do not fail are premises of `PressureSubsides`
itself. The other modules make no liveness claim.

### Disagreements between documents and code

1. `execute_transaction` promises that an error rolls back the whole batch.
   A statement COMMIT in a groupable job ends the shared transaction, after
   which all jobs of the group are refused although effects are committed: of
   the statements before the COMMIT with it, of those after it one by one
   (`group_commit_any_sql`).
2. The documentation of WAL maintenance promises retries until the snapshot is
   released or the pressure falls. A BUSY checkpoint without counts is recorded
   as an empty backlog and ends the retries (`wal_shared`).
3. ADR 0005 says that a physical table has one owner. The registry compares
   names as bytes and the engine ignores case: a second collection with the
   same columns and the name in another case adopts the table of the first
   (`schema_case`).
4. `docs/public-api.md` says that the key of an existing database is looked up,
   and that KEY_REQUIRED or KEYSTORE_UNAVAILABLE is returned when it cannot be
   had. With the default flags a provider that has no key for an existing
   encrypted file is asked to create and keep one, and the open fails with
   InvalidDatabaseKey or DatabaseCorrupt (`open_existing`).

Two smaller ones are not checked by a run: `PoolStats`, called a point-in-time
view, reads idle and active readers at two moments; and an error code the
documentation lists is never produced (see `OpenDatabase` above).

## 4. Proofs

For every value of the constants that the named assumptions allow, TLAPS checks:

| module | theorem | statement |
|---|---|---|
| `WriteQueueProofs` | `TypeCorrect` | `Spec => []TypeOK` |
| | `BoundedQueue` | `Spec => []QueueBounded` |
| | `Wakeups` | `Spec => []NoLostWakeup` |
| | `EachJobOnce` | `Spec => []JobInOnePlace` |
| | `Barriers` | `Spec => []ExclusiveAlone` |
| | `QuietShutdown` | `Spec => []NoCallSeesShutdown` |
| | `CountersBalance` | `Spec => []StatsBalance` |
| | `ImplementsSerialWriter` | `Spec => SW!Safety` |
| `GroupCommitProofs` | `OkIsDurable` | `Spec => []AcknowledgedIsDurable` |
| | `ErrLeavesNothing` | `Spec => []RefusedLeavesNothing` |
| | `NoPartialJob` | `Spec => []AllOrNothing` |
| | `OwnFailuresOnly` | `Spec => []FailuresIsolated` |
| | `Atomic` | `Spec => KeepsPromise`, the refinement of `AtomicJobs` |
| `StorageProofs` | `Leases` | `Spec => []LeasesConserved` |
| | `Returns` | `Spec => []NoLostReturn` |
| | `NoThreadWaitsForItself` | `Spec => []NoSelfWait` |
| | `AttemptsInTime` | `(WalSpec \/ SpecShared) => []AttemptWithinInterval` |
| | `PressureAsShown` | `(WalSpec \/ SpecShared) => []PressureExplained` |
| | `PressureRemembered` | `WalSpec => PressureNotForgotten` |
| | `RetriesAfterEveryWrite` | `WalSpec => RetriesUnderPressure` |
| | `FaultsAsArmed` | `FaultSpec => [](FaultExact /\ FaultsOwned)` |
| `OpenDatabaseProofs` | `TypeCorrect` | `Spec => []TypeOK` |
| | `ProfilesDoNotMix` | `Spec => []KeyedAsAsked` |
| | `KeysSurvive` | `Spec => []KeyNotLost` |
| | `WrongKeysOnly` | `Spec => []WrongKeyIsWrong` |
| | `NormalizedIsDecided` | accepted flags are normalised to one access and one encryption mode, once |
| | `SharesFitBudget` | the cache shares of a pool fit its memory budget |
| `SchemaRegistryProofs` | `TypeCorrect` | `Spec => []TypeOK` |
| | `RegistryStaysTrue` | `Spec => []RegistryTrue`, if `FoldInjective` |
| | `OneOwnerEach` | `Spec => []OneOwner`, if `FoldInjective` |
| | `HistoryStaysChain` | `Spec => []HistoryIsChain` |
| | `CallbacksCommitOnce` | `Spec => []CallbacksOnce` |
| | `RowsMoveByMigration` | `Spec => MovesByMigration` |
| | `SuccessTellsTruth` | `Spec => SuccessIsTrue` |
| | `RetriesAreQuiet` | `Spec => RetryIsQuiet`, if `FoldInjective` |
| `FfiHandlesProofs` | `ConnectionOutlivesStatements` | `Spec => []ReleasedWithLastOwner` |
| | `ColumnPointers` | `Spec => []RowViewsValid` |
| | `StateWord` | `Spec => []StateWordTrue` |
| | `NoSilentRestart` | `Spec => FinishedNeedsReset` |
| `CollectionProofs` | `DerivedIsValid` | what the macro accepts, the run-time check accepts |
| | `RoundTrip`, `WriteBack` | decoding undoes encoding, and encoding undoes decoding (but for f32) |
| | `UpdateBindsColumns` | the parameters of UPDATE are listed as they are numbered |
| | `RecordsReadBack` | `RecordSpec => []ReadsBack` |
| `QueryProofs` | `QueriesMean` | `Spec => []AnswerMeans` |
| | `LimitsAreExact` | `Spec => []LimitsExact` |
| | `QueriesOnlyRead` | `Spec => RecordSpec /\ []ReadsBack` |

Each temporal theorem follows from an inductive invariant of its module, `IInv`
unless another is named below.

*WriteQueue.* The properties are not
inductive by themselves: that a job is in one place needs that a responding
writer has a batch (`WriterShape`); that nobody sleeps on a closed queue, and
that `push` never takes its closed exit, needs that a call implies a handle and
a handle implies an open queue (`HandleShape`); that an exclusive job is alone
needs that a batch still being collected is a group (`GroupShape`) and that the
call of a thread with a job in the line does not change, which again needs
`JobInOnePlace`. `LineStep` summarises every action as one of four moves of the
line `batch \o jobs` (kept, a job admitted, the head answered, an answer
delivered); the invariant of places, the balance of the counters and the
refinement all rest on it.
`CapacityAssumption` and `MaxJobsAssumption` are what
`validate_pool_options` enforces.

*GroupCommit.* Durability says nothing about the time before COMMIT, so the
invariant says what the transaction holds back in each phase (`Held`): with
`Succeeded` the jobs that have an Ok so far, the savepoint's mark holds all of
their effects and none of any other groupable job's (`Settled`), and the effects
beyond the mark are the first statements of the current job. `Batch` says that
the jobs are distinct and unanswered, `OnDisk` and `Reports` that the disk agrees with
the answers sent and with those about to be. Transactions that callbacks leave
open hold nothing of a groupable job, which is why BEGIN starts clean or fails.
`Blame` is a second invariant on top, for failure isolation. The refinement maps
COMMIT to the commit of `Succeeded`, a response to a reply, a crash to the loss
of the batch's callers, and all else to a stutter. The assumptions are those of
the model about the engine (section 2); `ErrLeavesNothing` holds for `Spec`, in
which no statement text ends the transaction, and fails for `SpecAnySql`.

*ReadPool.* `Calls` ties leases, waits and marks to where a thread is. Every
action takes a connection, gives one back or leaves the stack alone
(`StackStep`), and that one connection moves between the idle and the lent is
one lemma about sets (`MovedElement`). `NoLostReturn` compares the number of
notified threads with the number of idle connections; a return adds one to
both, and a thread that takes a connection takes one from both unless it was
never asleep, in which case it has taken one from the idle only.

*WalMaintenance.* Attempts and pressure are inductive with the types (`WalInv`).
The work is in `ReclaimableExact`: however the snapshots lie, there is a last
frame a checkpoint may copy, it does not fall behind what was copied before and
it passes no reader; from this follow what a checkpoint leaves and hence what
`record_checkpoint` concludes. The first two theorems hold for `SpecShared` as
well; the action properties need that nobody else checkpoints (`Alone`), and
`wal_shared` shows that `PressureNotForgotten` fails otherwise. It excepts two
steps of the callers, a new policy and the checkpoint of an attached database:
the latter may clear the flag although the main log is above the limit.
`PoliciesAssumption` is what `validate_wal_maintenance_options` enforces.

*OpenDatabase.* `KeyedAsAsked` needs that the cipher defaults are those of the
thread in the critical section at each of its steps (`DefaultsOK`). A key is not
lost because, as long as no two openers created at once, every thread that
carries a key the provider made carries the one it keeps (`KeyKept`, for the
file and for each thread), and a thread that is about to create has found the
provider without a key and still does (`PlanOK`). `WrongKeyIsWrong` needs what each
profile that was tried has shown about the file (`Refuted`) and that nobody
changes it meanwhile: an older profile is tried only on a file that had data
before the first look, and such a file keeps its key and format; a file that was
empty then can only get the newest format (`ProfileOK`). `RequestsAssumption`
says that a caller who brings a key brings one that the provider did not
make during the behaviour.

*SchemaRegistry.* `Good` is what any committed content satisfies, `InCallback`
what the content of a transaction satisfies while its callback runs (half of a
change may be there), and `Fresh` relates the snapshot of a call that no other
commit has overtaken to the committed content: same rows, or rows moved by a
migration recorded with them. A commit then replaces one good content by
another, and a stale call never commits. `HistoryIsChain` becomes inductive
only with the fact that no record leads beyond the registered version
(`Linked`): otherwise a new record could overlap an old one. `CallbacksOnce`
needs the exact number of runs inside the transaction, which depends on whether
the callback has begun. A callback may damage the table or an index of another
collection if its own declaration names them; `Touches` says which, and the
lemmas `Apart`, `DdlGood` and `MigratedGood` show that such a callback meets a
name already taken when it is to commit. There is one lemma
per helper of `collection.rs` (`CreateKeeps`, `DropKeeps`, `ReplaceKeeps`,
`RegisteredIs`, `MigratedIs`, ...), and one per action.
`RetryIsQuiet` needs both ends of this: a call that is not overtaken has the
rows of the file before it, so it cannot be in its callback when the migration
is on record (`RetryState`), and `Good` gives it the table and the indexes that
those rows declare (`RowsDetermine`), so it is not refused.
`RegistryStaysTrue`, `OneOwnerEach` and `RetriesAreQuiet` have the hypothesis
`FoldInjective`: no two declared table names differ in case only. The code does
not enforce it, and `schema_case` shows `OneOwner` fail without it; the other
five theorems do not need it. `SchemasAssumption` and `NoneAssumption` type the declarations and keep
`None` apart from what the registry stores.

*FfiHandles.* `Busy` says what a thread may be doing at each point of its call,
`Truth` relates state word, engine statement and column pointer also inside
calls, and `OneCloser` that csgdb_close runs once per handle. With them the
third part of `ReleasedWithLastOwner` shows that a row implies an owner, hence
an open connection. `ErrorsAssumption` says that result codes are not states.

*FaultVfs.* The history counters `seen` and `faults` record what a rule has met.
A rule is armed exactly until `seen` reaches its occurrence, and until then
`match_count` equals `seen`: neither the comparison for equality nor the
saturation of the counter can miss the occurrence. `MaxCount` is any natural
number.

*Records.* `ReadsBack` speaks of an answer, hence of the row that every call
since the write has left alone: the invariant says that keys are unique and that
the row of every remembered record is in the table (`HistoryTrue`). `Rewrite` is
the one lemma behind insert, update, delete and foreign SQL: each removes the
rows of a key and adds at most one of that key. That update writes the row of its
record is `UpdateBindsColumns`: `update_sql` gives column `i` the number `i`
before the key and `i - 1` behind it (`ParameterIs`), and `update_values` lists
the columns in that order with the key at the end (`UpdateValuesAre`). That the
row is read as the record is `RoundTrip` for each field, NaN apart. The
assumptions are the types of Rust (`RecordsAssumption`) and what the macro
checks (`FieldsAssumption`: one key, not an `Option`).

*Predicates.* The definitions on trees are recursive functions, and the library's
theorems on recursion and induction take operators that the provers cannot
instantiate. Two facts replace them. `TreeInduction`: a set that contains a tree
whenever it contains its operands contains all trees, for otherwise one of those
outside has the least height (`LeastNumber`, from the well-foundedness of the
numbers). `TreeRecursion`: equations that give each tree a value from the values
of its operands have a solution. With it `NodesIs`, `DepthIs`, `LeavesIs`,
`MeaningIs`, `EvaluationIs` and `CompileIs` show that each recursive definition
has its type and satisfies its equation. `CompileExact` says, by induction on the
tree, that at depth `d` with `n` nodes before it a tree is accepted exactly when
its depth and all its nodes fit and its leaves are admissible, and that the count
goes on behind its last node. `EvaluationMeans` says that the engine, starting
where the parameters of a tree start, computes its meaning and stops where they
stop; that is why the parameters must be pushed in the order of the text, through
any nesting.

*Queries.* The invariant `QueryInv` is that of the records, that the plan is the
one its draft gives (`PlanBuilt`), that the table is a finite set of rows with
values of its columns and keys other than NULL (`TableTyped`), and `AnswerMeans`.
With `EvaluationMeans`, the rows that the engine selects are those asked for
(`MatchingIs`). That it has one order to return them in is `ArrangementIs`: the
terms with the key behind them tell any two rows apart (`TermsDecide`, by the
least term that does), they say the promised order (`TermsSay`), and two lists of
all the rows that rise in the same order are equal (`OneList`, by the first place
where they differ). `LessAssumption` is what this takes from the engine: it does
not sort two values of a column in both ways, and it tells different keys apart.
Transitivity is not needed.

The inductive invariants hold on the instances of section 3 too, where there is
one: TLC was run with each of them as an invariant (`PlanBuilt` with the plan's
own `source` and `limit` for the draft and the limit that it asserts to exist).

Only model-checked: the fairness of
`SerialWriter` in the refinement `ServesInOrder`, and all liveness
(`WaitersWoken`, `TimedCallsReturn`, `ShutdownCompletes`, `ConnectionComesBack`,
`PressureSubsides`), which is outside the prover's reach together with fairness
and ENABLED. Only proved: `FaultVfs` and `DeriveCollection`, which no run
instantiates.

## 5. Not modelled

- `crypto_provider_cache.c`: a cache of cipher contexts inside the crypto
  provider; what it computes is cryptography, and its users cannot tell a hit
  from a miss.
- The command line: it prints the version and the capabilities.
- Text: the token streams of the derive macro, quoting and the exact SQL,
  error messages, redaction of keys in Debug output. The order of parameters
  and the columns they go to are modelled.
- Statement stepping and the accessors of the storage layer, prepared-statement
  caching, and the exported counters that nothing reads: calls into the engine,
  or data without control.
- Durability of the log below COMMIT: a COMMIT that reports an error is assumed
  not to have committed. `fault_injection_recovery.rs` tests this with a failing
  write and a failing sync of the log.
- The logs of attached databases. What a checkpoint of one records is modelled
  (`CheckpointAttached`).
- Two pools at once: the reentrancy marks are per pool, and two callbacks that
  cross between two pools may wait for each other. The code claims no more than
  that a thread does not wait for itself.
- Branches that no call reaches: shutdown on the writer thread (`pool.rs:1122`,
  section 2), and a poisoned lock in the C ABI, where a panic ends the process
  before anybody can see the lock.
