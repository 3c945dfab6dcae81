--------------------------- MODULE WalMaintenance ---------------------------
(***************************************************************************)
(* Write-ahead-log maintenance by the writer thread of DatabasePool        *)
(* (WriterRuntime in crates/csgdb/src/pool.rs): after each counted write   *)
(* it may run a PASSIVE checkpoint, it remembers whether a checkpoint left *)
(* more frames behind than the soft limit (pressure), and callers may run  *)
(* checkpoints and replace the policy through the same queue.              *)
(*                                                                         *)
(* The log is external and abstracted to counts: `frames` appended since   *)
(* it was last reset, of which `backfill` are copied to the database file. *)
(* A reader's snapshot is a position in the log that a checkpoint cannot   *)
(* pass; a log that is copied completely and read by nobody starts over    *)
(* with the next commit.                                                   *)
(***************************************************************************)
EXTENDS Integers, FiniteSets

CONSTANTS Readers,          \* connections that may hold a snapshot
          Policies,         \* WalMaintenanceOptions that callers may set
          MaxCommitFrames,  \* bound: frames one commit appends
          MaxFrames         \* bound: frames in the log

\* The options that open_resolved and set_automatic_wal_maintenance accept: an
\* interval or a limit of 0 is refused.
WalMaintenanceOptions ==
    [enabled : BOOLEAN, interval : Nat \ {0}, limit : Nat \ {0}]

ASSUME PoliciesAssumption == Policies \subseteq WalMaintenanceOptions
ASSUME BoundsAssumption ==
    MaxFrames \in Nat /\ MaxCommitFrames \in 0 .. MaxFrames /\ Readers # {}

VARIABLES
    frames, backfill,  \* the log of the main database
    snapshot,          \* the position each reader reads at, or NoSnapshot
    foreign,           \* does a connection outside the pool checkpoint now?
    phase,             \* "idle", or "after" a counted write
    maintenance,       \* WriterRuntime::maintenance
    commits,           \* WriterRuntime::commits_since_maintenance
    pressure,          \* WriterRuntime::wal_pressure
    shown,             \* PoolMetrics::wal_pressure_active
    lastRemaining,     \* PoolMetrics::last_remaining_wal_frames
    engineAuto         \* is the engine's own auto-checkpoint on?

log == <<frames, backfill>>
runtime == <<maintenance, commits, pressure, shown, lastRemaining>>
walVars == <<log, snapshot, foreign, phase, runtime, engineAuto>>

NoSnapshot == -1

WalTypeOK ==
    /\ frames \in 0 .. MaxFrames /\ backfill \in 0 .. frames
    /\ snapshot \in [Readers -> {NoSnapshot} \union 0 .. frames]
    /\ foreign \in BOOLEAN
    /\ phase \in {"idle", "after"}
    /\ maintenance \in WalMaintenanceOptions
    /\ commits \in Nat
    /\ pressure \in BOOLEAN /\ shown \in BOOLEAN
    /\ lastRemaining \in 0 .. MaxFrames
    /\ engineAuto \in BOOLEAN

\* open_resolved turns the engine's auto-checkpoint off when it enables its own.
WalInit ==
    /\ frames = 0 /\ backfill = 0
    /\ snapshot = [r \in Readers |-> NoSnapshot]
    /\ foreign = FALSE
    /\ phase = "idle"
    /\ maintenance \in Policies
    /\ commits = 0
    /\ pressure = FALSE /\ shown = FALSE
    /\ lastRemaining = 0
    /\ engineAuto = ~maintenance.enabled

-----------------------------------------------------------------------------
(* The engine's log.                                                       *)

NoReaders == \A r \in Readers : snapshot[r] = NoSnapshot

\* How far a checkpoint can copy: up to the oldest snapshot.
Reclaimable ==
    CHOOSE n \in backfill .. frames :
        /\ \A r \in Readers : snapshot[r] # NoSnapshot =>
                                 n =< snapshot[r] \/ n = backfill
        /\ \A m \in n + 1 .. frames :
              \E r \in Readers : snapshot[r] # NoSnapshot /\ m > snapshot[r]

\* A reader of a completely copied log reads the database file only: such a
\* snapshot does not keep the log from starting over, and blocks copying.
BeginSnapshot(r) ==
    /\ snapshot[r] = NoSnapshot
    /\ snapshot' = [snapshot EXCEPT ![r] = IF backfill = frames THEN 0 ELSE frames]
    /\ UNCHANGED <<log, foreign, phase, runtime, engineAuto>>

EndSnapshot(r) ==
    /\ snapshot[r] # NoSnapshot
    /\ snapshot' = [snapshot EXCEPT ![r] = NoSnapshot]
    /\ UNCHANGED <<log, foreign, phase, runtime, engineAuto>>

LogRestarts ==
    backfill = frames /\ \A r \in Readers : snapshot[r] =< 0

AppendFrames(n) ==
    IF LogRestarts /\ n > 0 THEN frames' = n /\ backfill' = 0
    ELSE /\ frames + n =< MaxFrames
         /\ frames' = frames + n
         /\ UNCHANGED backfill

-----------------------------------------------------------------------------
(* WriterRuntime.                                                          *)

\* Mutant: the exported flag follows the backlog, the runtime keeps its own.
RecordLatches(remaining) ==
    /\ lastRemaining' = remaining
    /\ pressure' = (pressure \/ remaining > maintenance.limit)
    /\ shown' = (remaining > maintenance.limit)

\* Mutant: any progress ends the pressure.
RecordForgets(remaining) ==
    /\ lastRemaining' = remaining
    /\ pressure' = (~pressure /\ remaining > maintenance.limit)
    /\ shown' = (~pressure /\ remaining > maintenance.limit)

\* record_checkpoint: `remaining` is what CheckpointResult::remaining_frames
\* gives, or 0 for None.
Record(remaining) ==
    /\ lastRemaining' = remaining
    /\ pressure' = (remaining > maintenance.limit)
    /\ shown' = (remaining > maintenance.limit)

\* A checkpoint that gets the engine's checkpoint lock reports exact counts; one
\* that does not is BUSY with no counts, which storage reports as Ok.
CheckpointMain ==
    /\ backfill' = IF foreign THEN backfill ELSE Reclaimable
    /\ UNCHANGED frames
    /\ Record(IF foreign THEN 0 ELSE frames - backfill')

\* A counted job: an exclusive write, whatever it returned, or a group that
\* committed something.
Write ==
    /\ phase = "idle"
    /\ \E n \in 0 .. MaxCommitFrames : AppendFrames(n)
    /\ phase' = "after"
    /\ UNCHANGED <<snapshot, foreign, runtime, engineAuto>>

\* Mutants: an interval too late; pressure does not count.
DueLate == pressure \/ commits >= maintenance.interval

DueByIntervalOnly == commits + 1 >= maintenance.interval

\* after_write returns early.
Due == pressure \/ commits + 1 >= maintenance.interval

SkipMaintenance ==
    /\ phase = "after"
    /\ ~maintenance.enabled \/ ~Due
    /\ commits' = IF maintenance.enabled THEN commits + 1 ELSE commits
    /\ phase' = "idle"
    /\ UNCHANGED <<log, snapshot, foreign, maintenance, pressure, shown,
                   lastRemaining, engineAuto>>

Maintain ==
    /\ phase = "after"
    /\ maintenance.enabled /\ Due
    /\ commits' = 0
    /\ CheckpointMain
    /\ phase' = "idle"
    /\ UNCHANGED <<snapshot, foreign, maintenance, engineAuto>>

\* The checkpoint fails with an error other than lock contention.
MaintenanceFails ==
    /\ phase = "after"
    /\ maintenance.enabled /\ Due
    /\ commits' = 0
    /\ phase' = "idle"
    /\ UNCHANGED <<log, snapshot, foreign, maintenance, pressure, shown,
                   lastRemaining, engineAuto>>

\* With engine auto-checkpointing a commit may checkpoint behind the runtime.
EngineCheckpoint ==
    /\ engineAuto /\ phase = "after" /\ ~foreign
    /\ backfill' = Reclaimable
    /\ UNCHANGED <<frames, snapshot, foreign, phase, runtime, engineAuto>>

\* DatabasePool::checkpoint, and checkpoint_database of "main" or of no name, in
\* PASSIVE, FULL or RESTART mode: readers make the last two busy, with the
\* counts they reached.  Without a name the engine checkpoints every database
\* and reports the counts of the main one.
ManualCheckpoint ==
    /\ phase = "idle"
    /\ CheckpointMain
    /\ UNCHANGED <<snapshot, foreign, phase, maintenance, commits, engineAuto>>

\* TRUNCATE also empties a completely copied log that nobody reads.
ManualTruncate ==
    /\ phase = "idle" /\ ~foreign /\ NoReaders
    /\ frames' = 0 /\ backfill' = 0
    /\ Record(0)
    /\ UNCHANGED <<snapshot, foreign, phase, maintenance, commits, engineAuto>>

\* checkpoint_database of an attached database leaves the main log alone, but
\* record_checkpoint is not told which database the counts are of.  They are
\* whatever that log, which is not modelled, has left.
CheckpointAttached ==
    /\ phase = "idle"
    /\ \E remaining \in 0 .. MaxFrames : Record(remaining)
    /\ UNCHANGED <<log, snapshot, foreign, phase, maintenance, commits, engineAuto>>

\* disable_automatic_maintenance keeps the interval and the limit.
SetWalAutocheckpoint ==
    /\ phase = "idle"
    /\ engineAuto' \in BOOLEAN
    /\ maintenance' = [maintenance EXCEPT !.enabled = FALSE]
    /\ commits' = 0
    /\ pressure' = FALSE /\ shown' = FALSE
    /\ UNCHANGED <<log, snapshot, foreign, phase, lastRemaining>>

SetAutomaticWalMaintenance ==
    /\ phase = "idle"
    /\ engineAuto' = FALSE
    /\ maintenance' \in Policies
    /\ commits' = 0
    /\ pressure' = FALSE /\ shown' = FALSE
    /\ UNCHANGED <<log, snapshot, foreign, phase, lastRemaining>>

-----------------------------------------------------------------------------
(* A connection outside the pool, in this process or another one, that     *)
(* checkpoints the same database.  Only SpecShared has these steps.        *)

ForeignBegins ==
    /\ ~foreign
    /\ foreign' = TRUE
    /\ UNCHANGED <<log, snapshot, phase, runtime, engineAuto>>

ForeignEnds ==
    /\ foreign
    /\ foreign' = FALSE
    /\ backfill' = Reclaimable
    /\ UNCHANGED <<frames, snapshot, phase, runtime, engineAuto>>

-----------------------------------------------------------------------------

Policy == SetWalAutocheckpoint \/ SetAutomaticWalMaintenance
AfterWrite == SkipMaintenance \/ Maintain \/ MaintenanceFails

\* A pool that has nothing but its main database.
MainNext ==
    \/ \E r \in Readers : BeginSnapshot(r) \/ EndSnapshot(r)
    \/ Write \/ EngineCheckpoint \/ AfterWrite
    \/ ManualCheckpoint \/ ManualTruncate
    \/ Policy

WalNext == MainNext \/ CheckpointAttached

\* The writer finishes the job it has begun.
WalFairness == WF_walVars(AfterWrite)

WalSpec == WalInit /\ [][WalNext]_walVars /\ WalFairness
SpecShared == WalInit /\ [][MainNext \/ ForeignBegins \/ ForeignEnds]_walVars

-----------------------------------------------------------------------------
(* Properties.                                                             *)

\* At most `interval` counted writes go by without an attempt: between jobs
\* the counter is below the interval, also after the policy was replaced
\* (after_write).
AttemptWithinInterval ==
    maintenance.enabled => commits < maintenance.interval

\* The exported pressure flag is the one the writer acts on, and when it is up
\* the exported backlog exceeds the limit in force (record_checkpoint and the
\* two setters, which write the runtime and the metrics separately).
PressureExplained ==
    /\ shown = pressure
    /\ shown => lastRemaining > maintenance.limit

\* "After a maintenance run finds more unreclaimed frames than the soft limit,
\* the writer retries PASSIVE after every later write" (docs/public-api.md,
\* section 8): the flag is given up only when the log really is back under the
\* limit, or by a caller: one that replaces the policy, or one that checkpoints
\* an attached database, whose backlog record_checkpoint then takes for that of
\* the main log.  Nothing the pool does by itself forgets the pressure.
PressureNotForgotten ==
    [][maintenance.enabled /\ pressure /\ ~pressure' =>
          \/ frames' - backfill' =< maintenance.limit
          \/ Policy \/ CheckpointAttached]_walVars

\* Under pressure each counted write ends with everything reclaimed that the
\* readers of that moment allow, unless the checkpoint itself failed.
RetriesUnderPressure ==
    [][AfterWrite /\ pressure /\ maintenance.enabled =>
          backfill' = Reclaimable \/ MaintenanceFails]_walVars

\* Pressure does not outlive its cause: if from some point on no snapshot is
\* held and no maintenance fails, writes continue and maintenance stays
\* enabled, then pressure, whenever it is found, ends again.
PressureSubsides ==
    (/\ <>[](NoReaders /\ maintenance.enabled)
     /\ <>[][~MaintenanceFails]_walVars
     /\ []<>(phase = "after"))
        => (pressure ~> ~pressure)

=============================================================================
