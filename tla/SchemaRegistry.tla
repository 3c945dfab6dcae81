--------------------------- MODULE SchemaRegistry ---------------------------
(***************************************************************************)
(* Typed collections: the registry of schemas, indexes and migrations, and *)
(* the calls that register, migrate and look up a collection               *)
(* (crates/csgdb/src/collection.rs). Several connections, of one process   *)
(* or of several, run these calls against one database file.               *)
(*                                                                         *)
(* A call runs in a deferred transaction. The engine is external: its      *)
(* first statement takes a snapshot, its first write needs the write lock  *)
(* and a snapshot that is still the newest, and a transaction that ends    *)
(* without COMMIT, by an error, a panic or a crash, leaves nothing behind. *)
(* SHA-256 is taken to be injective: a fingerprint is what is hashed.      *)
(***************************************************************************)
EXTENDS Naturals, FiniteSets

CONSTANTS
    Connections,
    Schemas,        \* declarations: [id, table, version, fields, indexes]
    Migrations,     \* calls of migrate_collection: [id, from, to]
    Fold,           \* the engine's view of a table name, which ignores case
    MaxStatements,  \* bound: DDL statements of one migration callback
    MaxDdl,         \* bound: DDL statements of the application elsewhere
    None

ASSUME ConnectionsAssumption == IsFiniteSet(Connections) /\ None \notin Connections
ASSUME BoundsAssumption == MaxStatements \in Nat /\ MaxDdl \in Nat
ASSUME FoldAssumption == \A s \in Schemas : s.table \in DOMAIN Fold

ASSUME MigrationsAssumption == \A m \in Migrations : m.from \in Schemas /\ m.to \in Schemas
ASSUME SchemasAssumption ==
    \A s \in Schemas : s.version \in Nat /\ \A i \in s.indexes : i.unique \in BOOLEAN

Ids == {s.id : s \in Schemas}
MigrationIds == {m.id : m \in Migrations}
Tables == {Fold[s.table] : s \in Schemas}
IndexNames == UNION {{i.name : i \in s.indexes} : s \in Schemas}
Registries == {"__csgdb_schema", "__csgdb_index_schema", "__csgdb_migration"}

VARIABLES
    db,       \* the committed content of the file
    tx,       \* what each connection's transaction sees
    writer,   \* the connection that holds the write lock, or None
    stale,    \* connections whose snapshot is no longer the newest
    call,     \* the call each connection is in
    drifted,  \* history: collections altered by DDL outside a migration
    ddl       \* number of such statements so far

vars == <<db, tx, writer, stale, call, drifted, ddl>>

-----------------------------------------------------------------------------
(* What is derived from a declaration.                                     *)

Fingerprint(s) == [id |-> s.id, table |-> s.table, version |-> s.version,
                   fields |-> s.fields]

\* The rows pragma_table_info has for a table that fits s.
PhysicalColumns(s) ==
    {[name |-> f.column, type |-> f.type, notNull |-> ~f.nullable,
      primaryKey |-> f.primaryKey] : f \in s.fields}

\* Column lists of indexes are sequences, which here are functions of 1 .. n.
Elements(f) == {f[i] : i \in DOMAIN f}

\* The rows of s in __csgdb_index_schema; the last two fields are the part of
\* the fingerprint that the columns of the table do not show.
IndexRows(s) ==
    {[id |-> i.id, name |-> i.name, unique |-> i.unique, columns |-> i.columns,
      table |-> s.table,
      fields |-> {<<f.id, f.column>> : f \in {f \in s.fields : f.column \in Elements(i.columns)}}] :
        i \in s.indexes}

PhysicalIndex(row) == [table |-> Fold[row.table], unique |-> row.unique,
                       columns |-> row.columns]

Row(m, from, to) == [id |-> m, from |-> Fingerprint(from), to |-> Fingerprint(to)]

\* validate_collection_schema
ValidSchema(s) ==
    /\ s.version > 0
    /\ s.fields # {}
    /\ \A f, g \in s.fields : f.id = g.id \/ f.column = g.column => f = g
    /\ Cardinality({f \in s.fields : f.primaryKey}) = 1
    /\ \A f \in s.fields : f.primaryKey => ~f.nullable
    /\ \A i, j \in s.indexes : i.id = j.id \/ i.name = j.name => i = j
    /\ \A i \in s.indexes :
          /\ DOMAIN i.columns # {}
          /\ Elements(i.columns) \subseteq {f.column : f \in s.fields}
          /\ Cardinality(Elements(i.columns)) = Cardinality(DOMAIN i.columns)

\* validate_migration
ValidMigration(from, to) ==
    /\ ValidSchema(from) /\ ValidSchema(to)
    /\ from.id = to.id
    /\ to.version > from.version
    /\ Fingerprint(from) # Fingerprint(to)

-----------------------------------------------------------------------------
(* The content of a database. A table without columns does not exist.      *)

Shapes == {{}} \union {PhysicalColumns(s) : s \in Schemas}
PhysicalIndexes ==
    [table : Tables, unique : BOOLEAN,
     columns : UNION {{i.columns : i \in s.indexes} : s \in Schemas}]
Rows == [id : MigrationIds, from : {Fingerprint(s) : s \in Schemas},
         to : {Fingerprint(s) : s \in Schemas}]

Databases ==
    [registries : SUBSET Registries,
     schema : [Ids -> {Fingerprint(s) : s \in Schemas} \union {None}],
     indexRows : [Ids -> {IndexRows(s) : s \in Schemas} \union {{}}],
     history : [Ids -> SUBSET Rows],
     tables : [Tables -> Shapes],
     indexes : [IndexNames -> PhysicalIndexes \union {None}],
     effects : [Ids -> [MigrationIds -> Nat]]]

\* `effects` counts the committed runs of each migration callback: the data
\* of the collection as far as the properties tell it apart.
EmptyDatabase ==
    [registries |-> {},
     schema |-> [id \in Ids |-> None],
     indexRows |-> [id \in Ids |-> {}],
     history |-> [id \in Ids |-> {}],
     tables |-> [t \in Tables |-> {}],
     indexes |-> [n \in IndexNames |-> None],
     effects |-> [id \in Ids |-> [m \in MigrationIds |-> 0]]]

\* A file of the release that knew neither indexes nor migrations.
LegacyDatabase(s) ==
    [EmptyDatabase EXCEPT !.registries = {"__csgdb_schema"},
                          !.schema[s.id] = Fingerprint(s),
                          !.tables[Fold[s.table]] = PhysicalColumns(s)]

\* initialize_schema_registries
InitializeRegistries(d) == [d EXCEPT !.registries = Registries]

\* ensure_registered_schema_matches, on the row find_registered_schema found
SchemaMatches(d, s) == d.schema[s.id] = Fingerprint(s)

\* validate_registered_indexes
IndexesMatch(d, s) == d.indexRows[s.id] = IndexRows(s)

\* validate_physical_table
TableFits(d, s) == d.tables[Fold[s.table]] = PhysicalColumns(s)

\* validate_physical_indexes
IndexesFit(d, s) ==
    \A row \in IndexRows(s) : d.indexes[row.name] = PhysicalIndex(row)

\* Mutant: neither the query nor the constraint.
UnclaimedUnchecked(d, s) == TRUE

\* ensure_table_is_unclaimed; UNIQUE on table_name demands the same again.
Unclaimed(d, s) ==
    \A id \in Ids \ {s.id} : d.schema[id] # None => d.schema[id].table # s.table

\* The UNIQUE constraint on index_name, for the rows of s.
IndexNamesFree(d, s) ==
    \A id \in Ids \ {s.id} :
        {row.name : row \in d.indexRows[id]} \cap {i.name : i \in s.indexes} = {}

\* CREATE TABLE IF NOT EXISTS
CreateTable(d, s) ==
    IF d.tables[Fold[s.table]] = {}
    THEN [d EXCEPT !.tables[Fold[s.table]] = PhysicalColumns(s)]
    ELSE d

\* insert_registered_schema, update_registered_schema
WriteSchema(d, s) == [d EXCEPT !.schema[s.id] = Fingerprint(s)]

\* insert_registered_indexes after an optional DELETE of the old rows
WriteIndexRows(d, s) == [d EXCEPT !.indexRows[s.id] = IndexRows(s)]

\* insert_migration
InsertMigration(d, m, from, to) ==
    [d EXCEPT !.history[from.id] = @ \union {Row(m, from, to)}]

DropIndexes(d, names) ==
    [d EXCEPT !.indexes = [n \in IndexNames |-> IF n \in names THEN None ELSE @[n]]]

\* create_declared_indexes: CREATE INDEX IF NOT EXISTS for each of them
CreateIndexes(d, s) ==
    [d EXCEPT !.indexes =
        [n \in IndexNames |->
            IF @[n] = None /\ \E row \in IndexRows(s) : row.name = n
            THEN PhysicalIndex(CHOOSE row \in IndexRows(s) : row.name = n)
            ELSE @[n]]]

\* replace_declared_indexes: an index that did not change is kept
ReplaceIndexes(d, from, to) ==
    CreateIndexes(
        DropIndexes(d, {row.name : row \in IndexRows(from) \ IndexRows(to)}), to)

-----------------------------------------------------------------------------
(* DDL that the application runs, in a migration callback or elsewhere.    *)

IndexesOn(d, t) == {n \in IndexNames : d.indexes[n] # None /\ d.indexes[n].table = t}
ColumnNames(shape) == {c.name : c \in shape}

\* Dropping or rebuilding a table takes its indexes along.
Rebuilt(d, tables) ==
    {[DropIndexes(d, IndexesOn(d, t)) EXCEPT !.tables[t] = shape] :
        t \in tables, shape \in Shapes}

\* ALTER TABLE keeps them and may not remove a column they use.
Altered(d, tables) ==
    {[d EXCEPT !.tables[ts[1]] = ts[2]] :
        ts \in {ts \in tables \X (Shapes \ {{}}) :
                  /\ d.tables[ts[1]] # {}
                  /\ \A n \in IndexesOn(d, ts[1]) :
                        Elements(d.indexes[n].columns) \subseteq ColumnNames(ts[2])}}

Renamed(d, tables) ==
    {[d EXCEPT !.tables = [@ EXCEPT ![tu[1]] = {}, ![tu[2]] = d.tables[tu[1]]],
               !.indexes = [n \in IndexNames |->
                              IF n \in IndexesOn(d, tu[1])
                              THEN [@[n] EXCEPT !.table = tu[2]]
                              ELSE @[n]]] :
        tu \in {tu \in tables \X tables : d.tables[tu[1]] # {} /\ d.tables[tu[2]] = {}}}

IndexDropped(d, names) == {DropIndexes(d, {n}) : n \in names}

IndexCreated(d, names) ==
    {[d EXCEPT !.indexes[np[1]] = np[2]] :
        np \in {np \in names \X PhysicalIndexes :
                  /\ d.indexes[np[1]] = None
                  /\ Elements(np[2].columns) \subseteq ColumnNames(d.tables[np[2].table])}}

AfterDdl(d, tables, names) ==
    (UNION {Rebuilt(d, tables), Altered(d, tables), Renamed(d, tables),
            IndexDropped(d, names), IndexCreated(d, names)}) \ {d}

-----------------------------------------------------------------------------
(* Calls. `to` is the declaration given to register_collection too.        *)

Idle == [pc |-> "idle"]
Done(k, result) == [k EXCEPT !.pc = "done", !.result = result]
At(c, pc) == call[c].pc = pc

Success == {"Created", "AlreadyRegistered", "Applied", "AlreadyApplied"}
Failure == {"InvalidSchema", "InvalidMigration", "SchemaMismatch",
            "MigrationMismatch", "Failed"}

Running == {"begin", "read", "callback", "finish", "commit"}
Results == Success \union Failure \union {None}
RegisterCalls ==
    [pc : Running \union {"done"}, op : {"register"}, to : Schemas, result : Results]
MigrateCalls ==
    [pc : Running \union {"done"}, op : {"migrate"}, id : MigrationIds, from : Schemas,
     to : Schemas, left : 0 .. MaxStatements, result : Results]
LookupCalls ==
    [pc : {"row", "done"}, op : {"lookup"}, id : Ids, result : {None},
     row : {Fingerprint(s) : s \in Schemas} \union {None}]
Calls == {Idle} \union RegisterCalls \union MigrateCalls \union LookupCalls

\* None stands for a missing row, index, transaction or result, and is none.
ASSUME NoneAssumption ==
    /\ None \notin Databases \union PhysicalIndexes \union Success
    /\ \A s \in Schemas : None # Fingerprint(s)

TypeOK ==
    /\ db \in Databases
    /\ tx \in [Connections -> Databases \union {None}]
    /\ writer \in Connections \union {None}
    /\ stale \subseteq {c \in Connections : tx[c] # None}
    /\ call \in [Connections -> Calls]
    /\ drifted \subseteq Ids
    /\ ddl \in 0 .. MaxDdl

Init ==
    /\ \/ db = EmptyDatabase
       \/ \E s \in Schemas : ValidSchema(s) /\ s.indexes = {} /\ db = LegacyDatabase(s)
    /\ tx = [c \in Connections |-> None]
    /\ writer = None
    /\ stale = {}
    /\ call = [c \in Connections |-> Idle]
    /\ drifted = {}
    /\ ddl = 0

-----------------------------------------------------------------------------
(* Transactions of the engine.                                             *)

MayWrite(c) == writer = c \/ (writer = None /\ c \notin stale)

\* The transaction of c goes away without COMMIT.
Rollback(c) ==
    /\ tx' = [tx EXCEPT ![c] = None]
    /\ writer' = IF writer = c THEN None ELSE writer
    /\ stale' = stale \ {c}
    /\ UNCHANGED <<db, drifted, ddl>>

Refuse(c, error) ==
    /\ call' = [call EXCEPT ![c] = Done(@, error)]
    /\ Rollback(c)

\* Everybody else who holds a snapshot falls behind the file.
Overtaken(c) == {e \in Connections \ {c} : tx[e] # None}

\* The statements so far have turned the content into d; c goes on at pc.
Written(c, d, pc, result) ==
    /\ MayWrite(c)
    /\ tx' = [tx EXCEPT ![c] = d]
    /\ writer' = c
    /\ call' = [call EXCEPT ![c].pc = pc, ![c].result = result]
    /\ UNCHANGED <<db, stale, drifted, ddl>>

\* Nothing was written; c goes on at pc.
Continue(c, pc, result) ==
    /\ call' = [call EXCEPT ![c].pc = pc, ![c].result = result]
    /\ UNCHANGED <<db, tx, writer, stale, drifted, ddl>>

\* BEGIN DEFERRED and initialize_schema_registries. The snapshot is that of
\* the first statement, which writes only if a registry table is missing.
Begin(c) ==
    /\ At(c, "begin")
    /\ db.registries # Registries => writer = None
    /\ tx' = [tx EXCEPT ![c] = InitializeRegistries(db)]
    /\ writer' = IF db.registries # Registries THEN c ELSE writer
    /\ call' = [call EXCEPT ![c].pc = "read"]
    /\ UNCHANGED <<db, stale, drifted, ddl>>

\* COMMIT, and the answer that follows it.
Commit(c) ==
    /\ At(c, "commit")
    /\ db' = IF writer = c THEN tx[c] ELSE db
    /\ tx' = [tx EXCEPT ![c] = None]
    /\ writer' = IF writer = c THEN None ELSE writer
    /\ stale' = (stale \union IF writer = c THEN Overtaken(c) ELSE {}) \ {c}
    /\ call' = [call EXCEPT ![c].pc = "done"]
    /\ drifted' = IF call[c].result \in {"Created", "Applied"}
                  THEN drifted \ {call[c].to.id} ELSE drifted
    /\ UNCHANGED ddl

\* A statement or COMMIT fails: busy, a stale snapshot, a constraint, I/O.
StorageFails(c) ==
    /\ call[c].pc \in Running
    /\ Refuse(c, "Failed")

Return(c) ==
    /\ At(c, "done")
    /\ call' = [call EXCEPT ![c] = Idle]
    /\ UNCHANGED <<db, tx, writer, stale, drifted, ddl>>

\* The process dies inside a call and is started again.
Crash(c) ==
    /\ ~At(c, "idle")
    /\ call' = [call EXCEPT ![c] = Idle]
    /\ Rollback(c)

-----------------------------------------------------------------------------
(* register_collection                                                     *)

Register(c, s) ==
    /\ At(c, "idle")
    /\ LET k == [pc |-> "begin", op |-> "register", to |-> s, result |-> None]
       IN call' = [call EXCEPT ![c] =
                      IF ValidSchema(s) THEN k ELSE Done(k, "InvalidSchema")]
    /\ UNCHANGED <<db, tx, writer, stale, drifted, ddl>>

\* What must hold of the file when either call succeeds.
Established(d, s) ==
    SchemaMatches(d, s) /\ IndexesMatch(d, s) /\ TableFits(d, s) /\ IndexesFit(d, s)

\* Mutant: rows are compared, the physical table and indexes are not.
RegisterExistingRowsOnly(c) ==
    LET s == call[c].to IN
    /\ At(c, "read") /\ call[c].op = "register"
    /\ tx[c].schema[s.id] # None
    /\ IF SchemaMatches(tx[c], s) /\ IndexesMatch(tx[c], s)
       THEN Continue(c, "commit", "AlreadyRegistered")
       ELSE Refuse(c, "SchemaMismatch")

\* The collection has a row: the declaration is compared, nothing is written.
RegisterExisting(c) ==
    LET s == call[c].to IN
    /\ At(c, "read") /\ call[c].op = "register"
    /\ tx[c].schema[s.id] # None
    /\ IF Established(tx[c], s)
       THEN Continue(c, "commit", "AlreadyRegistered")
       ELSE Refuse(c, "SchemaMismatch")

\* The statements of a first registration, up to its physical validation.
Registered(d, s) ==
    WriteIndexRows(CreateIndexes(WriteSchema(CreateTable(d, s), s), s), s)

\* The collection has no row: its table is created or adopted.
RegisterNew(c) ==
    LET s == call[c].to
        d == Registered(tx[c], s)
    IN  /\ At(c, "read") /\ call[c].op = "register"
        /\ tx[c].schema[s.id] = None
        /\ IF ~Unclaimed(tx[c], s) THEN Refuse(c, "SchemaMismatch")
           ELSE IF ~IndexNamesFree(tx[c], s) THEN Refuse(c, "Failed")
           ELSE IF ~(TableFits(d, s) /\ IndexesFit(d, s)) THEN Refuse(c, "SchemaMismatch")
           ELSE Written(c, d, "commit", "Created")

-----------------------------------------------------------------------------
(* migrate_collection                                                      *)

Migrate(c, m) ==
    /\ At(c, "idle")
    /\ LET k == [pc |-> "begin", op |-> "migrate", id |-> m.id, from |-> m.from,
                 to |-> m.to, left |-> MaxStatements, result |-> None]
       IN call' = [call EXCEPT ![c] =
                      IF ValidMigration(m.from, m.to) THEN k ELSE Done(k, "InvalidMigration")]
    /\ UNCHANGED <<db, tx, writer, stale, drifted, ddl>>

\* find_migration
Recorded(d, m, id) == \E row \in d.history[id] : row.id = m

\* The identifier is on record: the call repeats it or misuses it.
MigrateRecorded(c) ==
    LET k == call[c] IN
    /\ At(c, "read") /\ k.op = "migrate"
    /\ Recorded(tx[c], k.id, k.from.id)
    /\ IF Row(k.id, k.from, k.to) \in tx[c].history[k.from.id] /\ Established(tx[c], k.to)
       THEN Continue(c, "commit", "AlreadyApplied")
       ELSE Refuse(c, "MigrationMismatch")

\* Mutant: the physical table decides, whatever version is registered.
MigrateNewUnanchored(c) ==
    LET k == call[c] IN
    /\ At(c, "read") /\ k.op = "migrate"
    /\ ~Recorded(tx[c], k.id, k.from.id)
    /\ IF tx[c].schema[k.from.id] = None THEN Refuse(c, "MigrationMismatch")
       ELSE IF ~(TableFits(tx[c], k.from) /\ IndexesFit(tx[c], k.from))
       THEN Refuse(c, "SchemaMismatch")
       ELSE Continue(c, "callback", None)

\* The identifier is new: the old endpoint is validated before the callback.
MigrateNew(c) ==
    LET k == call[c] IN
    /\ At(c, "read") /\ k.op = "migrate"
    /\ ~Recorded(tx[c], k.id, k.from.id)
    /\ IF ~(SchemaMatches(tx[c], k.from) /\ IndexesMatch(tx[c], k.from))
       THEN Refuse(c, "MigrationMismatch")
       ELSE IF ~(TableFits(tx[c], k.from) /\ IndexesFit(tx[c], k.from))
       THEN Refuse(c, "SchemaMismatch")
       ELSE Continue(c, "callback", None)

\* The callback has begun to work.
CountRun(d, id, m) == [d EXCEPT !.effects[id][m] = @ + 1]

\* The callback runs a statement on the tables and indexes of its endpoints.
CallbackStatement(c) ==
    LET k == call[c]
        names == {i.name : i \in k.from.indexes \union k.to.indexes}
    IN  /\ At(c, "callback")
        /\ k.left > 0
        /\ MayWrite(c)
        /\ \E d \in AfterDdl(tx[c], {Fold[k.from.table], Fold[k.to.table]}, names) :
              tx' = [tx EXCEPT ![c] =
                        IF k.left = MaxStatements
                        THEN CountRun(d, k.from.id, k.id) ELSE d]
        /\ writer' = c
        /\ call' = [call EXCEPT ![c].left = @ - 1]
        /\ UNCHANGED <<db, stale, drifted, ddl>>

CallbackReturns(c) == At(c, "callback") /\ Continue(c, "finish", None)

\* It returns an error or panics; the transaction is dropped.
CallbackFails(c) == At(c, "callback") /\ Refuse(c, "Failed")

\* Mutant: update_registered_schema is given the old endpoint.
MigratedKeepsRow(d, m, from, to) ==
    InsertMigration(WriteIndexRows(WriteSchema(ReplaceIndexes(d, from, to), from), to),
                    m, from, to)

\* Mutant: the migration is not recorded.
MigratedUnrecorded(d, m, from, to) ==
    WriteIndexRows(WriteSchema(ReplaceIndexes(d, from, to), to), to)

\* The statements after the callback.
Migrated(d, m, from, to) ==
    InsertMigration(WriteIndexRows(WriteSchema(ReplaceIndexes(d, from, to), to), to),
                    m, from, to)

\* Mutant: the work of the callback is not validated.
MigrateFinishTrusting(c) ==
    LET k == call[c]
        d == Migrated(tx[c], k.id, k.from, k.to)
    IN  /\ At(c, "finish")
        /\ IF ~Unclaimed(tx[c], k.to) THEN Refuse(c, "SchemaMismatch")
           ELSE IF ~IndexNamesFree(tx[c], k.to) THEN Refuse(c, "Failed")
           ELSE Written(c, d, "commit", "Applied")

\* The target is validated, indexes and registries follow. The order of the
\* tests decides only which error is returned.
MigrateFinish(c) ==
    LET k == call[c]
        d == Migrated(tx[c], k.id, k.from, k.to)
    IN  /\ At(c, "finish")
        /\ IF ~(/\ Unclaimed(tx[c], k.to)
                /\ TableFits(tx[c], k.to)
                /\ IndexesFit(ReplaceIndexes(tx[c], k.from, k.to), k.to))
           THEN Refuse(c, "SchemaMismatch")
           ELSE IF ~IndexNamesFree(tx[c], k.to) THEN Refuse(c, "Failed")
           ELSE Written(c, d, "commit", "Applied")

-----------------------------------------------------------------------------
(* registered_schema: two statements, each with a snapshot of its own.     *)

Lookup(c, id) ==
    /\ At(c, "idle")
    /\ call' = [call EXCEPT ![c] =
          [pc |-> IF "__csgdb_schema" \in db.registries THEN "row" ELSE "done",
           op |-> "lookup", id |-> id, result |-> None, row |-> None]]
    /\ UNCHANGED <<db, tx, writer, stale, drifted, ddl>>

LookupRow(c) ==
    /\ At(c, "row")
    /\ call' = [call EXCEPT ![c].pc = "done", ![c].row = db.schema[call[c].id]]
    /\ UNCHANGED <<db, tx, writer, stale, drifted, ddl>>

-----------------------------------------------------------------------------

\* The application runs DDL outside a migration, in a statement of its own.
Owned(d, id) ==
    <<d.tables[Fold[d.schema[id].table]],
      {<<row, d.indexes[row.name]>> : row \in d.indexRows[id]}>>

Ddl ==
    /\ ddl < MaxDdl
    /\ writer = None
    /\ db' \in AfterDdl(db, Tables, IndexNames)
    /\ drifted' = drifted \union
          {id \in Ids : db.schema[id] # None /\ Owned(db, id) # Owned(db', id)}
    /\ stale' = {c \in Connections : tx[c] # None}
    /\ ddl' = ddl + 1
    /\ UNCHANGED <<tx, writer, call>>

Next ==
    \/ \E c \in Connections :
          \/ \E s \in Schemas : Register(c, s)
          \/ \E m \in Migrations : Migrate(c, m)
          \/ \E id \in Ids : Lookup(c, id)
          \/ Begin(c) \/ Commit(c) \/ StorageFails(c) \/ Return(c) \/ Crash(c)
          \/ RegisterExisting(c) \/ RegisterNew(c)
          \/ MigrateRecorded(c) \/ MigrateNew(c) \/ MigrateFinish(c)
          \/ CallbackStatement(c) \/ CallbackReturns(c) \/ CallbackFails(c)
          \/ LookupRow(c)
    \/ Ddl

Spec == Init /\ [][Next]_vars

-----------------------------------------------------------------------------
(* Properties.                                                             *)

\* A collection that is registered, and was left alone by other DDL, has the
\* table and the indexes its registry rows describe, whatever callbacks did,
\* failed or crashed, and however calls of several connections interleaved.
RegistryTrue ==
    \A id \in Ids \ drifted :
        db.schema[id] # None =>
            \E s \in Schemas : s.id = id /\ Established(db, s)

\* A physical table belongs to one collection (ensure_table_is_unclaimed,
\* UNIQUE on table_name; ADR 0005).
OneOwner ==
    \A i, j \in Ids :
        i # j /\ db.schema[i] # None /\ db.schema[j] # None =>
            Fold[db.schema[i].table] # Fold[db.schema[j].table]

\* The recorded migrations of a collection are a chain of version steps that
\* ends at the registered schema: each migration starts where exactly one
\* other one ended, save the first, and none forks or overlaps.
HistoryIsChain ==
    \A id \in Ids : \A row \in db.history[id] :
        /\ row.from.version < row.to.version
        /\ row.to = db.schema[id] \/ \E next \in db.history[id] : next.from = row.to
        /\ \A other \in db.history[id] \ {row} :
              /\ other.id # row.id
              /\ \/ other.to.version <= row.from.version
                 \/ row.to.version <= other.from.version

\* The work of a migration callback is in the file at most once, and only
\* together with its record: a retry after an error, a crash or a lost answer
\* never repeats it (migrate_collection, find_migration, insert_migration).
CallbacksOnce ==
    \A id \in Ids, m \in MigrationIds :
        /\ db.effects[id][m] <= 1
        /\ db.effects[id][m] = 1 => Recorded(db, m, id)

\* The row of a collection changes only by a migration that is recorded in the
\* same commit and starts at the row it replaces; records are never lost.
MovesByMigration ==
    [][\A id \in Ids :
          /\ db.history[id] \subseteq db'.history[id]
          /\ db.schema[id] # None /\ db'.schema[id] # db.schema[id] =>
                \E row \in db'.history[id] \ db.history[id] :
                    row.from = db.schema[id] /\ row.to = db'.schema[id]]_vars

\* A call that succeeds says something true: rows, table and indexes are those
\* of its declaration at the moment it answers, unless another connection
\* committed after its snapshot (register_collection, migrate_collection).
SuccessIsTrue ==
    [][\A c \in Connections :
          ~At(c, "done") /\ call'[c].pc = "done" /\ call'[c].result \in Success
             => c \in stale \/ Established(db', call'[c].to)]_vars

\* A migration that is in the file, and was the last one of its collection, can
\* be asked for again by whoever lost its answer: a call that no later commit
\* overtakes is neither refused nor given to the callback, whoever committed
\* the migration and whatever failed or crashed since (migrate_collection).
RetryIsQuiet ==
    [][\A c \in Connections \ stale :
          LET k == call[c] IN
          (/\ k.pc \in Running /\ k.op = "migrate"
           /\ Row(k.id, k.from, k.to) \in db.history[k.from.id]
           /\ SchemaMatches(db, k.to) /\ IndexesMatch(db, k.to)
           /\ k.to.id \notin drifted)
          => \/ call'[c].pc \in {"idle", "begin", "read"}
             \/ /\ call'[c].pc \in {"commit", "done"}
                /\ call'[c].result \in {"AlreadyApplied", "Failed"}]_vars

=============================================================================
