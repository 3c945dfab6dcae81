------------------------ MODULE SchemaRegistryProofs ------------------------
(***************************************************************************)
(* The registry of typed collections, for any declarations, migrations and *)
(* connections: what a commit, a crash or another connection's DDL cannot  *)
(* break, and that the physical tables follow the registry wherever the    *)
(* engine tells the declared table names apart.  First what each statement *)
(* of the registry, a migration callback and DDL of the application keep   *)
(* of the contents of a database; then the state machine.                  *)
(***************************************************************************)
EXTENDS SchemaRegistry, TLAPS

(* What is to be kept.                                                     *)

\* No two declared table names differ in case only.
FoldInjective ==
    \A r, s \in Schemas : Fold[r.table] = Fold[s.table] => r.table = s.table

\* Two contents agree in all but the presence of the registry tables.
SameRows(d, e) == d.schema = e.schema /\ d.indexRows = e.indexRows /\ d.history = e.history
Same(d, e) ==
    SameRows(d, e) /\ d.tables = e.tables /\ d.indexes = e.indexes /\ d.effects = e.effects

\* HistoryIsChain, with the fact that makes it inductive: no record leads beyond
\* the version that is registered.
Linked(rows, row, current) ==
    /\ row.from.version < row.to.version
    /\ current # None /\ row.to.version <= current.version
    /\ row.to = current \/ \E next \in rows : next.from = row.to
    /\ \A other \in rows \ {row} :
          /\ other.id # row.id
          /\ \/ other.to.version <= row.from.version
             \/ row.to.version <= other.from.version

ChainOf(d) ==
    \A id \in Ids : \A row \in d.history[id] : Linked(d.history[id], row, d.schema[id])

OnceOf(d, id, m) ==
    d.effects[id][m] <= 1 /\ (d.effects[id][m] = 1 => Recorded(d, m, id))

\* The two UNIQUE columns of the registries.
NamesUnique(d) ==
    \A i, j \in Ids : i # j =>
        /\ d.schema[i] # None /\ d.schema[j] # None => d.schema[i].table # d.schema[j].table
        /\ {row.name : row \in d.indexRows[i]} \cap {row.name : row \in d.indexRows[j]} = {}

\* The rows of a collection are those of a declaration that its table fits.
TrueOf(d, id) ==
    d.schema[id] # None => \E s \in Schemas : s.id = id /\ Established(d, s)

\* A callback may touch what another collection owns; it then cannot commit.
Touches(d, k, id) ==
    /\ d.schema[id] # None
    /\ \/ Fold[d.schema[id].table] \in {Fold[k.from.table], Fold[k.to.table]}
       \/ \E row \in d.indexRows[id] : row.name \in {i.name : i \in k.from.indexes \union k.to.indexes}

\* A content that may be committed, if `dirty` are the collections altered by DDL.
Good(d, dirty) ==
    /\ ChainOf(d) /\ NamesUnique(d)
    /\ \A id \in Ids, m \in MigrationIds : OnceOf(d, id, m)
    /\ FoldInjective => \A id \in Ids \ dirty : TrueOf(d, id)

\* A content that the callback of k works on.
InCallback(d, k, dirty) ==
    /\ ChainOf(d) /\ NamesUnique(d)
    /\ SchemaMatches(d, k.from) /\ IndexesMatch(d, k.from) /\ ~Recorded(d, k.id, k.from.id)
    /\ d.effects[k.from.id][k.id] = IF k.left = MaxStatements THEN 0 ELSE 1
    /\ \A id \in Ids, m \in MigrationIds : <<id, m>> # <<k.from.id, k.id>> => OnceOf(d, id, m)
    /\ FoldInjective =>
          \A id \in Ids \ (dirty \union {k.from.id}) : TrueOf(d, id) \/ Touches(d, k, id)

\* Rows change by a migration that is recorded with them.
MovesTo(d, e) ==
    \A id \in Ids :
        /\ d.history[id] \subseteq e.history[id]
        /\ d.schema[id] # None /\ e.schema[id] # d.schema[id] =>
              \E row \in e.history[id] \ d.history[id] :
                  row.from = d.schema[id] /\ row.to = e.schema[id]

-----------------------------------------------------------------------------
(* What the statements do to a content.                                    *)

\* The rows of a declaration are about its indexes and its table.
LEMMA RowsTyped ==
    ASSUME NEW s \in Schemas, NEW row \in IndexRows(s)
    PROVE  /\ row.name \in IndexNames /\ row.name \in {i.name : i \in s.indexes}
           /\ row.table = s.table
           /\ PhysicalIndex(row) \in PhysicalIndexes
           /\ PhysicalIndex(row).table = Fold[s.table]
<1>1. PICK i \in s.indexes : /\ row.name = i.name /\ row.unique = i.unique
                             /\ row.columns = i.columns /\ row.table = s.table
  BY DEF IndexRows
<1>2. i.unique \in BOOLEAN
  BY SchemasAssumption, Zenon
<1>3. i.columns \in UNION {{j.columns : j \in u.indexes} : u \in Schemas}
  OBVIOUS
<1>4. Fold[s.table] \in Tables
  BY Zenon DEF Tables
<1>5. PhysicalIndex(row) = [table |-> Fold[s.table], unique |-> i.unique, columns |-> i.columns]
  BY <1>1, Zenon DEF PhysicalIndex
<1>6. PhysicalIndex(row) \in PhysicalIndexes
  BY <1>2, <1>3, <1>4, <1>5 DEF PhysicalIndexes
<1> QED
  BY <1>1, <1>5, <1>6 DEF IndexNames

\* The index names of a declaration are those of its rows.
LEMMA RowNames ==
    ASSUME NEW s \in Schemas, NEW i \in s.indexes
    PROVE  \E row \in IndexRows(s) : row.name = i.name
<1> DEFINE shown == {<<f.id, f.column>> : f \in {f \in s.fields : f.column \in Elements(i.columns)}}
           r == [id |-> i.id, name |-> i.name, unique |-> i.unique, columns |-> i.columns,
                 table |-> s.table, fields |-> shown]
<1>1. r \in IndexRows(s)
  BY Zenon DEF IndexRows
<1>2. r.name = i.name
  BY Zenon
<1> QED
  BY <1>1, <1>2, Zenon

\* DROP INDEX
LEMMA DropKeeps ==
    ASSUME NEW d \in Databases, NEW ns
    PROVE  LET e == DropIndexes(d, ns) IN
           /\ e \in Databases
           /\ e.registries = d.registries /\ SameRows(e, d)
           /\ e.tables = d.tables /\ e.effects = d.effects
           /\ \A n \in IndexNames : e.indexes[n] = IF n \in ns THEN None ELSE d.indexes[n]
BY Zenon DEF DropIndexes, Databases, SameRows

\* create_declared_indexes adds indexes and replaces none.
LEMMA CreateKeeps ==
    ASSUME NEW d \in Databases, NEW s \in Schemas
    PROVE  LET e == CreateIndexes(d, s) IN
           /\ e \in Databases
           /\ e.registries = d.registries /\ SameRows(e, d)
           /\ e.tables = d.tables /\ e.effects = d.effects
           /\ \A n \in IndexNames : d.indexes[n] # None => e.indexes[n] = d.indexes[n]
<1> DEFINE new(n) == PhysicalIndex(CHOOSE row \in IndexRows(s) : row.name = n)
           ix == [n \in IndexNames |->
                    IF d.indexes[n] = None /\ \E row \in IndexRows(s) : row.name = n
                    THEN new(n) ELSE d.indexes[n]]
<1>1. \A n \in IndexNames :
         (\E row \in IndexRows(s) : row.name = n) => new(n) \in PhysicalIndexes
  BY RowsTyped, Zenon
<1>2. CreateIndexes(d, s) = [d EXCEPT !.indexes = ix]
  BY Zenon DEF CreateIndexes, Databases
<1> HIDE DEF new
<1>3. ix \in [IndexNames -> PhysicalIndexes \union {None}]
  BY <1>1, Zenon DEF Databases
<1>4. \A n \in IndexNames : d.indexes[n] # None => ix[n] = d.indexes[n]
  BY Zenon
<1> HIDE DEF ix
<1> QED
  BY <1>2, <1>3, <1>4, Zenon DEF Databases, SameRows

\* DDL, of a callback or of the application, changes only what it names, and
\* the indexes of the tables it names.
LEMMA DdlKeeps ==
    ASSUME NEW d \in Databases, NEW ts \in SUBSET Tables, NEW ns \in SUBSET IndexNames,
           NEW e \in AfterDdl(d, ts, ns)
    PROVE  /\ e \in Databases
           /\ e.registries = d.registries /\ SameRows(e, d) /\ e.effects = d.effects
           /\ \A t \in Tables \ ts : e.tables[t] = d.tables[t]
           /\ \A n \in IndexNames \ ns :
                 \/ e.indexes[n] = d.indexes[n]
                 \/ d.indexes[n] # None /\ d.indexes[n].table \in ts
<1>1. CASE e \in Rebuilt(d, ts)
  <2>1. PICK t \in ts, shape \in Shapes :
           e = [DropIndexes(d, IndexesOn(d, t)) EXCEPT !.tables[t] = shape]
    BY <1>1 DEF Rebuilt
  <2> DEFINE w == DropIndexes(d, IndexesOn(d, t))
  <2>2. /\ w \in Databases
        /\ w.registries = d.registries /\ SameRows(w, d)
        /\ w.tables = d.tables /\ w.effects = d.effects
        /\ \A n \in IndexNames : w.indexes[n] = IF n \in IndexesOn(d, t) THEN None ELSE d.indexes[n]
    BY DropKeeps
  <2>3. e = [w EXCEPT !.tables[t] = shape]
    BY <2>1, Zenon
  <2> HIDE DEF w
  <2>4. /\ e \in Databases
        /\ e.registries = w.registries /\ SameRows(e, w)
        /\ e.indexes = w.indexes /\ e.effects = w.effects
        /\ \A u \in Tables : u # t => e.tables[u] = w.tables[u]
    BY <2>2, <2>3, Zenon DEF Databases, SameRows
  <2> QED
    BY <2>2, <2>4, Zenon DEF SameRows, IndexesOn
<1>2. CASE e \in Altered(d, ts)
  <2>1. PICK p \in ts \X (Shapes \ {{}}) : e = [d EXCEPT !.tables[p[1]] = p[2]]
    BY <1>2, Zenon DEF Altered
  <2>2. p[1] \in ts /\ p[2] \in Shapes
    BY Zenon
  <2>3. /\ e \in Databases
        /\ e.registries = d.registries /\ SameRows(e, d)
        /\ e.indexes = d.indexes /\ e.effects = d.effects
        /\ \A u \in Tables : u # p[1] => e.tables[u] = d.tables[u]
    BY <2>1, <2>2, Zenon DEF Databases, SameRows
  <2> QED
    BY <2>2, <2>3, Zenon
<1>3. CASE e \in Renamed(d, ts)
  <2>1. PICK p \in ts \X ts :
           e = [d EXCEPT !.tables = [@ EXCEPT ![p[1]] = {}, ![p[2]] = d.tables[p[1]]],
                         !.indexes = [n \in IndexNames |->
                              IF n \in IndexesOn(d, p[1])
                              THEN [@[n] EXCEPT !.table = p[2]]
                              ELSE @[n]]]
    BY <1>3, Zenon DEF Renamed
  <2>2. p[1] \in ts /\ p[2] \in ts
    BY Zenon
  <2> DEFINE moved(n) == [d.indexes[n] EXCEPT !.table = p[2]]
             ix == [n \in IndexNames |-> IF n \in IndexesOn(d, p[1]) THEN moved(n) ELSE d.indexes[n]]
             tb == [d.tables EXCEPT ![p[1]] = {}, ![p[2]] = d.tables[p[1]]]
  <2>3. e = [d EXCEPT !.tables = tb, !.indexes = ix]
    BY <2>1, Zenon DEF Databases
  <2>4. ASSUME NEW n \in IndexesOn(d, p[1])
        PROVE  moved(n) \in PhysicalIndexes
    <3>1. d.indexes[n] \in PhysicalIndexes
      BY <2>4, Zenon DEF IndexesOn, Databases
    <3>2. p[2] \in Tables
      BY <2>2, Zenon
    <3> QED
      BY <3>1, <3>2 DEF PhysicalIndexes
  <2>5. tb \in [Tables -> Shapes] /\ \A t \in Tables \ ts : tb[t] = d.tables[t]
    BY <2>2, Zenon DEF Databases, Shapes
  <2> HIDE DEF moved
  <2>6. /\ ix \in [IndexNames -> PhysicalIndexes \union {None}]
        /\ \A n \in IndexNames : n \notin IndexesOn(d, p[1]) => ix[n] = d.indexes[n]
    BY <2>4, Zenon DEF Databases
  <2> HIDE DEF ix, tb
  <2>7. /\ e \in Databases
        /\ e.registries = d.registries /\ SameRows(e, d)
        /\ e.indexes = ix /\ e.tables = tb /\ e.effects = d.effects
    BY <2>3, <2>5, <2>6, Zenon DEF Databases, SameRows
  <2> QED
    BY <2>2, <2>5, <2>6, <2>7, Zenon DEF IndexesOn
<1>4. CASE e \in IndexDropped(d, ns)
  <2>1. PICK n \in ns : e = DropIndexes(d, {n})
    BY <1>4, Zenon DEF IndexDropped
  <2> QED
    BY <2>1, DropKeeps
<1>5. CASE e \in IndexCreated(d, ns)
  <2>1. PICK p \in ns \X PhysicalIndexes : e = [d EXCEPT !.indexes[p[1]] = p[2]]
    BY <1>5, Zenon DEF IndexCreated
  <2>2. p[1] \in ns /\ p[2] \in PhysicalIndexes
    BY Zenon
  <2> QED
    BY <2>1, <2>2, Zenon DEF Databases, SameRows
<1> QED
  BY <1>1, <1>2, <1>3, <1>4, <1>5, Zenon DEF AfterDdl

\* What a first registration writes.
LEMMA RegisteredIs ==
    ASSUME NEW d \in Databases, NEW s \in Schemas
    PROVE  LET e == Registered(d, s) IN
           /\ e \in Databases
           /\ e.schema = [d.schema EXCEPT ![s.id] = Fingerprint(s)]
           /\ e.indexRows = [d.indexRows EXCEPT ![s.id] = IndexRows(s)]
           /\ e.history = d.history /\ e.effects = d.effects
           /\ \A t \in Tables : t # Fold[s.table] => e.tables[t] = d.tables[t]
           /\ \A n \in IndexNames : d.indexes[n] # None => e.indexes[n] = d.indexes[n]
<1> DEFINE w1 == CreateTable(d, s)
           w2 == WriteSchema(w1, s)
           w3 == CreateIndexes(w2, s)
           e == WriteIndexRows(w3, s)
<1>1. s.id \in Ids /\ Fold[s.table] \in Tables
  BY Zenon DEF Ids, Tables
<1>2. /\ w1 \in Databases /\ SameRows(w1, d) /\ w1.indexes = d.indexes /\ w1.effects = d.effects
      /\ \A t \in Tables : t # Fold[s.table] => w1.tables[t] = d.tables[t]
  BY <1>1, Zenon DEF CreateTable, Databases, Shapes, SameRows
<1> HIDE DEF w1
<1>3. /\ w2 \in Databases /\ w2.schema = [w1.schema EXCEPT ![s.id] = Fingerprint(s)]
      /\ w2.indexRows = w1.indexRows /\ w2.history = w1.history
      /\ w2.tables = w1.tables /\ w2.indexes = w1.indexes /\ w2.effects = w1.effects
  BY <1>1, <1>2, ZenonT(30) DEF WriteSchema, Databases
<1> HIDE DEF w2
<1>4. /\ w3 \in Databases /\ SameRows(w3, w2) /\ w3.tables = w2.tables /\ w3.effects = w2.effects
      /\ \A n \in IndexNames : w2.indexes[n] # None => w3.indexes[n] = w2.indexes[n]
  BY <1>3, CreateKeeps, Zenon
<1> HIDE DEF w3
<1>5. /\ e \in Databases /\ e.indexRows = [w3.indexRows EXCEPT ![s.id] = IndexRows(s)]
      /\ e.schema = w3.schema /\ e.history = w3.history
      /\ e.tables = w3.tables /\ e.indexes = w3.indexes /\ e.effects = w3.effects
  BY <1>1, <1>4, Zenon DEF WriteIndexRows, Databases
<1>6. e = Registered(d, s)
  BY Zenon DEF Registered, w1, w2, w3
<1> HIDE DEF e
<1> QED
  BY <1>2, <1>3, <1>4, <1>5, <1>6 DEF SameRows

\* replace_declared_indexes drops indexes of the old declaration only.
LEMMA ReplaceKeeps ==
    ASSUME NEW d \in Databases, NEW from \in Schemas, NEW to \in Schemas
    PROVE  LET e == ReplaceIndexes(d, from, to) IN
           /\ e \in Databases /\ SameRows(e, d) /\ e.tables = d.tables /\ e.effects = d.effects
           /\ \A n \in IndexNames :
                 d.indexes[n] # None /\ n \notin {i.name : i \in from.indexes}
                    => e.indexes[n] = d.indexes[n]
<1> DEFINE ns == {row.name : row \in IndexRows(from) \ IndexRows(to)}
           w == DropIndexes(d, ns)
           e == CreateIndexes(w, to)
<1>1. ns \subseteq {i.name : i \in from.indexes}
  BY RowsTyped, ZenonT(30)
<1> HIDE DEF ns
<1>2. /\ w \in Databases /\ SameRows(w, d) /\ w.tables = d.tables /\ w.effects = d.effects
      /\ \A n \in IndexNames : w.indexes[n] = IF n \in ns THEN None ELSE d.indexes[n]
  BY DropKeeps
<1> HIDE DEF w
<1>3. /\ e \in Databases /\ SameRows(e, w) /\ e.tables = w.tables /\ e.effects = w.effects
      /\ \A n \in IndexNames : w.indexes[n] # None => e.indexes[n] = w.indexes[n]
  BY <1>2, CreateKeeps, Zenon
<1>4. e = ReplaceIndexes(d, from, to)
  BY Zenon DEF ReplaceIndexes, w, ns
<1> HIDE DEF e
<1> QED
  BY <1>1, <1>2, <1>3, <1>4, Zenon DEF SameRows

\* From d to e, the rows of one collection become those of the declaration s.
Replaces(d, e, s) ==
    /\ e.schema[s.id] = Fingerprint(s) /\ e.indexRows[s.id] = IndexRows(s)
    /\ \A id \in Ids \ {s.id} : e.schema[id] = d.schema[id] /\ e.indexRows[id] = d.indexRows[id]

\* From d to e, the migration mid is recorded and the rows become those of tgt.
Records(d, e, mid, old, tgt) ==
    /\ Replaces(d, e, tgt)
    /\ e.history[tgt.id] = d.history[tgt.id] \union {Row(mid, old, tgt)}
    /\ \A id \in Ids \ {tgt.id} : e.history[id] = d.history[id]

\* What a migration writes after its callback.
LEMMA MigratedIs ==
    ASSUME NEW d \in Databases, NEW m \in MigrationIds, NEW from \in Schemas, NEW to \in Schemas,
           from.id = to.id
    PROVE  /\ Migrated(d, m, from, to) \in Databases
           /\ Records(d, Migrated(d, m, from, to), m, from, to)
           /\ Migrated(d, m, from, to).effects = d.effects
           /\ Migrated(d, m, from, to).tables = d.tables
           /\ Migrated(d, m, from, to).indexes = ReplaceIndexes(d, from, to).indexes
<1> DEFINE w1 == ReplaceIndexes(d, from, to)
           w2 == WriteSchema(w1, to)
           w3 == WriteIndexRows(w2, to)
           e == InsertMigration(w3, m, from, to)
<1>1. to.id \in Ids /\ from.id \in Ids /\ Row(m, from, to) \in Rows
  BY Zenon DEF Ids, Rows, Row
<1>2. /\ w1 \in Databases /\ SameRows(w1, d) /\ w1.tables = d.tables /\ w1.effects = d.effects
  BY ReplaceKeeps, Zenon
<1>7. w1.indexes = ReplaceIndexes(d, from, to).indexes
  BY Zenon
<1> HIDE DEF w1
<1>3. /\ w2 \in Databases /\ w2.schema = [w1.schema EXCEPT ![to.id] = Fingerprint(to)]
      /\ w2.indexRows = w1.indexRows /\ w2.history = w1.history
      /\ w2.tables = w1.tables /\ w2.indexes = w1.indexes /\ w2.effects = w1.effects
  BY <1>1, <1>2, ZenonT(30) DEF WriteSchema, Databases
<1> HIDE DEF w2
<1>4. /\ w3 \in Databases /\ w3.indexRows = [w2.indexRows EXCEPT ![to.id] = IndexRows(to)]
      /\ w3.schema = w2.schema /\ w3.history = w2.history
      /\ w3.tables = w2.tables /\ w3.indexes = w2.indexes /\ w3.effects = w2.effects
  BY <1>1, <1>3, ZenonT(30) DEF WriteIndexRows, Databases
<1> HIDE DEF w3
<1>5. /\ e \in Databases
      /\ e.history = [w3.history EXCEPT ![from.id] = @ \union {Row(m, from, to)}]
      /\ e.schema = w3.schema /\ e.indexRows = w3.indexRows
      /\ e.tables = w3.tables /\ e.indexes = w3.indexes /\ e.effects = w3.effects
  BY <1>1, <1>4, ZenonT(30) DEF InsertMigration, Databases
<1>6. e = Migrated(d, m, from, to)
  BY Zenon DEF Migrated, w1, w2, w3
<1> HIDE DEF e
<1>8. /\ e.schema[to.id] = Fingerprint(to)
      /\ \A id \in Ids \ {to.id} : e.schema[id] = d.schema[id]
  BY <1>1, <1>2, <1>3, <1>4, <1>5 DEF SameRows, Databases
<1>9. /\ e.indexRows[to.id] = IndexRows(to)
      /\ \A id \in Ids \ {to.id} : e.indexRows[id] = d.indexRows[id]
  BY <1>1, <1>2, <1>3, <1>4, <1>5 DEF SameRows, Databases
<1>10. /\ e.history[to.id] = d.history[to.id] \union {Row(m, from, to)}
       /\ \A id \in Ids \ {to.id} : e.history[id] = d.history[id]
  BY <1>1, <1>2, <1>3, <1>4, <1>5 DEF SameRows, Databases
<1>11. Records(d, e, m, from, to)
  BY <1>8, <1>9, <1>10, Zenon DEF Records, Replaces
<1>12. /\ e \in Databases /\ e.effects = d.effects /\ e.tables = d.tables
       /\ e.indexes = ReplaceIndexes(d, from, to).indexes
  BY <1>2, <1>3, <1>4, <1>5, <1>7, Zenon
<1> QED
  BY <1>6, <1>11, <1>12, Zenon

-----------------------------------------------------------------------------
(* Contents that may be committed.                                         *)

\* The facts of a content depend on all of it but the registry tables.
LEMMA SameGood ==
    ASSUME NEW d, NEW e, Same(d, e)
    PROVE  /\ \A s : Established(d, s) <=> Established(e, s)
           /\ \A dirty : Good(e, dirty) => Good(d, dirty)
           /\ MovesTo(e, d)
<1>1. \A s : Established(d, s) <=> Established(e, s)
  BY Zenon DEF Same, SameRows, Established, SchemaMatches, IndexesMatch, TableFits, IndexesFit
<1>2. \A id : TrueOf(d, id) <=> TrueOf(e, id)
  BY <1>1, Zenon DEF TrueOf, Same, SameRows
<1>3. \A id, m : OnceOf(d, id, m) <=> OnceOf(e, id, m)
  BY Zenon DEF OnceOf, Recorded, Same, SameRows
<1>4. (ChainOf(d) <=> ChainOf(e)) /\ (NamesUnique(d) <=> NamesUnique(e))
  BY DEF ChainOf, NamesUnique, Same, SameRows
<1>5. MovesTo(e, d)
  BY Zenon DEF MovesTo, Same, SameRows
<1> QED
  BY <1>1, <1>2, <1>3, <1>4, <1>5, Zenon DEF Good

\* From d to e, a collection keeps its rows, its table and its table's indexes.
Untouched(d, e, id) ==
    /\ e.schema[id] = d.schema[id] /\ e.indexRows[id] = d.indexRows[id]
    /\ d.schema[id] # None =>
          LET t == Fold[d.schema[id].table] IN
          /\ e.tables[t] = d.tables[t]
          /\ \A row \in d.indexRows[id] :
                row.name \in IndexNames /\ d.indexes[row.name] # None
                /\ d.indexes[row.name].table = t
                => e.indexes[row.name] = d.indexes[row.name]

\* Such a collection stays true.
LEMMA StillTrue ==
    ASSUME NEW d \in Databases, NEW e \in Databases, NEW id \in Ids, TrueOf(d, id),
           Untouched(d, e, id)
    PROVE  TrueOf(e, id)
<1> SUFFICES ASSUME d.schema[id] # None PROVE \E s \in Schemas : s.id = id /\ Established(e, s)
  BY Zenon DEF TrueOf, Untouched
<1>1. PICK s \in Schemas : s.id = id /\ Established(d, s)
  BY Zenon DEF TrueOf
<1>2. d.schema[id] = Fingerprint(s) /\ d.schema[id].table = s.table /\ d.indexRows[id] = IndexRows(s)
  BY <1>1 DEF Established, SchemaMatches, IndexesMatch, Fingerprint
<1>3. SchemaMatches(e, s) /\ IndexesMatch(e, s) /\ TableFits(e, s)
  BY <1>1, <1>2, Zenon DEF Untouched, Established, SchemaMatches, IndexesMatch, TableFits
<1>4. ASSUME NEW row \in IndexRows(s) PROVE e.indexes[row.name] = PhysicalIndex(row)
  <2>1. d.indexes[row.name] = PhysicalIndex(row)
    BY <1>1, Zenon DEF Established, IndexesFit
  <2>2. /\ row.name \in IndexNames
        /\ PhysicalIndex(row) # None /\ PhysicalIndex(row).table = Fold[s.table]
    BY RowsTyped, NoneAssumption, Zenon
  <2> QED
    BY <1>2, <2>1, <2>2, Zenon DEF Untouched
<1> QED
  BY <1>1, <1>3, <1>4, Zenon DEF Established, IndexesFit

\* Names that were free when they were written stay unique.
LEMMA NamesStayUnique ==
    ASSUME NEW d, NEW e, NEW s \in Schemas, NamesUnique(d), Unclaimed(d, s), IndexNamesFree(d, s),
           Replaces(d, e, s)
    PROVE  NamesUnique(e)
<1> DEFINE names(x, id) == {row.name : row \in x.indexRows[id]}
<1>1. \A id \in Ids \ {s.id} : e.schema[id] # None => e.schema[id].table # e.schema[s.id].table
  <2>1. Fingerprint(s).table = s.table
    BY Zenon DEF Fingerprint
  <2> QED
    BY <2>1, Zenon DEF Replaces, Unclaimed
<1>2. \A id \in Ids \ {s.id} : names(e, id) \cap names(e, s.id) = {}
  <2>1. {row.name : row \in IndexRows(s)} \subseteq {i.name : i \in s.indexes}
    BY RowsTyped, Zenon
  <2> QED
    BY <2>1, Zenon DEF Replaces, IndexNamesFree
<1>3. ASSUME NEW i \in Ids \ {s.id}, NEW j \in Ids \ {s.id}, i # j
      PROVE  /\ e.schema[i] # None /\ e.schema[j] # None => e.schema[i].table # e.schema[j].table
             /\ names(e, i) \cap names(e, j) = {}
  <2>1. /\ e.schema[i] = d.schema[i] /\ e.indexRows[i] = d.indexRows[i]
        /\ e.schema[j] = d.schema[j] /\ e.indexRows[j] = d.indexRows[j]
    BY Zenon DEF Replaces
  <2> QED
    BY <1>3, <2>1, Zenon DEF NamesUnique
<1> HIDE DEF names
<1>4. \A i, j \in Ids : i # j =>
         /\ e.schema[i] # None /\ e.schema[j] # None => e.schema[i].table # e.schema[j].table
         /\ names(e, i) \cap names(e, j) = {}
  BY <1>1, <1>2, <1>3, Zenon
<1> QED
  BY <1>4, Zenon DEF NamesUnique, names

\* register_collection turns a good content into a good one.
LEMMA RegisteredGood ==
    ASSUME NEW d \in Databases, NEW s \in Schemas, NEW dirty, Good(d, dirty),
           d.schema[s.id] = None, Unclaimed(d, s), IndexNamesFree(d, s),
           TableFits(Registered(d, s), s), IndexesFit(Registered(d, s), s)
    PROVE  LET e == Registered(d, s) IN
           /\ e \in Databases /\ Established(e, s)
           /\ Good(e, dirty \ {s.id}) /\ MovesTo(d, e)
<1> DEFINE e == Registered(d, s)
<1>1. /\ e \in Databases
      /\ e.schema = [d.schema EXCEPT ![s.id] = Fingerprint(s)]
      /\ e.indexRows = [d.indexRows EXCEPT ![s.id] = IndexRows(s)]
      /\ e.history = d.history /\ e.effects = d.effects
      /\ \A t \in Tables : t # Fold[s.table] => e.tables[t] = d.tables[t]
      /\ \A n \in IndexNames : d.indexes[n] # None => e.indexes[n] = d.indexes[n]
  BY RegisteredIs, Zenon
<1>2. TableFits(e, s) /\ IndexesFit(e, s)
  BY Zenon
<1> HIDE DEF e
<1>3. s.id \in Ids
  BY Zenon DEF Ids
<1>4. Replaces(d, e, s)
  BY <1>1, <1>3, Zenon DEF Databases, Replaces
<1>5. Established(e, s)
  BY <1>2, <1>4, Zenon DEF Established, SchemaMatches, IndexesMatch, Replaces
<1>6. ChainOf(e)
  <2>1. ASSUME NEW id \in Ids, NEW row \in d.history[id]
        PROVE  Linked(d.history[id], row, d.schema[id]) /\ d.schema[id] # None
    BY Zenon DEF Good, ChainOf, Linked
  <2>2. ASSUME NEW id \in Ids, NEW row \in d.history[id] PROVE e.schema[id] = d.schema[id]
    BY <1>4, <2>1, <2>2, Zenon DEF Replaces
  <2> QED
    BY <1>1, <2>1, <2>2, Zenon DEF ChainOf
<1>7. NamesUnique(e)
  BY <1>4, NamesStayUnique, Zenon DEF Good
<1>8. \A id \in Ids, m \in MigrationIds : OnceOf(e, id, m)
  BY <1>1 DEF Good, OnceOf, Recorded
<1>9. ASSUME FoldInjective, NEW id \in Ids \ (dirty \ {s.id}) PROVE TrueOf(e, id)
  <2>1. CASE id = s.id
    BY <1>5, <2>1, Zenon DEF TrueOf
  <2>2. CASE id # s.id
    <3>1. TrueOf(d, id)
      BY <1>9, <2>2, Zenon DEF Good
    <3>2. ASSUME d.schema[id] # None
          PROVE  Fold[d.schema[id].table] \in Tables /\ Fold[d.schema[id].table] # Fold[s.table]
      <4>1. PICK u \in Schemas : d.schema[id] = Fingerprint(u)
        BY <3>2, Zenon DEF Databases
      <4>2. d.schema[id].table = u.table
        BY <4>1 DEF Fingerprint
      <4> QED
        BY <1>9, <2>2, <3>2, <4>2, Zenon DEF Unclaimed, FoldInjective, Tables
    <3>3. Untouched(d, e, id)
      BY <1>1, <1>4, <2>2, <3>2, Zenon DEF Untouched, Replaces
    <3> QED
      BY <1>1, <3>1, <3>3, StillTrue, Zenon
  <2> QED
    BY <2>1, <2>2, Zenon
<1>10. MovesTo(d, e)
  BY <1>1, <1>4, Zenon DEF MovesTo, Replaces
<1> QED
  BY <1>1, <1>5, <1>6, <1>7, <1>8, <1>9, <1>10, Zenon DEF Good, e

\* A collection that neither owns the names of k nor has been altered is true.
LEMMA Apart ==
    ASSUME NEW d \in Databases, NEW k \in MigrateCalls, NEW dirty, k.from.id = k.to.id,
           InCallback(d, k, dirty),
           Unclaimed(d, k.to), IndexNamesFree(d, k.to), FoldInjective,
           NEW id \in Ids, id # k.to.id
    PROVE  ~Touches(d, k, id)
<1> SUFFICES ASSUME d.schema[id] # None, Touches(d, k, id) PROVE FALSE
  BY Zenon DEF Touches
<1>1. k.from \in Schemas /\ k.to \in Schemas /\ k.from.id \in Ids
  BY Zenon DEF MigrateCalls, Ids
<1>2. PICK u \in Schemas : d.schema[id] = Fingerprint(u)
  BY Zenon DEF Databases
<1>3. d.schema[id].table = u.table
  BY <1>2 DEF Fingerprint
<1>4. d.schema[k.from.id] = Fingerprint(k.from) /\ d.schema[k.from.id].table = k.from.table
  BY DEF InCallback, SchemaMatches, Fingerprint
<1>5. d.schema[k.from.id] # None
  BY <1>1, <1>4, NoneAssumption, Zenon
<1>6. u.table # k.from.table
  BY <1>1, <1>3, <1>4, <1>5, Zenon DEF InCallback, NamesUnique
<1>7. u.table # k.to.table
  BY <1>3, Zenon DEF Unclaimed
<1>8. PICK row \in d.indexRows[id] : row.name \in {i.name : i \in k.from.indexes \union k.to.indexes}
  BY <1>1, <1>3, <1>6, <1>7, Zenon DEF Touches, FoldInjective
<1>9. row.name \notin {i.name : i \in k.to.indexes}
  BY <1>8, Zenon DEF IndexNamesFree
<1>10. PICK i \in k.from.indexes : i.name = row.name
  BY <1>8, <1>9, Zenon
<1>11. PICK own \in d.indexRows[k.from.id] : own.name = row.name
  BY <1>1, <1>10, RowNames DEF InCallback, IndexesMatch
<1>12. {r.name : r \in d.indexRows[id]} \cap {r.name : r \in d.indexRows[k.from.id]} = {}
  BY <1>1, Zenon DEF InCallback, NamesUnique
<1> QED
  BY <1>8, <1>11, <1>12, Zenon

\* A record that starts at the registered version makes the chain longer.
LEMMA ChainGrows ==
    ASSUME NEW rows, NEW current, NEW new, current # None,
           \A row \in rows : /\ Linked(rows, row, current) /\ row.id # new.id
                             /\ row.from.version \in Nat /\ row.to.version \in Nat,
           new.from = current, new.to # None, current.version \in Nat, new.to.version \in Nat,
           current.version < new.to.version
    PROVE  \A row \in rows \union {new} : Linked(rows \union {new}, row, new.to)
<1>1. ASSUME NEW row \in rows PROVE Linked(rows \union {new}, row, new.to)
  <2>1. /\ row.from.version < row.to.version /\ row.to.version <= current.version
        /\ row.to = current \/ \E next \in rows : next.from = row.to
        /\ \A other \in rows \ {row} :
              /\ other.id # row.id
              /\ other.to.version <= row.from.version \/ row.to.version <= other.from.version
    BY <1>1, Zenon DEF Linked
  <2>2. row.to.version <= new.to.version
    BY <1>1, <2>1
  <2>3. row.to = new.to \/ \E next \in rows \union {new} : next.from = row.to
    BY <2>1, Zenon
  <2>4. new.id # row.id /\ row.to.version <= new.from.version
    BY <1>1, <2>1, Zenon
  <2> QED
    BY <2>1, <2>2, <2>3, <2>4, Zenon DEF Linked
<1>2. Linked(rows \union {new}, new, new.to)
  <2>1. \A other \in rows : other.id # new.id /\ other.to.version <= new.from.version
    BY Zenon DEF Linked
  <2> QED
    BY <2>1 DEF Linked
<1> QED
  BY <1>1, <1>2, Zenon

\* So the history stays a chain, and the rows moved along its new record.
LEMMA RecordedChain ==
    ASSUME NEW d \in Databases, NEW e, NEW mid \in MigrationIds,
           NEW old \in Schemas, NEW tgt \in Schemas, old.id = tgt.id, old.version < tgt.version,
           ChainOf(d), SchemaMatches(d, old), ~Recorded(d, mid, old.id),
           Records(d, e, mid, old, tgt)
    PROVE  ChainOf(e) /\ MovesTo(d, e)
<1> DEFINE rows == d.history[tgt.id]
           current == d.schema[tgt.id]
           new == Row(mid, old, tgt)
<1>1. tgt.id \in Ids
  BY Zenon DEF Ids
<1>2. /\ current = Fingerprint(old) /\ e.schema[tgt.id] = Fingerprint(tgt)
      /\ new.id = mid /\ new.from = Fingerprint(old) /\ new.to = Fingerprint(tgt)
  BY Zenon DEF SchemaMatches, Row, Records, Replaces
<1>3. \A s \in Schemas : Fingerprint(s).version = s.version /\ s.version \in Nat /\ Fingerprint(s) # None
  BY SchemasAssumption, NoneAssumption, Zenon DEF Fingerprint
<1>4. \A row \in rows : row.id # mid
  BY Zenon DEF Recorded
<1>5. \A row \in rows : row.from.version \in Nat /\ row.to.version \in Nat
  <2>1. rows \subseteq Rows
    BY <1>1, Zenon DEF Databases
  <2>2. \A row \in Rows : \E r, s \in Schemas : row.from = Fingerprint(r) /\ row.to = Fingerprint(s)
    BY Zenon DEF Rows
  <2> QED
    BY <1>3, <2>1, <2>2
<1>6. \A row \in rows : Linked(rows, row, current)
  BY <1>1, Zenon DEF ChainOf
<1>7. e.history[tgt.id] = rows \union {new} /\ \A id \in Ids \ {tgt.id} : e.history[id] = d.history[id]
  BY Zenon DEF Records
<1>8. \A id \in Ids \ {tgt.id} : e.schema[id] = d.schema[id]
  BY Zenon DEF Records, Replaces
<1> HIDE DEF rows, current, new
<1>9. \A row \in rows \union {new} : Linked(rows \union {new}, row, new.to)
  <2>1. /\ current # None /\ new.from = current /\ new.to # None
        /\ current.version \in Nat /\ new.to.version \in Nat /\ current.version < new.to.version
    BY <1>2, <1>3, Zenon
  <2>2. \A row \in rows : /\ Linked(rows, row, current) /\ row.id # new.id
                           /\ row.from.version \in Nat /\ row.to.version \in Nat
    BY <1>2, <1>4, <1>5, <1>6, Zenon
  <2> QED
    BY <2>1, <2>2, ChainGrows, Zenon
<1>10. ChainOf(e)
  <2>1. ASSUME NEW id \in Ids, NEW row \in e.history[id] PROVE Linked(e.history[id], row, e.schema[id])
    <3>1. CASE id = tgt.id
      BY <1>2, <1>7, <1>9, <2>1, <3>1, Zenon
    <3>2. CASE id # tgt.id
      BY <1>7, <1>8, <2>1, <3>2, Zenon DEF ChainOf
    <3> QED
      BY <3>1, <3>2, Zenon
  <2> QED
    BY <2>1, Zenon DEF ChainOf
<1>11. MovesTo(d, e)
  <2>1. new \in e.history[tgt.id] \ rows /\ new.from = current /\ new.to = e.schema[tgt.id]
    BY <1>2, <1>4, <1>7, Zenon
  <2> QED
    BY <1>7, <1>8, <2>1, Zenon DEF MovesTo, rows, current
<1> QED
  BY <1>10, <1>11, Zenon

\* The migration counts as recorded, and so does every earlier one.
LEMMA RecordedOnce ==
    ASSUME NEW d, NEW e, NEW mid, NEW old, NEW tgt \in Schemas, e.effects = d.effects,
           Records(d, e, mid, old, tgt), d.effects[tgt.id][mid] <= 1,
           \A id \in Ids, m \in MigrationIds : <<id, m>> # <<tgt.id, mid>> => OnceOf(d, id, m)
    PROVE  \A id \in Ids, m \in MigrationIds : OnceOf(e, id, m)
<1>1. Recorded(e, mid, tgt.id)
  <2>1. Row(mid, old, tgt) \in e.history[tgt.id] /\ Row(mid, old, tgt).id = mid
    BY Zenon DEF Records, Row
  <2> QED
    BY <2>1, Zenon DEF Recorded
<1>2. \A id \in Ids, m \in MigrationIds : Recorded(d, m, id) => Recorded(e, m, id)
  BY Zenon DEF Recorded, Records
<1> QED
  BY <1>1, <1>2, Zenon DEF OnceOf

\* The statements after the callback turn its content into a good one.
LEMMA MigratedGood ==
    ASSUME NEW d \in Databases, NEW k \in MigrateCalls, NEW dirty, k.from.id = k.to.id,
           k.from.version < k.to.version, InCallback(d, k, dirty),
           Unclaimed(d, k.to), IndexNamesFree(d, k.to), TableFits(d, k.to),
           IndexesFit(ReplaceIndexes(d, k.from, k.to), k.to)
    PROVE  LET e == Migrated(d, k.id, k.from, k.to) IN
           /\ e \in Databases /\ Established(e, k.to)
           /\ Good(e, dirty \ {k.to.id}) /\ MovesTo(d, e)
<1> DEFINE e == Migrated(d, k.id, k.from, k.to)
<1>1. PICK mid \in MigrationIds, old \in Schemas, tgt \in Schemas :
         mid = k.id /\ old = k.from /\ tgt = k.to
  BY Zenon DEF MigrateCalls
<1>2. tgt.id \in Ids /\ old.id = tgt.id /\ old.version < tgt.version
  BY <1>1, Zenon DEF Ids
<1>3. e = Migrated(d, mid, old, tgt)
  BY <1>1, Zenon
<1> HIDE DEF e
<1>4. /\ e \in Databases
      /\ e.effects = d.effects /\ e.tables = d.tables
      /\ e.indexes = ReplaceIndexes(d, old, tgt).indexes
      /\ Records(d, e, mid, old, tgt)
  BY <1>2, <1>3, MigratedIs, Zenon
<1>5. Unclaimed(d, tgt) /\ IndexNamesFree(d, tgt)
  BY <1>1, Zenon
<1>6. Established(e, tgt)
  BY <1>1, <1>4, Zenon DEF Established, SchemaMatches, IndexesMatch, TableFits, IndexesFit, Records, Replaces
<1>7. /\ ChainOf(d) /\ NamesUnique(d)
      /\ SchemaMatches(d, old) /\ ~Recorded(d, mid, old.id)
      /\ d.effects[tgt.id][mid] <= 1
      /\ \A id \in Ids, m \in MigrationIds : <<id, m>> # <<tgt.id, mid>> => OnceOf(d, id, m)
  <2>1. /\ ChainOf(d) /\ NamesUnique(d)
        /\ SchemaMatches(d, k.from) /\ ~Recorded(d, k.id, k.from.id)
        /\ \A id \in Ids, m \in MigrationIds : <<id, m>> # <<k.from.id, k.id>> => OnceOf(d, id, m)
    BY Zenon DEF InCallback
  <2>2. d.effects[k.from.id][k.id] <= 1
    BY DEF InCallback
  <2> QED
    BY <1>1, <1>2, <2>1, <2>2, Zenon
<1>8. ChainOf(e) /\ MovesTo(d, e)
  BY <1>2, <1>4, <1>7, RecordedChain, Zenon
<1>9. NamesUnique(e)
  BY <1>4, <1>5, <1>7, NamesStayUnique, Zenon DEF Records
<1>10. \A id \in Ids, m \in MigrationIds : OnceOf(e, id, m)
  BY <1>4, <1>7, RecordedOnce, Zenon
<1>11. ASSUME FoldInjective, NEW id \in Ids \ (dirty \ {tgt.id}) PROVE TrueOf(e, id)
  <2>1. CASE id = tgt.id
    BY <1>6, <2>1, Zenon DEF TrueOf
  <2>2. CASE id # tgt.id
    <3>1. ~Touches(d, k, id)
      BY <1>1, <1>11, <2>2, Apart, Zenon
    <3>2. TrueOf(d, id)
      BY <1>1, <1>2, <1>11, <2>2, <3>1, Zenon DEF InCallback
    <3>3. \A n \in IndexNames : d.indexes[n] # None /\ n \notin {i.name : i \in old.indexes}
             => e.indexes[n] = d.indexes[n]
      <4>1. \A n \in IndexNames : d.indexes[n] # None /\ n \notin {i.name : i \in old.indexes}
               => ReplaceIndexes(d, old, tgt).indexes[n] = d.indexes[n]
        BY ReplaceKeeps, Zenon
      <4> QED
        BY <1>4, <4>1, Zenon
    <3>4. \A row \in d.indexRows[id] :
             d.schema[id] # None => row.name \notin {i.name : i \in old.indexes}
      BY <1>1, <3>1, Zenon DEF Touches
    <3>5. Untouched(d, e, id)
      BY <1>4, <2>2, <3>3, <3>4, Zenon DEF Untouched, Records, Replaces
    <3> QED
      BY <1>4, <3>2, <3>5, StillTrue, Zenon
  <2> QED
    BY <2>1, <2>2, Zenon
<1> QED
  BY <1>1, <1>4, <1>6, <1>8, <1>9, <1>10, <1>11, Zenon DEF Good, e

\* A row of the registry is that of a declaration, and names one of the tables.
LEMMA RowTable ==
    ASSUME NEW d \in Databases, NEW id \in Ids, d.schema[id] # None
    PROVE  \E u \in Schemas : /\ d.schema[id] = Fingerprint(u) /\ d.schema[id].table = u.table
                              /\ Fold[d.schema[id].table] \in Tables
<1>1. PICK u \in Schemas : d.schema[id] = Fingerprint(u)
  BY Zenon DEF Databases
<1> QED
  BY <1>1 DEF Fingerprint, Tables

\* From d to f, the callback of mig on own has run once more.
Counted(d, f, own, mig) ==
    /\ f \in Databases /\ SameRows(f, d) /\ f.tables = d.tables /\ f.indexes = d.indexes
    /\ \A id \in Ids, m \in MigrationIds : f.effects[id][m] =
          IF id = own /\ m = mig THEN d.effects[id][m] + 1 ELSE d.effects[id][m]

\* The first statement of a callback leaves its mark.
LEMMA CountRunIs ==
    ASSUME NEW d \in Databases, NEW own \in Ids, NEW mig \in MigrationIds
    PROVE  Counted(d, CountRun(d, own, mig), own, mig)
<1> DEFINE ef == [d.effects EXCEPT ![own][mig] = @ + 1]
           f == [d EXCEPT !.effects = ef]
<1>1. /\ ef \in [Ids -> [MigrationIds -> Nat]]
      /\ \A id \in Ids, m \in MigrationIds : ef[id][m] =
            IF id = own /\ m = mig THEN d.effects[id][m] + 1 ELSE d.effects[id][m]
  BY DEF Databases
<1>2. CountRun(d, own, mig) = f
  BY Zenon DEF CountRun
<1> HIDE DEF ef
<1>3. /\ f \in Databases /\ SameRows(f, d) /\ f.tables = d.tables /\ f.indexes = d.indexes
      /\ f.effects = ef
  BY <1>1, Zenon DEF Databases, SameRows
<1> QED
  BY <1>1, <1>2, <1>3 DEF Counted

\* The history and the unique names are those of the rows.
LEMMA SameChain ==
    ASSUME NEW d, NEW e, SameRows(e, d), ChainOf(d), NamesUnique(d)
    PROVE  ChainOf(e) /\ NamesUnique(e)
<1>1. e.schema = d.schema /\ e.indexRows = d.indexRows /\ e.history = d.history
  BY Zenon DEF SameRows
<1>2. ChainOf(e)
  BY <1>1, Zenon DEF ChainOf
<1>3. NamesUnique(e)
  BY <1>1, Zenon DEF NamesUnique
<1> QED
  BY <1>2, <1>3, Zenon

\* A statement of a callback keeps what the callback must not disturb.
LEMMA CallbackKeeps ==
    ASSUME NEW d \in Databases, NEW k \in MigrateCalls, NEW dirty, k.left > 0,
           InCallback(d, k, dirty),
           NEW e \in AfterDdl(d, {Fold[k.from.table], Fold[k.to.table]},
                              {i.name : i \in k.from.indexes \union k.to.indexes})
    PROVE  LET f == IF k.left = MaxStatements
                    THEN CountRun(e, k.from.id, k.id) ELSE e
           IN  f \in Databases /\ SameRows(f, d) /\ InCallback(f, [k EXCEPT !.left = @ - 1], dirty)
<1> DEFINE f == IF k.left = MaxStatements
                THEN CountRun(e, k.from.id, k.id) ELSE e
           ts == {Fold[k.from.table], Fold[k.to.table]}
           ns == {i.name : i \in k.from.indexes \union k.to.indexes}
           n == [k EXCEPT !.left = @ - 1]
<1>1. /\ k.from \in Schemas /\ k.to \in Schemas /\ k.id \in MigrationIds
      /\ k.from.id \in Ids /\ k.left \in 0 .. MaxStatements
  BY Zenon DEF MigrateCalls, Ids
<1>2. n.from = k.from /\ n.to = k.to /\ n.id = k.id /\ n.left = k.left - 1
  BY Zenon DEF MigrateCalls
<1>3. ts \in SUBSET Tables
  BY <1>1, Zenon DEF Tables
<1>4. ns \in SUBSET IndexNames
  BY <1>1 DEF IndexNames
<1> HIDE DEF ts, ns, n
<1>5. /\ e \in Databases /\ SameRows(e, d) /\ e.effects = d.effects
      /\ \A t \in Tables \ ts : e.tables[t] = d.tables[t]
      /\ \A x \in IndexNames \ ns :
            \/ e.indexes[x] = d.indexes[x]
            \/ d.indexes[x] # None /\ d.indexes[x].table \in ts
  <2>1. e \in AfterDdl(d, ts, ns)
    BY Zenon DEF ts, ns
  <2> QED
    BY <1>3, <1>4, <2>1, DdlKeeps
<1>6. /\ f \in Databases /\ SameRows(f, e) /\ f.tables = e.tables /\ f.indexes = e.indexes
      /\ \A id \in Ids, m \in MigrationIds : f.effects[id][m] =
            IF k.left = MaxStatements /\ id = k.from.id /\ m = k.id
            THEN e.effects[id][m] + 1 ELSE e.effects[id][m]
  <2>1. CASE k.left # MaxStatements
    BY <1>5, <2>1, Zenon DEF SameRows
  <2>2. CASE k.left = MaxStatements
    <3>1. f = CountRun(e, k.from.id, k.id)
      BY <2>2, Zenon
    <3> HIDE DEF f
    <3>2. /\ f \in Databases /\ SameRows(f, e) /\ f.tables = e.tables /\ f.indexes = e.indexes
          /\ \A id \in Ids, m \in MigrationIds : f.effects[id][m] =
                IF id = k.from.id /\ m = k.id THEN e.effects[id][m] + 1 ELSE e.effects[id][m]
      <4>1. PICK own \in Ids, mig \in MigrationIds : own = k.from.id /\ mig = k.id
        BY <1>1, Zenon
      <4>2. Counted(e, CountRun(e, own, mig), own, mig)
        BY <1>5, CountRunIs, Zenon
      <4>3. Counted(e, f, k.from.id, k.id)
        BY <3>1, <4>1, <4>2, Zenon
      <4> QED
        BY <4>3, Zenon DEF Counted
    <3> QED
      BY <2>2, <3>2, Zenon
  <2> QED
    BY <2>1, <2>2, Zenon
<1> HIDE DEF f
<1>7. SameRows(f, d)
  BY <1>5, <1>6, Zenon DEF SameRows
<1>8. ChainOf(f) /\ NamesUnique(f)
  <2>1. ChainOf(d) /\ NamesUnique(d)
    BY Zenon DEF InCallback
  <2> QED
    BY <1>7, <2>1, SameChain, Zenon
<1>9. SchemaMatches(f, n.from) /\ IndexesMatch(f, n.from) /\ ~Recorded(f, n.id, n.from.id)
  BY <1>2, <1>7, Zenon DEF InCallback, SchemaMatches, IndexesMatch, Recorded, SameRows
<1>10. f.effects[n.from.id][n.id] = IF n.left = MaxStatements THEN 0 ELSE 1
  <2>1. d.effects[k.from.id][k.id] = IF k.left = MaxStatements THEN 0 ELSE 1
    BY Zenon DEF InCallback
  <2>2. f.effects[k.from.id][k.id] = 1
    <3>1. f.effects[k.from.id][k.id] =
             IF k.left = MaxStatements THEN d.effects[k.from.id][k.id] + 1
             ELSE d.effects[k.from.id][k.id]
      BY <1>1, <1>5, <1>6
    <3> QED
      BY <2>1, <3>1, SMTT(20)
  <2>3. n.left # MaxStatements
    BY <1>1, <1>2, BoundsAssumption
  <2> QED
    BY <1>2, <2>2, <2>3, Zenon
<1>11. \A id \in Ids, m \in MigrationIds :
          <<id, m>> # <<n.from.id, n.id>> => OnceOf(f, id, m)
  <2>1. \A id \in Ids, m \in MigrationIds : Recorded(d, m, id) <=> Recorded(f, m, id)
    BY <1>7, Zenon DEF Recorded, SameRows
  <2>2. ASSUME NEW id \in Ids, NEW m \in MigrationIds, <<id, m>> # <<k.from.id, k.id>>
        PROVE  OnceOf(f, id, m)
    <3>1. OnceOf(d, id, m)
      BY <2>2, Zenon DEF InCallback
    <3>2. f.effects[id][m] = d.effects[id][m]
      <4>1. id # k.from.id \/ m # k.id
        BY <2>2, Zenon
      <4> QED
        BY <1>5, <1>6, <4>1, SMTT(20)
    <3> QED
      BY <2>1, <3>1, <3>2, Zenon DEF OnceOf
  <2> QED
    BY <1>2, <2>2, Zenon
<1>12. ASSUME FoldInjective, NEW id \in Ids \ (dirty \union {n.from.id})
       PROVE  TrueOf(f, id) \/ Touches(f, n, id)
  <2>1. CASE Touches(d, k, id)
    BY <1>2, <1>7, <2>1, Zenon DEF Touches, SameRows
  <2>2. CASE ~Touches(d, k, id)
    <3>1. TrueOf(d, id)
      <4>1. \A x \in Ids \ (dirty \union {k.from.id}) : TrueOf(d, x) \/ Touches(d, k, x)
        BY <1>12, Zenon DEF InCallback
      <4> QED
        BY <1>2, <1>12, <2>2, <4>1, Zenon
    <3>2. ASSUME d.schema[id] # None
          PROVE  /\ Fold[d.schema[id].table] \in Tables \ ts
                 /\ \A row \in d.indexRows[id] : row.name \notin ns
      BY <2>2, <3>2, RowTable, ZenonT(30) DEF Touches, ts, ns
    <3>3. Untouched(d, f, id)
      BY <1>5, <1>6, <1>7, <3>2, SMTT(20) DEF Untouched, SameRows
    <3> QED
      BY <1>6, <3>1, <3>3, StillTrue, Zenon
  <2> QED
    BY <2>1, <2>2, Zenon
<1>13. InCallback(f, n, dirty)
  BY <1>8, <1>9, <1>10, <1>11, <1>12, Zenon DEF InCallback
<1> QED
  BY <1>6, <1>7, <1>13, Zenon DEF f, n

\* The application's DDL alters collections, which then count as drifted.
LEMMA DdlGood ==
    ASSUME NEW d \in Databases, NEW e \in AfterDdl(d, Tables, IndexNames), NEW dirty,
           Good(d, dirty)
    PROVE  /\ e \in Databases /\ MovesTo(d, e)
           /\ Good(e, dirty \union {id \in Ids : d.schema[id] # None /\ Owned(d, id) # Owned(e, id)})
<1>1. e \in Databases /\ SameRows(e, d) /\ e.effects = d.effects
  BY DdlKeeps
<1>2. ChainOf(e) /\ NamesUnique(e)
  BY <1>1, SameChain, Zenon DEF Good
<1>3. \A id \in Ids, m \in MigrationIds : OnceOf(e, id, m)
  BY <1>1 DEF Good, OnceOf, Recorded, SameRows
<1>4. ASSUME NEW id \in Ids, TrueOf(d, id), d.schema[id] # None => Owned(d, id) = Owned(e, id)
      PROVE  TrueOf(e, id)
  <2>1. ASSUME d.schema[id] # None
        PROVE  /\ e.tables[Fold[d.schema[id].table]] = d.tables[Fold[d.schema[id].table]]
               /\ {<<row, e.indexes[row.name]>> : row \in d.indexRows[id]}
                    = {<<row, d.indexes[row.name]>> : row \in d.indexRows[id]}
    BY <1>1, <1>4, <2>1, Zenon DEF Owned, SameRows
  <2>2. ASSUME d.schema[id] # None, NEW row \in d.indexRows[id]
        PROVE  e.indexes[row.name] = d.indexes[row.name]
    <3>1. <<row, e.indexes[row.name]>> \in {<<r, d.indexes[r.name]>> : r \in d.indexRows[id]}
      BY <2>1, <2>2, Zenon
    <3> QED
      BY <3>1
  <2>3. Untouched(d, e, id)
    BY <1>1, <2>1, <2>2, Zenon DEF Untouched, SameRows
  <2> QED
    BY <1>1, <1>4, <2>3, StillTrue, Zenon
<1>5. MovesTo(d, e)
  BY <1>1, Zenon DEF MovesTo, SameRows
<1> QED
  BY <1>1, <1>2, <1>3, <1>4, <1>5, Zenon DEF Good


-----------------------------------------------------------------------------
(* The inductive invariant.                                                *)

\* The connection has a transaction.
InTx(c) == call[c].pc \in {"read", "callback", "finish", "commit"}

\* What a snapshot that is not stale shows.
Fresh(c) ==
    LET k == call[c]
        written == k.pc = "commit" /\ k.result \in {"Created", "Applied"}
    IN  /\ writer # c => Same(tx[c], db)
        /\ k.pc # "commit" => SameRows(tx[c], db)
        /\ MovesTo(db, tx[c])
        /\ k.pc = "commit" /\ k.result = "Applied" => SchemaMatches(db, k.from)
        /\ IF k.pc \in {"callback", "finish"} THEN InCallback(tx[c], k, drifted)
           ELSE Good(tx[c], IF written THEN drifted \ {k.to.id} ELSE drifted)

CallOK(c) ==
    LET k == call[c] IN
    /\ k.pc \in Running /\ k.op = "migrate" =>
          k.from.id = k.to.id /\ k.from.version < k.to.version
    /\ k.pc \in {"begin", "read"} /\ k.op = "migrate" => k.left = MaxStatements
    /\ k.pc \in {"callback", "finish"} => k.op = "migrate"
    /\ k.pc = "commit" =>
          /\ Established(tx[c], k.to) /\ k.result \in Success
          /\ k.result \in {"Created", "Applied"} => writer = c
          /\ k.op = "migrate" => k.result \in {"Applied", "AlreadyApplied"}

ConnOK(c) ==
    /\ tx[c] # None <=> InTx(c)
    /\ c \in stale => InTx(c)
    /\ writer = c => InTx(c) /\ c \notin stale
    /\ CallOK(c)
    /\ InTx(c) /\ c \notin stale => Fresh(c)

IInv == TypeOK /\ Good(db, drifted) /\ \A c \in Connections : ConnOK(c)

-----------------------------------------------------------------------------
(* Steps of a connection.                                                  *)

\* A call that runs is one of register_collection or of migrate_collection.
LEMMA CallShape ==
    ASSUME NEW k \in Calls, k.pc \in Running
    PROVE  k \in RegisterCalls \/ k \in MigrateCalls
BY DEF Calls, Running, LookupCalls, Idle

Advanced(k, p, r) == [k EXCEPT !.pc = p, !.result = r]

\* A call keeps its arguments when it goes on.
LEMMA CallGoesOn ==
    ASSUME NEW k \in Calls, k.pc \in Running, NEW p \in Running \union {"done"}, NEW r \in Results
    PROVE  LET n == Advanced(k, p, r) IN
           /\ n \in Calls /\ n.pc = p /\ n.result = r /\ n.op = k.op /\ n.to = k.to
           /\ k.op = "migrate" => n.from = k.from /\ n.id = k.id /\ n.left = k.left
           /\ k \in MigrateCalls => n \in MigrateCalls
<1>1. CASE k \in RegisterCalls
  BY <1>1, Zenon DEF Calls, RegisterCalls, MigrateCalls, Advanced
<1>2. CASE k \in MigrateCalls
  BY <1>2, Zenon DEF Calls, RegisterCalls, MigrateCalls, Advanced
<1> QED
  BY <1>1, <1>2, CallShape, Zenon

\* What a step of c leaves to the other connections.
OthersKeep(c) ==
    /\ db' = db /\ drifted' = drifted /\ ddl' = ddl
    /\ \A e \in Connections \ {c} :
          /\ call'[e] = call[e] /\ tx'[e] = tx[e]
          /\ e \in stale' <=> e \in stale
          /\ writer' = e <=> writer = e

\* What holds of the other connections goes on holding.
LEMMA OthersStayOK ==
    ASSUME IInv, NEW c \in Connections, OthersKeep(c), TypeOK', ConnOK(c)'
    PROVE  IInv'
<1>1. Good(db, drifted)'
  BY Zenon DEF IInv, OthersKeep
<1>2. ASSUME NEW e \in Connections, e # c PROVE ConnOK(e)'
  <2>1. /\ call'[e] = call[e] /\ tx'[e] = tx[e] /\ db' = db /\ drifted' = drifted
        /\ e \in stale' <=> e \in stale
        /\ writer' = e <=> writer = e
    BY <1>2, Zenon DEF OthersKeep
  <2>2. InTx(e)' <=> InTx(e)
    BY <2>1, Zenon DEF InTx
  <2>3. CallOK(e) => CallOK(e)'
    BY <2>1, Zenon DEF CallOK
  <2>4. Fresh(e) => Fresh(e)'
    BY <2>1, Zenon DEF Fresh
  <2> QED
    BY <2>1, <2>2, <2>3, <2>4, Zenon DEF ConnOK, IInv
<1> QED
  BY <1>1, <1>2, Zenon DEF IInv

\* A call that ends without COMMIT, and the connection of a process that died.
LEMMA Leaves ==
    ASSUME IInv, NEW c \in Connections, NEW k \in Calls, k.pc \in {"idle", "done"},
           call' = [call EXCEPT ![c] = k], Rollback(c)
    PROVE  IInv'
<1>1. TypeOK'
  BY Zenon DEF IInv, TypeOK, Rollback
<1>2. /\ call'[c] = k /\ tx'[c] = None /\ c \notin stale' /\ writer' # c
  BY ConnectionsAssumption, Zenon DEF IInv, TypeOK, Rollback
<1>3. OthersKeep(c)
  BY ConnectionsAssumption, Zenon DEF IInv, TypeOK, Rollback, OthersKeep
<1>4. ConnOK(c)'
  BY <1>2, Zenon DEF ConnOK, InTx, CallOK, Running
<1> QED
  BY <1>1, <1>3, <1>4, OthersStayOK, Zenon

\* A call that has no transaction.
LEMMA Waits ==
    ASSUME IInv, NEW c \in Connections, NEW k \in Calls, ~InTx(c),
           k.pc \in {"idle", "begin", "row", "done"},
           k.pc = "begin" /\ k.op = "migrate" =>
               k.from.id = k.to.id /\ k.from.version < k.to.version /\ k.left = MaxStatements,
           call' = [call EXCEPT ![c] = k],
           UNCHANGED <<db, tx, writer, stale, drifted, ddl>>
    PROVE  IInv'
<1>1. TypeOK'
  BY Zenon DEF IInv, TypeOK
<1>2. call'[c] = k
  BY Zenon DEF IInv, TypeOK
<1>3. OthersKeep(c)
  BY Zenon DEF IInv, TypeOK, OthersKeep
<1>4. tx[c] = None /\ c \notin stale /\ writer # c
  BY Zenon DEF IInv, ConnOK
<1>5. ~InTx(c)'
  BY <1>2, Zenon DEF InTx
<1>6. CallOK(c)'
  BY <1>2, Zenon DEF CallOK, Running
<1>7. ConnOK(c)'
  BY <1>4, <1>5, <1>6, Zenon DEF ConnOK
<1> QED
  BY <1>1, <1>3, <1>7, OthersStayOK, Zenon

\* A content serves a callback whatever else is said of the call.
LEMMA SameCallback ==
    ASSUME NEW d, NEW k, NEW n, NEW dirty, InCallback(d, k, dirty),
           n.from = k.from, n.to = k.to, n.id = k.id, n.left = k.left
    PROVE  InCallback(d, n, dirty)
<1>1. \A id : Touches(d, k, id) <=> Touches(d, n, id)
  BY Zenon DEF Touches
<1> QED
  BY <1>1, Zenon DEF InCallback

\* A transaction goes on to p and has written nothing more.
LEMMA GoesOn ==
    ASSUME IInv, NEW c \in Connections, InTx(c), call[c].pc # "commit",
           NEW p \in {"callback", "finish", "commit"}, NEW r \in Results, Continue(c, p, r),
           p # "commit" => /\ call[c].op = "migrate"
                           /\ c \notin stale => InCallback(tx[c], call[c], drifted),
           p = "commit" => /\ Established(tx[c], call[c].to)
                           /\ r \in {"AlreadyRegistered", "AlreadyApplied"}
                           /\ call[c].op = "migrate" => r = "AlreadyApplied"
                           /\ c \notin stale => Good(tx[c], drifted)
    PROVE  IInv'
<1> DEFINE k == call[c]
           n == Advanced(k, p, r)
<1>1. k \in Calls /\ k.pc \in Running /\ p \in Running \union {"done"}
  BY Zenon DEF IInv, TypeOK, InTx, Running
<1>2. /\ n \in Calls /\ n.pc = p /\ n.result = r /\ n.op = k.op /\ n.to = k.to
      /\ k.op = "migrate" => n.from = k.from /\ n.id = k.id /\ n.left = k.left
  BY <1>1, CallGoesOn
<1>3. call' = [call EXCEPT ![c] = n] /\ UNCHANGED <<db, tx, writer, stale, drifted, ddl>>
  BY Zenon DEF Continue, IInv, TypeOK, Advanced
<1> HIDE DEF n
<1>4. TypeOK' /\ call'[c] = n
  BY <1>2, <1>3, Zenon DEF IInv, TypeOK
<1>5. OthersKeep(c)
  BY <1>3, Zenon DEF IInv, TypeOK, OthersKeep
<1>6. InTx(c)'
  BY <1>2, <1>4, Zenon DEF InTx
<1>7. CallOK(c)'
  BY <1>1, <1>2, <1>3, <1>4 DEF IInv, ConnOK, CallOK, Success
<1>8. ASSUME c \notin stale PROVE Fresh(c)'
  <2>1. /\ writer # c => Same(tx[c], db)
        /\ SameRows(tx[c], db) /\ MovesTo(db, tx[c])
    BY <1>8, Zenon DEF IInv, ConnOK, Fresh
  <2>2. CASE p = "commit"
    BY <1>2, <1>3, <1>4, <1>8, <2>1, <2>2, Zenon DEF Fresh
  <2>3. CASE p # "commit"
    <3>1. InCallback(tx[c], n, drifted)
      BY <1>2, <1>8, <2>3, SameCallback, Zenon
    <3> QED
      BY <1>2, <1>3, <1>4, <2>1, <2>3, <3>1, Zenon DEF Fresh
  <2> QED
    BY <2>2, <2>3, Zenon
<1>9. ConnOK(c)'
  BY <1>3, <1>6, <1>7, <1>8, Zenon DEF IInv, ConnOK
<1> QED
  BY <1>4, <1>5, <1>9, OthersStayOK, Zenon

\* Rows that did not change lead on as those of the file do.
LEMMA MovesOn ==
    ASSUME NEW d, NEW e, NEW f, SameRows(e, d), MovesTo(e, f)
    PROVE  MovesTo(d, f)
BY Zenon DEF SameRows, MovesTo

\* Only a snapshot that is not stale is written.
LEMMA WritersAreFresh ==
    ASSUME IInv, NEW c \in Connections, InTx(c), MayWrite(c)
    PROVE  c \notin stale /\ Fresh(c)
BY Zenon DEF IInv, ConnOK, MayWrite

\* A transaction has written its last statement.
LEMMA Writes ==
    ASSUME IInv, NEW c \in Connections, InTx(c), call[c].pc # "commit",
           NEW d \in Databases, NEW r \in {"Created", "Applied"}, Written(c, d, "commit", r),
           Established(d, call[c].to), Good(d, drifted \ {call[c].to.id}), MovesTo(tx[c], d),
           call[c].op = "migrate" <=> r = "Applied",
           r = "Applied" => SchemaMatches(tx[c], call[c].from)
    PROVE  IInv'
<1> DEFINE k == call[c]
           n == Advanced(k, "commit", r)
<1>1. k \in Calls /\ k.pc \in Running /\ "commit" \in Running \union {"done"} /\ r \in Results
  BY Zenon DEF IInv, TypeOK, InTx, Running, Results, Success
<1>2. /\ n \in Calls /\ n.pc = "commit" /\ n.result = r /\ n.op = k.op /\ n.to = k.to
      /\ k.op = "migrate" => n.from = k.from /\ n.id = k.id /\ n.left = k.left
  BY <1>1, CallGoesOn
<1>3. /\ call' = [call EXCEPT ![c] = n] /\ tx' = [tx EXCEPT ![c] = d] /\ writer' = c
      /\ UNCHANGED <<db, stale, drifted, ddl>>
  BY Zenon DEF Written, IInv, TypeOK, Advanced
<1> HIDE DEF n
<1>4. c \notin stale /\ Fresh(c)
  BY WritersAreFresh, Zenon DEF Written
<1>5. call'[c] = n /\ tx'[c] = d /\ d # None
  BY <1>3, NoneAssumption, Zenon DEF IInv, TypeOK
<1>6. TypeOK'
  BY <1>2, <1>3, <1>5, Zenon DEF IInv, TypeOK
<1>7. OthersKeep(c)
  BY <1>3, ConnectionsAssumption DEF IInv, TypeOK, OthersKeep, Written, MayWrite
<1>8. InTx(c)'
  BY <1>2, <1>5, Zenon DEF InTx
<1>9. CallOK(c)'
  BY <1>1, <1>2, <1>3, <1>5 DEF IInv, ConnOK, CallOK, Success
<1>10. Fresh(c)'
  <2>1. MovesTo(db, d)
    BY <1>4, MovesOn, Zenon DEF Fresh
  <2>2. r = "Applied" => SchemaMatches(db, n.from)
    BY <1>2, <1>4, Zenon DEF Fresh, SameRows, SchemaMatches
  <2> QED
    BY <1>2, <1>3, <1>5, <2>1, <2>2, Zenon DEF Fresh
<1>11. ConnOK(c)'
  BY <1>3, <1>4, <1>5, <1>8, <1>9, <1>10, Zenon DEF ConnOK
<1> QED
  BY <1>6, <1>7, <1>11, OthersStayOK, Zenon

\* A call that is refused.
LEMMA Refuses ==
    ASSUME IInv, NEW c \in Connections, call[c].pc \in Running, NEW r \in Failure, Refuse(c, r)
    PROVE  IInv'
<1> DEFINE n == Advanced(call[c], "done", r)
<1>1. call[c] \in Calls /\ "done" \in Running \union {"done"} /\ r \in Results
  BY Zenon DEF IInv, TypeOK, Results
<1>2. n \in Calls /\ n.pc = "done"
  BY <1>1, CallGoesOn, Zenon
<1>3. call' = [call EXCEPT ![c] = n] /\ Rollback(c)
  BY Zenon DEF Refuse, Done, Advanced
<1> QED
  BY <1>2, <1>3, Leaves, Zenon

\* Calls that start, return or look a row up.
LEMMA OutsideStep ==
    ASSUME IInv, NEW c \in Connections,
           \/ \E s \in Schemas : Register(c, s)
           \/ \E m \in Migrations : Migrate(c, m)
           \/ \E id \in Ids : Lookup(c, id)
           \/ LookupRow(c) \/ Return(c)
    PROVE  IInv'
<1>1. ASSUME NEW s \in Schemas, Register(c, s) PROVE IInv'
  <2> DEFINE k == [pc |-> "begin", op |-> "register", to |-> s, result |-> None]
             n == IF ValidSchema(s) THEN k ELSE Done(k, "InvalidSchema")
  <2>1. n \in Calls /\ n.pc \in {"begin", "done"} /\ n.op = "register"
    BY Zenon DEF Done, Calls, RegisterCalls, Running, Results, Failure
  <2>2. ~InTx(c) /\ call' = [call EXCEPT ![c] = n] /\ UNCHANGED <<db, tx, writer, stale, drifted, ddl>>
    BY <1>1, Zenon DEF Register, At, InTx
  <2> HIDE DEF n
  <2> QED
    BY <2>1, <2>2, Waits, Zenon
<1>2. ASSUME NEW m \in Migrations, Migrate(c, m) PROVE IInv'
  <2> DEFINE k == [pc |-> "begin", op |-> "migrate", id |-> m.id, from |-> m.from,
                   to |-> m.to, left |-> MaxStatements, result |-> None]
             n == IF ValidMigration(m.from, m.to) THEN k ELSE Done(k, "InvalidMigration")
  <2>0. m.from \in Schemas /\ m.to \in Schemas /\ m.id \in MigrationIds /\ MaxStatements \in 0 .. MaxStatements
    BY MigrationsAssumption, BoundsAssumption DEF MigrationIds
  <2>1. n \in Calls /\ n.pc \in {"begin", "done"}
    BY <2>0, Zenon DEF Done, Calls, MigrateCalls, Running, Results, Failure
  <2>2. n.pc = "begin" => /\ n.from.id = n.to.id /\ n.from.version < n.to.version
                          /\ n.left = MaxStatements
    <3>1. CASE ValidMigration(m.from, m.to)
      BY <2>0, <3>1, SchemasAssumption, Zenon DEF ValidMigration
    <3>2. CASE ~ValidMigration(m.from, m.to)
      BY <3>2, Zenon DEF Done
    <3> QED
      BY <3>1, <3>2, Zenon
  <2>3. ~InTx(c) /\ call' = [call EXCEPT ![c] = n] /\ UNCHANGED <<db, tx, writer, stale, drifted, ddl>>
    BY <1>2, Zenon DEF Migrate, At, InTx
  <2> HIDE DEF n
  <2> QED
    BY <2>1, <2>2, <2>3, Waits, Zenon
<1>3. ASSUME NEW id \in Ids, Lookup(c, id) PROVE IInv'
  <2> DEFINE n == [pc |-> IF "__csgdb_schema" \in db.registries THEN "row" ELSE "done",
                   op |-> "lookup", id |-> id, result |-> None, row |-> None]
  <2>1. n \in Calls /\ n.pc \in {"row", "done"} /\ n.op = "lookup"
    BY Zenon DEF Calls, LookupCalls
  <2>2. ~InTx(c) /\ call' = [call EXCEPT ![c] = n] /\ UNCHANGED <<db, tx, writer, stale, drifted, ddl>>
    BY <1>3, Zenon DEF Lookup, At, InTx
  <2> HIDE DEF n
  <2> QED
    BY <2>1, <2>2, Waits, Zenon
<1>4. CASE LookupRow(c)
  <2> DEFINE n == [call[c] EXCEPT !.pc = "done", !.row = db.schema[call[c].id]]
  <2>1. call[c] \in LookupCalls
    BY <1>4 DEF IInv, TypeOK, LookupRow, At, Calls, RegisterCalls, MigrateCalls, Idle, Running
  <2>2. n \in LookupCalls /\ n.pc = "done"
    BY <2>1, Zenon DEF LookupCalls, IInv, TypeOK, Databases
  <2>3. ~InTx(c) /\ call' = [call EXCEPT ![c] = n] /\ UNCHANGED <<db, tx, writer, stale, drifted, ddl>>
    BY <1>4, Zenon DEF LookupRow, At, InTx, IInv, TypeOK
  <2> HIDE DEF n
  <2> QED
    BY <2>2, <2>3, Waits, Zenon DEF Calls
<1>5. CASE Return(c)
  <2>1. Idle \in Calls /\ Idle.pc = "idle"
    BY Zenon DEF Calls, Idle
  <2>2. ~InTx(c) /\ call' = [call EXCEPT ![c] = Idle] /\ UNCHANGED <<db, tx, writer, stale, drifted, ddl>>
    BY <1>5, Zenon DEF Return, At, InTx
  <2> QED
    BY <2>1, <2>2, Waits, Zenon
<1> QED
  BY <1>1, <1>2, <1>3, <1>4, <1>5, Zenon

\* BEGIN DEFERRED and initialize_schema_registries
LEMMA BeginStep ==
    ASSUME IInv, NEW c \in Connections, Begin(c)
    PROVE  IInv'
<1> DEFINE k == call[c]
           n == [k EXCEPT !.pc = "read"]
           d == InitializeRegistries(db)
<1>1. d \in Databases /\ d # None /\ Same(d, db) /\ SameRows(d, db)
  <2>1. d \in Databases /\ Same(d, db)
    BY Zenon DEF InitializeRegistries, IInv, TypeOK, Databases, Same, SameRows
  <2> QED
    BY <2>1, NoneAssumption, Zenon DEF Same
<1>2. Good(d, drifted) /\ MovesTo(db, d)
  BY <1>1, SameGood, Zenon DEF IInv
<1>3. k \in Calls /\ k.pc = "begin" /\ k.pc \in Running
  BY Zenon DEF Begin, At, IInv, TypeOK, Running
<1>4. /\ n \in Calls /\ n.pc = "read" /\ n.op = k.op /\ n.to = k.to
      /\ k.op = "migrate" => n.from = k.from /\ n.left = k.left
  <2>1. CASE k \in RegisterCalls
    BY <2>1, Zenon DEF RegisterCalls, Calls, Running
  <2>2. CASE k \in MigrateCalls
    BY <2>2, Zenon DEF MigrateCalls, Calls, Running
  <2> QED
    BY <1>3, <2>1, <2>2, CallShape, Zenon
<1>5. tx[c] = None /\ c \notin stale /\ writer # c
  BY <1>3, Zenon DEF IInv, ConnOK, InTx
<1>6. /\ call' = [call EXCEPT ![c] = n] /\ tx' = [tx EXCEPT ![c] = d]
      /\ writer' \in {c, writer} /\ (writer' = c => writer = None)
      /\ UNCHANGED <<db, stale, drifted, ddl>>
  BY <1>5, Zenon DEF Begin, IInv, TypeOK
<1> HIDE DEF n, d
<1>7. call'[c] = n /\ tx'[c] = d
  BY <1>6, Zenon DEF IInv, TypeOK
<1>8. TypeOK'
  BY <1>1, <1>4, <1>6, <1>7, Zenon DEF IInv, TypeOK
<1>9. OthersKeep(c)
  BY <1>6, ConnectionsAssumption, Zenon DEF IInv, TypeOK, OthersKeep
<1>10. InTx(c)'
  BY <1>4, <1>7, Zenon DEF InTx
<1>11. CallOK(c)'
  BY <1>3, <1>4, <1>7, Zenon DEF IInv, ConnOK, CallOK, Running
<1>12. Fresh(c)'
  BY <1>1, <1>2, <1>4, <1>6, <1>7, Zenon DEF Fresh
<1>13. ConnOK(c)'
  BY <1>1, <1>5, <1>6, <1>7, <1>10, <1>11, <1>12, Zenon DEF ConnOK
<1> QED
  BY <1>8, <1>9, <1>13, OthersStayOK, Zenon

\* A snapshot that is about to be read and is not stale is a good content.
LEMMA ReadsGood ==
    ASSUME IInv, NEW c \in Connections, At(c, "read")
    PROVE  /\ InTx(c) /\ call[c].pc \in Running /\ call[c].pc # "commit" /\ tx[c] \in Databases
           /\ c \notin stale => Good(tx[c], drifted)
<1>1. InTx(c) /\ call[c].pc \in Running /\ call[c].pc = "read"
  BY Zenon DEF At, InTx, Running
<1>2. tx[c] \in Databases
  BY <1>1, Zenon DEF IInv, ConnOK, TypeOK
<1>3. c \notin stale => Good(tx[c], drifted)
  BY <1>1, Zenon DEF IInv, ConnOK, Fresh
<1> QED
  BY <1>1, <1>2, <1>3, Zenon

\* register_collection
LEMMA RegisterStep ==
    ASSUME IInv, NEW c \in Connections, RegisterExisting(c) \/ RegisterNew(c)
    PROVE  IInv'
<1> DEFINE s == call[c].to
<1>1. At(c, "read") /\ call[c].op = "register"
  BY Zenon DEF RegisterExisting, RegisterNew
<1>2. /\ InTx(c) /\ call[c].pc \in Running /\ call[c].pc # "commit" /\ tx[c] \in Databases
      /\ c \notin stale => Good(tx[c], drifted)
  BY <1>1, ReadsGood, Zenon
<1>3. s \in Schemas
  BY <1>1, <1>2, CallShape DEF IInv, TypeOK, RegisterCalls, MigrateCalls
<1>4. CASE RegisterExisting(c)
  <2>1. CASE Established(tx[c], s)
    <3>1. Continue(c, "commit", "AlreadyRegistered") /\ "AlreadyRegistered" \in Results
      BY <1>4, <2>1, Zenon DEF RegisterExisting, Results, Success
    <3> QED
      BY <1>1, <1>2, <2>1, <3>1, GoesOn, Zenon
  <2>2. CASE ~Established(tx[c], s)
    BY <1>2, <1>4, <2>2, Refuses, Zenon DEF RegisterExisting, Failure
  <2> QED
    BY <2>1, <2>2, Zenon
<1>5. CASE RegisterNew(c)
  <2> DEFINE d == Registered(tx[c], s)
  <2>1. CASE /\ Unclaimed(tx[c], s) /\ IndexNamesFree(tx[c], s)
             /\ TableFits(d, s) /\ IndexesFit(d, s)
    <3>1. Written(c, d, "commit", "Created") /\ tx[c].schema[s.id] = None
      BY <1>5, <2>1, Zenon DEF RegisterNew
    <3>2. c \notin stale
      BY <1>2, <3>1, WritersAreFresh, Zenon DEF Written
    <3>3. /\ d \in Databases /\ Established(d, s)
          /\ Good(d, drifted \ {s.id}) /\ MovesTo(tx[c], d)
      BY <1>2, <1>3, <2>1, <3>1, <3>2, RegisteredGood, Zenon
    <3> HIDE DEF d
    <3> QED
      BY <1>1, <1>2, <3>1, <3>3, Writes, Zenon
  <2>2. CASE ~(/\ Unclaimed(tx[c], s) /\ IndexNamesFree(tx[c], s)
               /\ TableFits(d, s) /\ IndexesFit(d, s))
    <3>1. Refuse(c, "SchemaMismatch") \/ Refuse(c, "Failed")
      BY <1>5, <2>2, Zenon DEF RegisterNew
    <3> QED
      BY <1>2, <3>1, Refuses, Zenon DEF Failure
  <2> QED
    BY <2>1, <2>2, Zenon
<1> QED
  BY <1>4, <1>5, Zenon

\* migrate_collection up to its callback
LEMMA MigrateStep ==
    ASSUME IInv, NEW c \in Connections, MigrateRecorded(c) \/ MigrateNew(c)
    PROVE  IInv'
<1> DEFINE k == call[c]
<1>1. At(c, "read") /\ k.op = "migrate"
  BY Zenon DEF MigrateRecorded, MigrateNew
<1>2. /\ InTx(c) /\ call[c].pc \in Running /\ call[c].pc # "commit" /\ tx[c] \in Databases
      /\ c \notin stale => Good(tx[c], drifted)
  BY <1>1, ReadsGood, Zenon
<1>3. CASE MigrateRecorded(c)
  <2>1. \/ Refuse(c, "MigrationMismatch")
        \/ Continue(c, "commit", "AlreadyApplied") /\ Established(tx[c], k.to)
    BY <1>3, Zenon DEF MigrateRecorded
  <2>2. "AlreadyApplied" \in Results /\ "MigrationMismatch" \in Failure
    BY Zenon DEF Results, Success, Failure
  <2> QED
    BY <1>2, <2>1, <2>2, GoesOn, Refuses, Zenon
<1>4. CASE MigrateNew(c)
  <2>1. CASE Refuse(c, "MigrationMismatch") \/ Refuse(c, "SchemaMismatch")
    BY <1>2, <2>1, Refuses, Zenon DEF Failure
  <2>2. CASE ~(Refuse(c, "MigrationMismatch") \/ Refuse(c, "SchemaMismatch"))
    <3>1. /\ Continue(c, "callback", None)
          /\ SchemaMatches(tx[c], k.from) /\ IndexesMatch(tx[c], k.from)
          /\ ~Recorded(tx[c], k.id, k.from.id)
      BY <1>4, <2>2, Zenon DEF MigrateNew
    <3>2. ASSUME c \notin stale PROVE InCallback(tx[c], k, drifted)
      <4>1. Good(tx[c], drifted)
        BY <1>2, <3>2, Zenon
      <4>2. k \in MigrateCalls /\ k.from.id \in Ids /\ k.id \in MigrationIds
        BY <1>1, <1>2, CallShape DEF IInv, TypeOK, RegisterCalls, MigrateCalls, Ids
      <4>3. tx[c].effects[k.from.id][k.id] = 0 /\ k.left = MaxStatements
        <5>1. tx[c].effects[k.from.id][k.id] \in Nat
          BY <1>2, <4>2, ZenonT(30) DEF Databases
        <5>2. OnceOf(tx[c], k.from.id, k.id)
          BY <4>1, <4>2, Zenon DEF Good
        <5>3. k.left = MaxStatements
          BY <1>1, Zenon DEF IInv, ConnOK, CallOK, At
        <5>4. tx[c].effects[k.from.id][k.id] <= 1 /\ tx[c].effects[k.from.id][k.id] # 1
          BY <3>1, <5>2, Zenon DEF OnceOf
        <5>5. \A x \in Nat : x <= 1 /\ x # 1 => x = 0
          OBVIOUS
        <5> QED
          BY <5>1, <5>3, <5>4, <5>5, Zenon
      <4> QED
        BY <3>1, <4>1, <4>3, Zenon DEF InCallback, Good
    <3> QED
      BY <1>1, <1>2, <3>1, <3>2, GoesOn, Zenon DEF Results
  <2> QED
    BY <2>1, <2>2, Zenon
<1> QED
  BY <1>3, <1>4, Zenon

\* The callback of migrate_collection and what follows it
LEMMA CallbackStep ==
    ASSUME IInv, NEW c \in Connections,
           CallbackStatement(c) \/ CallbackReturns(c) \/ CallbackFails(c) \/ MigrateFinish(c)
    PROVE  IInv'
<1> DEFINE k == call[c]
<1>1. InTx(c) /\ k.pc \in {"callback", "finish"} /\ k.pc \in Running /\ k.op = "migrate"
  BY Zenon DEF CallbackStatement, CallbackReturns, CallbackFails, MigrateFinish, At, InTx, Running,
         IInv, ConnOK, CallOK
<1>2. k \in MigrateCalls /\ tx[c] \in Databases
  BY <1>1, CallShape, Zenon DEF IInv, TypeOK, ConnOK, RegisterCalls
<1>3. c \notin stale => InCallback(tx[c], k, drifted)
  BY <1>1, Zenon DEF IInv, ConnOK, Fresh
<1>4. CASE CallbackStatement(c)
  <2> DEFINE ts == {Fold[k.from.table], Fold[k.to.table]}
             ns == {i.name : i \in k.from.indexes \union k.to.indexes}
             f(e) == IF k.left = MaxStatements
                     THEN CountRun(e, k.from.id, k.id) ELSE e
             n == [k EXCEPT !.left = @ - 1]
  <2>1. PICK e \in AfterDdl(tx[c], ts, ns) : tx' = [tx EXCEPT ![c] = f(e)]
    BY <1>4, Zenon DEF CallbackStatement
  <2>2. c \notin stale /\ Fresh(c)
    BY <1>1, <1>4, WritersAreFresh, Zenon DEF CallbackStatement
  <2>3. k.left > 0 /\ k.pc = "callback"
    BY <1>4, Zenon DEF CallbackStatement, At
  <2>4. f(e) \in Databases /\ SameRows(f(e), tx[c]) /\ InCallback(f(e), n, drifted)
    BY <1>2, <1>3, <2>2, <2>3, CallbackKeeps, Zenon
  <2>5. /\ n \in Calls /\ n.pc = "callback" /\ n.op = "migrate" /\ n.from = k.from /\ n.to = k.to
    <3>1. k.left \in 0 .. MaxStatements
      BY <1>2, Zenon DEF MigrateCalls
    <3>2. k.left - 1 \in 0 .. MaxStatements
      BY <2>3, <3>1, BoundsAssumption
    <3> QED
      BY <1>2, <2>3, <3>2, Zenon DEF MigrateCalls, Calls
  <2>6. /\ call' = [call EXCEPT ![c] = n] /\ writer' = c /\ UNCHANGED <<db, stale, drifted, ddl>>
    BY <1>4, Zenon DEF CallbackStatement, IInv, TypeOK
  <2> HIDE DEF f, n
  <2>7. call'[c] = n /\ tx'[c] = f(e) /\ f(e) # None
    BY <2>1, <2>4, <2>6, NoneAssumption, Zenon DEF IInv, TypeOK
  <2>8. TypeOK'
    BY <2>1, <2>4, <2>5, <2>6, <2>7, ZenonT(30) DEF IInv, TypeOK
  <2>9. OthersKeep(c)
    BY <1>4, <2>1, <2>6, ConnectionsAssumption DEF IInv, TypeOK, OthersKeep, CallbackStatement, MayWrite
  <2>10. InTx(c)'
    BY <2>5, <2>7, Zenon DEF InTx
  <2>11. CallOK(c)'
    BY <1>1, <2>5, <2>7, Zenon DEF IInv, ConnOK, CallOK
  <2>12. Fresh(c)'
    <3>1. SameRows(tx[c], db)
      BY <2>2, <2>3, Zenon DEF Fresh
    <3>2. SameRows(f(e), db)
      BY <2>4, <3>1, Zenon DEF SameRows
    <3>3. MovesTo(db, f(e))
      BY <3>2, Zenon DEF MovesTo, SameRows
    <3> QED
      BY <2>4, <2>5, <2>6, <2>7, <3>2, <3>3, Zenon DEF Fresh
  <2>13. ConnOK(c)'
    BY <2>2, <2>6, <2>7, <2>10, <2>11, <2>12, Zenon DEF ConnOK
  <2> QED
    BY <2>8, <2>9, <2>13, OthersStayOK, Zenon
<1>5. CASE CallbackReturns(c)
  <2>1. Continue(c, "finish", None) /\ k.pc # "commit" /\ None \in Results
    BY <1>1, <1>5, Zenon DEF CallbackReturns, Results
  <2> QED
    BY <1>1, <1>3, <2>1, GoesOn, Zenon
<1>6. CASE CallbackFails(c)
  BY <1>1, <1>6, Refuses, Zenon DEF CallbackFails, Failure
<1>7. CASE MigrateFinish(c)
  <2> DEFINE d == Migrated(tx[c], k.id, k.from, k.to)
             fits == /\ Unclaimed(tx[c], k.to) /\ TableFits(tx[c], k.to)
                     /\ IndexesFit(ReplaceIndexes(tx[c], k.from, k.to), k.to)
                     /\ IndexNamesFree(tx[c], k.to)
  <2>1. CASE fits
    <3>1. Written(c, d, "commit", "Applied") /\ k.pc = "finish"
      BY <1>7, <2>1, Zenon DEF MigrateFinish, At
    <3>2. c \notin stale
      BY <1>1, <3>1, WritersAreFresh, Zenon DEF Written
    <3>3. k.from.id = k.to.id /\ k.from.version < k.to.version
      BY <1>1, Zenon DEF IInv, ConnOK, CallOK
    <3>4. /\ d \in Databases /\ Established(d, k.to)
          /\ Good(d, drifted \ {k.to.id}) /\ MovesTo(tx[c], d)
      BY <1>2, <1>3, <2>1, <3>2, <3>3, MigratedGood, Zenon
    <3>5. SchemaMatches(tx[c], k.from)
      BY <1>3, <3>2, Zenon DEF InCallback
    <3> HIDE DEF d
    <3> QED
      BY <1>1, <3>1, <3>4, <3>5, Writes, Zenon
  <2>2. CASE ~fits
    <3>1. Refuse(c, "SchemaMismatch") \/ Refuse(c, "Failed")
      BY <1>7, <2>2, Zenon DEF MigrateFinish
    <3> QED
      BY <1>1, <3>1, Refuses, Zenon DEF Failure
  <2> QED
    BY <2>1, <2>2, Zenon
<1> QED
  BY <1>4, <1>5, <1>6, <1>7, Zenon

\* COMMIT
LEMMA CommitStep ==
    ASSUME IInv, NEW c \in Connections, Commit(c)
    PROVE  IInv'
<1> DEFINE k == call[c]
           n == [k EXCEPT !.pc = "done"]
<1>1. InTx(c) /\ k.pc = "commit" /\ k.pc \in Running /\ tx[c] \in Databases
  BY Zenon DEF Commit, At, InTx, Running, IInv, ConnOK, TypeOK
<1>2. n \in Calls /\ n.pc = "done"
  <2>1. CASE k \in RegisterCalls
    BY <2>1, Zenon DEF RegisterCalls, Calls
  <2>2. CASE k \in MigrateCalls
    BY <2>2, Zenon DEF MigrateCalls, Calls
  <2> QED
    BY <1>1, <2>1, <2>2, CallShape, Zenon DEF IInv, TypeOK
<1>3. /\ call' = [call EXCEPT ![c] = n] /\ tx' = [tx EXCEPT ![c] = None] /\ ddl' = ddl
      /\ c \notin stale' /\ drifted' \subseteq drifted
  BY Zenon DEF Commit, IInv, TypeOK
<1> HIDE DEF n
<1>4. call'[c] = n /\ tx'[c] = None
  BY <1>3, Zenon DEF IInv, TypeOK
<1>5. writer' # c
  BY ConnectionsAssumption, Zenon DEF Commit
<1>6. ConnOK(c)'
  BY <1>2, <1>3, <1>4, <1>5, Zenon DEF ConnOK, InTx, CallOK, Running
<1>7. TypeOK'
  <2>1. db' \in Databases /\ writer' \in Connections \union {None}
    BY <1>1, Zenon DEF Commit, IInv, TypeOK
  <2>2. stale' \subseteq {e \in Connections : tx'[e] # None}
    BY <1>3, Zenon DEF Commit, IInv, TypeOK, Overtaken
  <2> QED
    BY <1>2, <1>3, <2>1, <2>2, Zenon DEF IInv, TypeOK
<1>8. CASE writer # c
  <2>1. k.result \notin {"Created", "Applied"}
    BY <1>1, <1>8, Zenon DEF IInv, ConnOK, CallOK
  <2>2. OthersKeep(c)
    BY <1>3, <1>8, <2>1, Zenon DEF Commit, IInv, TypeOK, OthersKeep
  <2> QED
    BY <1>6, <1>7, <2>2, OthersStayOK, Zenon
<1>9. CASE writer = c
  <2>1. c \notin stale /\ Fresh(c)
    BY <1>1, <1>9, Zenon DEF IInv, ConnOK
  <2>2. db' = tx[c] /\ writer' = None
    BY <1>9, Zenon DEF Commit
  <2>3. drifted' = IF k.result \in {"Created", "Applied"} THEN drifted \ {k.to.id} ELSE drifted
    BY Zenon DEF Commit
  <2>4. Good(db', drifted')
    BY <1>1, <2>1, <2>2, <2>3, Zenon DEF Fresh
  <2>5. ASSUME NEW e \in Connections, e # c PROVE ConnOK(e)'
    <3>1. call'[e] = call[e] /\ tx'[e] = tx[e]
      BY <1>3, <2>5, Zenon DEF IInv, TypeOK
    <3>2. e \in stale' <=> tx[e] # None
      BY <1>9, <2>5, Zenon DEF Commit, Overtaken, IInv, TypeOK
    <3>3. (tx[e] # None <=> InTx(e)) /\ CallOK(e)
      BY Zenon DEF IInv, ConnOK
    <3>4. InTx(e)' <=> InTx(e)
      BY <3>1, Zenon DEF InTx
    <3>5. CallOK(e)'
      BY <1>9, <2>5, <3>1, <3>3, Zenon DEF CallOK
    <3>6. writer' # e
      BY <2>2, ConnectionsAssumption, Zenon
    <3> QED
      BY <3>1, <3>2, <3>3, <3>4, <3>5, <3>6, Zenon DEF ConnOK
  <2> QED
    BY <1>6, <1>7, <2>4, <2>5, Zenon DEF IInv
<1> QED
  BY <1>8, <1>9, Zenon

\* DDL of the application
LEMMA DdlStep ==
    ASSUME IInv, Ddl
    PROVE  IInv' /\ MovesTo(db, db')
<1>1. /\ db' \in AfterDdl(db, Tables, IndexNames) /\ writer = None /\ db \in Databases
      /\ UNCHANGED <<tx, writer, call>>
      /\ stale' = {c \in Connections : tx[c] # None}
      /\ drifted' = drifted \union {id \in Ids : db.schema[id] # None /\ Owned(db, id) # Owned(db', id)}
  BY Zenon DEF Ddl, IInv, TypeOK
<1>2. db' \in Databases /\ MovesTo(db, db') /\ Good(db', drifted')
  BY <1>1, DdlGood, Zenon DEF IInv
<1>3. TypeOK'
  BY <1>1, <1>2, BoundsAssumption DEF Ddl, IInv, TypeOK
<1>4. ASSUME NEW c \in Connections PROVE ConnOK(c)'
  <2>1. ConnOK(c) /\ call'[c] = call[c] /\ tx'[c] = tx[c] /\ (c \in stale' <=> tx[c] # None)
    BY <1>1, Zenon DEF IInv
  <2>2. InTx(c)' <=> InTx(c)
    BY <2>1, Zenon DEF InTx
  <2>3. CallOK(c)'
    BY <1>1, <2>1, Zenon DEF ConnOK, CallOK
  <2>4. writer' # c
    BY <1>1, ConnectionsAssumption, Zenon
  <2> QED
    BY <2>1, <2>2, <2>3, <2>4, Zenon DEF ConnOK
<1> QED
  BY <1>2, <1>3, <1>4, Zenon DEF IInv

\* What a connection does but COMMIT.
Works(c) ==
    \/ \E s \in Schemas : Register(c, s)
    \/ \E m \in Migrations : Migrate(c, m)
    \/ \E id \in Ids : Lookup(c, id)
    \/ Begin(c) \/ StorageFails(c) \/ Return(c) \/ Crash(c)
    \/ RegisterExisting(c) \/ RegisterNew(c)
    \/ MigrateRecorded(c) \/ MigrateNew(c) \/ MigrateFinish(c)
    \/ CallbackStatement(c) \/ CallbackReturns(c) \/ CallbackFails(c)
    \/ LookupRow(c)

\* What a connection does without COMMIT leaves the file alone.
LEMMA ConnectionStep ==
    ASSUME IInv, NEW c \in Connections, Works(c)
    PROVE  IInv' /\ db' = db
<1>1. CASE StorageFails(c)
  BY <1>1, Refuses, Zenon DEF StorageFails, Failure, Refuse, Rollback
<1>2. CASE Crash(c)
  <2>1. Idle \in Calls /\ Idle.pc = "idle"
    BY Zenon DEF Calls, Idle
  <2> QED
    BY <1>2, <2>1, Leaves, Zenon DEF Crash, Rollback
<1>3. CASE Begin(c)
  BY <1>3, BeginStep, Zenon DEF Begin
<1>4. CASE RegisterExisting(c) \/ RegisterNew(c)
  <2>1. db' = db
    BY <1>4, Zenon DEF RegisterExisting, RegisterNew, Continue, Written, Refuse, Rollback
  <2> QED
    BY <1>4, <2>1, RegisterStep, Zenon
<1>5. CASE MigrateRecorded(c) \/ MigrateNew(c)
  <2>1. db' = db
    BY <1>5, Zenon DEF MigrateRecorded, MigrateNew, Continue, Refuse, Rollback
  <2> QED
    BY <1>5, <2>1, MigrateStep, Zenon
<1>6. CASE CallbackStatement(c) \/ CallbackReturns(c) \/ CallbackFails(c) \/ MigrateFinish(c)
  <2>1. db' = db
    BY <1>6, Zenon DEF CallbackStatement, CallbackReturns, CallbackFails, MigrateFinish, Continue, Written,
                Refuse, Rollback
  <2> QED
    BY <1>6, <2>1, CallbackStep, Zenon
<1>7. CASE \/ \E s \in Schemas : Register(c, s)
           \/ \E m \in Migrations : Migrate(c, m)
           \/ \E id \in Ids : Lookup(c, id)
           \/ LookupRow(c) \/ Return(c)
  <2>1. db' = db
    BY <1>7, Zenon DEF Register, Migrate, Lookup, LookupRow, Return
  <2> QED
    BY <1>7, <2>1, OutsideStep, Zenon
<1> QED
  BY <1>1, <1>2, <1>3, <1>4, <1>5, <1>6, <1>7, Zenon DEF Works

-----------------------------------------------------------------------------
(* The theorems.                                                           *)

\* An empty file, and one of the release before indexes and migrations.
LEMMA Initially == Init => IInv
<1> SUFFICES ASSUME Init PROVE IInv
  BY Zenon
<1>1. EmptyDatabase \in Databases
  BY Zenon DEF EmptyDatabase, Databases, Shapes
<1>2. ASSUME db = EmptyDatabase PROVE db \in Databases /\ Good(db, drifted)
  <2>1. db \in Databases
    BY <1>1, <1>2, Zenon
  <2>2. \A id \in Ids : /\ db.schema[id] = None /\ db.history[id] = {} /\ db.indexRows[id] = {}
                        /\ \A m \in MigrationIds : db.effects[id][m] = 0
    BY <1>2, Zenon DEF EmptyDatabase
  <2>3. Good(db, drifted)
    BY <2>2, SMTT(20) DEF Good, ChainOf, NamesUnique, OnceOf, TrueOf
  <2> QED
    BY <2>1, <2>3, Zenon
<1>3. ASSUME NEW s \in Schemas, s.indexes = {}, db = LegacyDatabase(s)
      PROVE  db \in Databases /\ Good(db, drifted)
  <2>1. s.id \in Ids /\ Fold[s.table] \in Tables
    BY Zenon DEF Ids, Tables
  <2>2. db \in Databases
    <3> DEFINE sch == [EmptyDatabase.schema EXCEPT ![s.id] = Fingerprint(s)]
               tab == [EmptyDatabase.tables EXCEPT ![Fold[s.table]] = PhysicalColumns(s)]
    <3>1. db = [EmptyDatabase EXCEPT !.registries = {"__csgdb_schema"}, !.schema = sch, !.tables = tab]
      BY <1>3, Zenon DEF LegacyDatabase
    <3>2. {"__csgdb_schema"} \in SUBSET Registries
      BY Zenon DEF Registries
    <3>3. sch \in [Ids -> {Fingerprint(u) : u \in Schemas} \union {None}]
      BY <1>1, <2>1, Zenon DEF Databases
    <3>4. tab \in [Tables -> Shapes]
      BY <1>1, <2>1, Zenon DEF Databases, Shapes
    <3> HIDE DEF sch, tab
    <3> QED
      BY <1>1, <3>1, <3>2, <3>3, <3>4, Zenon DEF Databases
  <2>3. /\ \A id \in Ids : /\ db.history[id] = {} /\ db.indexRows[id] = {}
                           /\ id # s.id => db.schema[id] = None
                           /\ \A m \in MigrationIds : db.effects[id][m] = 0
        /\ db.schema[s.id] = Fingerprint(s) /\ db.tables[Fold[s.table]] = PhysicalColumns(s)
    BY <1>3, <2>1, Zenon DEF LegacyDatabase, EmptyDatabase
  <2>4. IndexRows(s) = {}
    BY <1>3, Zenon DEF IndexRows
  <2>5. Established(db, s)
    BY <2>1, <2>3, <2>4, Zenon DEF Established, SchemaMatches, IndexesMatch, TableFits, IndexesFit
  <2>6. \A id \in Ids : TrueOf(db, id)
    BY <2>3, <2>5, Zenon DEF TrueOf
  <2>7. ChainOf(db)
    BY <2>3, Zenon DEF ChainOf
  <2>8. NamesUnique(db)
    BY <2>3, Zenon DEF NamesUnique
  <2>9. \A id \in Ids, m \in MigrationIds : OnceOf(db, id, m)
    BY <2>3 DEF OnceOf
  <2> QED
    BY <2>2, <2>6, <2>7, <2>8, <2>9, Zenon DEF Good
<1>4. db \in Databases /\ Good(db, drifted)
  BY <1>1, <1>2, <1>3, Zenon DEF Init
<1>5. Idle \in Calls /\ Idle.pc = "idle"
  BY Zenon DEF Calls, Idle
<1>6. TypeOK
  BY <1>4, <1>5, BoundsAssumption DEF Init, TypeOK
<1>7. \A c \in Connections : call[c].pc = "idle" /\ tx[c] = None /\ writer # c /\ c \notin stale
  BY <1>5, ConnectionsAssumption, Zenon DEF Init
<1>8. \A c \in Connections : ConnOK(c)
  BY <1>7, Zenon DEF ConnOK, InTx, CallOK, Running
<1> QED
  BY <1>4, <1>6, <1>8, Zenon DEF IInv

\* Every step keeps the invariant.
LEMMA Inductive == IInv /\ [Next]_vars => IInv'
<1> SUFFICES ASSUME IInv, [Next]_vars PROVE IInv'
  BY Zenon
<1>1. CASE Ddl
  BY <1>1, DdlStep, Zenon
<1>2. ASSUME NEW c \in Connections, Commit(c) PROVE IInv'
  BY <1>2, CommitStep, Zenon
<1>3. ASSUME NEW c \in Connections, Works(c) PROVE IInv'
  BY <1>3, ConnectionStep, Zenon
<1>4. CASE UNCHANGED vars
  <2>1. TypeOK' /\ Good(db, drifted)'
    BY <1>4, Zenon DEF vars, IInv, TypeOK
  <2>2. ASSUME NEW c \in Connections PROVE ConnOK(c)'
    BY <1>4, Zenon DEF vars, IInv, ConnOK, InTx, CallOK, Fresh
  <2> QED
    BY <2>1, <2>2, Zenon DEF IInv
<1> QED
  BY <1>1, <1>2, <1>3, <1>4, Zenon DEF Next, Works

\* The invariant holds.
LEMMA Always == Spec => []IInv
BY Initially, Inductive, PTL DEF Spec

\* The content, the transactions and the calls are of their types.
THEOREM TypeCorrect == Spec => []TypeOK
<1>1. IInv => TypeOK
  BY Zenon DEF IInv
<1> QED
  BY <1>1, Always, PTL

\* Where no two declared table names differ in case only, a registered collection
\* that no other DDL altered has the table and the indexes of its declaration,
\* whatever callbacks, crashes and other connections did (register_collection,
\* migrate_collection).
THEOREM RegistryStaysTrue ==
    ASSUME FoldInjective
    PROVE  Spec => []RegistryTrue
<1>1. IInv => RegistryTrue
  BY Zenon DEF IInv, Good, TrueOf, RegistryTrue
<1> QED
  BY <1>1, Always, PTL

\* Where no two declared table names differ in case only, a physical table has one
\* owner (ensure_table_is_unclaimed and UNIQUE on table_name).
THEOREM OneOwnerEach ==
    ASSUME FoldInjective
    PROVE  Spec => []OneOwner
<1>1. ASSUME IInv PROVE OneOwner
  <2>1. ASSUME NEW i \in Ids, NEW j \in Ids, i # j, db.schema[i] # None, db.schema[j] # None
        PROVE  Fold[db.schema[i].table] # Fold[db.schema[j].table]
    <3>1. PICK r \in Schemas : db.schema[i].table = r.table
      BY <1>1, <2>1, RowTable, Zenon DEF IInv, TypeOK
    <3>2. PICK s \in Schemas : db.schema[j].table = s.table
      BY <1>1, <2>1, RowTable, Zenon DEF IInv, TypeOK
    <3>3. r.table # s.table
      BY <1>1, <2>1, <3>1, <3>2, Zenon DEF IInv, Good, NamesUnique
    <3> QED
      BY <1>1, <3>1, <3>2, <3>3, Zenon DEF FoldInjective
  <2> QED
    BY <2>1, Zenon DEF OneOwner
<1> QED
  BY <1>1, Always, PTL

\* The records of a collection are a chain of version steps that ends at its row
\* (insert_migration, update_registered_schema).
THEOREM HistoryStaysChain == Spec => []HistoryIsChain
<1>1. IInv => HistoryIsChain
  BY Zenon DEF IInv, Good, ChainOf, Linked, HistoryIsChain
<1> QED
  BY <1>1, Always, PTL

\* The work of a callback is in the file at most once, and only with its record,
\* over any number of retries, crashes and connections (find_migration).
THEOREM CallbacksCommitOnce == Spec => []CallbacksOnce
<1>1. IInv => CallbacksOnce
  BY Zenon DEF IInv, Good, OnceOf, CallbacksOnce
<1> QED
  BY <1>1, Always, PTL

\* A row changes only in a commit that records the migration which starts at the
\* row it replaces, and a record is never lost (MovesByMigration, stepwise).
LEMMA MoveStep ==
    ASSUME IInv, [Next]_vars
    PROVE  MovesTo(db, db')
<1>1. ASSUME db' = db PROVE MovesTo(db, db')
  BY <1>1, Zenon DEF MovesTo
<1>2. CASE Ddl
  BY <1>2, DdlStep, Zenon
<1>3. ASSUME NEW c \in Connections, Commit(c) PROVE MovesTo(db, db')
  <2>1. CASE writer # c
    BY <1>1, <1>3, <2>1, Zenon DEF Commit
  <2>2. CASE writer = c
    BY <1>3, <2>2, Zenon DEF Commit, IInv, ConnOK, Fresh
  <2> QED
    BY <2>1, <2>2, Zenon
<1>4. ASSUME NEW c \in Connections, Works(c) PROVE MovesTo(db, db')
  BY <1>1, <1>4, ConnectionStep, Zenon
<1> QED
  BY <1>1, <1>2, <1>3, <1>4, Zenon DEF Next, Works, vars

\* Rows change by recorded migrations only (update_registered_schema,
\* insert_migration in one transaction).
THEOREM RowsMoveByMigration == Spec => MovesByMigration
<1>1. IInv /\ [Next]_vars =>
        [\A id \in Ids :
          /\ db.history[id] \subseteq db'.history[id]
          /\ db.schema[id] # None /\ db'.schema[id] # db.schema[id] =>
                \E row \in db'.history[id] \ db.history[id] :
                    row.from = db.schema[id] /\ row.to = db'.schema[id]]_vars
  BY MoveStep, Zenon DEF MovesTo
<1> QED
  BY <1>1, Always, PTL DEF Spec, MovesByMigration

\* The steps that decide how a call goes on.
Decides(c) ==
    \/ StorageFails(c) \/ RegisterExisting(c) \/ RegisterNew(c)
    \/ MigrateRecorded(c) \/ MigrateNew(c) \/ MigrateFinish(c)
    \/ CallbackReturns(c) \/ CallbackFails(c)

\* They end a call that runs in an error, or it goes on.
LEMMA DecidesShape ==
    ASSUME NEW c, Decides(c)
    PROVE  /\ call[c].pc \in Running
           /\ \/ \E r \in Failure : Refuse(c, r)
              \/ \E p \in {"callback", "finish", "commit"}, r \in Results :
                    Continue(c, p, r) \/ \E d : Written(c, d, p, r)
<1> USE DEF Failure, Success, Results, Running, At
<1>1. CASE StorageFails(c) \/ CallbackReturns(c) \/ CallbackFails(c)
  BY <1>1, Zenon DEF StorageFails, CallbackReturns, CallbackFails
<1>2. CASE RegisterExisting(c)
  BY <1>2, Zenon DEF RegisterExisting
<1>3. CASE RegisterNew(c)
  BY <1>3, Zenon DEF RegisterNew
<1>4. CASE MigrateRecorded(c)
  BY <1>4, Zenon DEF MigrateRecorded
<1>5. CASE MigrateNew(c)
  BY <1>5, Zenon DEF MigrateNew
<1>6. CASE MigrateFinish(c)
  BY <1>6, Zenon DEF MigrateFinish
<1> QED
  BY <1>1, <1>2, <1>3, <1>4, <1>5, <1>6, Zenon DEF Decides

\* A step of one connection is no step of another one's call.
LEMMA OthersCalls ==
    ASSUME IInv, NEW c \in Connections, NEW e \in Connections, e # c, Works(e) \/ Commit(e)
    PROVE  call'[c] = call[c]
<1>1. call \in [Connections -> Calls]
  BY Zenon DEF IInv, TypeOK
<1>2. ASSUME NEW k, call' = [call EXCEPT ![e] = k] PROVE call'[c] = call[c]
  BY <1>1, <1>2, Zenon
<1>3. CASE Commit(e)
  BY <1>1, <1>3, Zenon DEF Commit
<1>4. CASE Works(e)
  <2>1. CASE \/ \E s \in Schemas : Register(e, s)
             \/ \E m \in Migrations : Migrate(e, m)
             \/ \E id \in Ids : Lookup(e, id)
             \/ LookupRow(e) \/ Return(e) \/ Crash(e) \/ Begin(e) \/ CallbackStatement(e)
    BY <1>1, <2>1, Zenon DEF Register, Migrate, Lookup, LookupRow, Return, Crash, Begin, CallbackStatement
  <2>2. CASE Decides(e)
    <3>1. \/ \E r : Refuse(e, r)
          \/ \E p, r : Continue(e, p, r)
          \/ \E d, p, r : Written(e, d, p, r)
      BY <2>2, DecidesShape, Zenon
    <3> QED
      BY <1>1, <3>1, Zenon DEF Refuse, Continue, Written
  <2> QED
    BY <1>4, <2>1, <2>2, Zenon DEF Works, Decides
<1> QED
  BY <1>3, <1>4, Zenon

\* Only COMMIT is followed by an answer of success.
LEMMA SuccessIsCommitted ==
    ASSUME IInv, NEW c \in Connections, Works(c), call'[c].pc = "done"
    PROVE  call'[c].result \notin Success
<1>1. call \in [Connections -> Calls] /\ None \notin Success
  BY NoneAssumption, Zenon DEF IInv, TypeOK
<1>2. ASSUME call[c].pc \in Running, NEW r \in Failure, Refuse(c, r) PROVE call'[c].result \notin Success
  <2>1. call'[c] = Advanced(call[c], "done", r) /\ r \in Results /\ "done" \in Running \union {"done"}
    BY <1>1, <1>2, Zenon DEF Refuse, Done, Advanced, Results
  <2>2. call'[c].result = r
    BY <1>1, <1>2, <2>1, CallGoesOn
  <2> QED
    BY <1>2, <2>2, Zenon DEF Failure, Success
<1>3. ASSUME call[c].pc \in Running, NEW p \in Running, NEW r \in Results,
             call' = [call EXCEPT ![c].pc = p, ![c].result = r]
      PROVE  FALSE
  <2>1. call'[c] = Advanced(call[c], p, r) /\ p \in Running \union {"done"}
    BY <1>1, <1>3, Zenon DEF Advanced
  <2>2. call'[c].pc = p
    BY <1>1, <1>3, <2>1, CallGoesOn
  <2> QED
    BY <1>3, <2>2, Zenon DEF Running
<1>4. ASSUME NEW s \in Schemas, Register(c, s) PROVE call'[c].result \notin Success
  <2> DEFINE k == [pc |-> "begin", op |-> "register", to |-> s, result |-> None]
  <2>1. call'[c] = k \/ call'[c] = Done(k, "InvalidSchema")
    BY <1>1, <1>4, Zenon DEF Register
  <2>2. k.result = None /\ Done(k, "InvalidSchema").result = "InvalidSchema"
    BY Zenon DEF Done
  <2> HIDE DEF k
  <2> QED
    BY <1>1, <2>1, <2>2, Zenon DEF Success
<1>5. ASSUME NEW m \in Migrations, Migrate(c, m) PROVE call'[c].result \notin Success
  <2> DEFINE k == [pc |-> "begin", op |-> "migrate", id |-> m.id, from |-> m.from,
                   to |-> m.to, left |-> MaxStatements, result |-> None]
  <2>1. call'[c] = k \/ call'[c] = Done(k, "InvalidMigration")
    BY <1>1, <1>5, Zenon DEF Migrate
  <2>2. k.result = None /\ Done(k, "InvalidMigration").result = "InvalidMigration"
    BY Zenon DEF Done
  <2> HIDE DEF k
  <2> QED
    BY <1>1, <2>1, <2>2, Zenon DEF Success
<1>6. ASSUME NEW id \in Ids, Lookup(c, id) PROVE call'[c].result \notin Success
  BY <1>1, <1>6, Zenon DEF Lookup
<1>7. CASE LookupRow(c)
  <2>1. call[c] \in LookupCalls
    BY <1>1, <1>7 DEF LookupRow, At, Calls, RegisterCalls, MigrateCalls, Idle, Running
  <2>2. call'[c] = [call[c] EXCEPT !.pc = "done", !.row = db.schema[call[c].id]]
    BY <1>1, <1>7, Zenon DEF LookupRow
  <2> QED
    BY <1>1, <2>1, <2>2, Zenon DEF LookupCalls
<1>8. CASE Return(c) \/ Crash(c)
  BY <1>1, <1>8 DEF Return, Crash, Idle
<1>9. CASE Begin(c) \/ CallbackStatement(c)
  <2>1. call[c].pc \in {"begin", "callback"} /\ call[c].pc \in Running
    BY <1>9, Zenon DEF Begin, CallbackStatement, At, Running
  <2>2. call[c] \in RegisterCalls \/ call[c] \in MigrateCalls
    BY <1>1, <2>1, CallShape, Zenon
  <2>3. \/ call'[c] = [call[c] EXCEPT !.pc = "read"]
        \/ call'[c] = [call[c] EXCEPT !.left = @ - 1]
    BY <1>1, <1>9, Zenon DEF Begin, CallbackStatement
  <2> QED
    BY <2>1, <2>2, <2>3, Zenon DEF RegisterCalls, MigrateCalls
<1>10. CASE Decides(c)
  <2>1. call[c].pc \in Running
    BY <1>10, DecidesShape, Zenon
  <2>2. \/ \E r \in Failure : Refuse(c, r)
        \/ \E p \in {"callback", "finish", "commit"}, r \in Results :
              Continue(c, p, r) \/ \E d : Written(c, d, p, r)
    BY <1>10, DecidesShape, Zenon
  <2>3. CASE \E r \in Failure : Refuse(c, r)
    BY <1>2, <2>1, <2>3, Zenon
  <2>4. CASE ~\E r \in Failure : Refuse(c, r)
    <3>1. PICK p \in {"callback", "finish", "commit"}, r \in Results :
             call' = [call EXCEPT ![c].pc = p, ![c].result = r]
      BY <2>2, <2>4, Zenon DEF Continue, Written
    <3>2. p \in Running
      BY Zenon DEF Running
    <3> QED
      BY <1>3, <2>1, <3>1, <3>2, Zenon
  <2> QED
    BY <2>3, <2>4, Zenon
<1> QED
  BY <1>4, <1>5, <1>6, <1>7, <1>8, <1>9, <1>10, ZenonT(30) DEF Works, Decides

\* What one step may answer (SuccessIsTrue, stepwise).
LEMMA SuccessStep ==
    ASSUME IInv, [Next]_vars, NEW c \in Connections,
           ~At(c, "done"), call'[c].pc = "done", call'[c].result \in Success
    PROVE  c \in stale \/ Established(db', call'[c].to)
<1>1. call'[c] # call[c]
  BY Zenon DEF At
<1>2. Commit(c)
  <2>1. ~Ddl /\ vars' # vars
    BY <1>1, Zenon DEF Ddl, vars
  <2>2. PICK e \in Connections : Works(e) \/ Commit(e)
    BY <2>1, Zenon DEF Next, Works
  <2> QED
    BY <1>1, <2>2, OthersCalls, SuccessIsCommitted, Zenon
<1> SUFFICES ASSUME c \notin stale PROVE Established(db', call'[c].to)
  BY Zenon
<1>3. InTx(c) /\ call[c].pc = "commit" /\ call[c].pc \in Running /\ call[c] \in Calls
  BY <1>2, Zenon DEF Commit, At, InTx, Running, IInv, TypeOK
<1>4. Established(tx[c], call[c].to) /\ Fresh(c)
  BY <1>3, Zenon DEF IInv, ConnOK, CallOK
<1>5. call'[c].to = call[c].to
  <2>1. call'[c] = [call[c] EXCEPT !.pc = "done"]
    BY <1>2, Zenon DEF Commit, IInv, TypeOK
  <2> QED
    BY <1>3, <2>1, CallShape, Zenon DEF RegisterCalls, MigrateCalls
<1>6. CASE writer = c
  BY <1>2, <1>4, <1>5, <1>6, Zenon DEF Commit
<1>7. CASE writer # c
  <2>1. db' = db /\ Same(tx[c], db)
    BY <1>2, <1>4, <1>7, Zenon DEF Commit, Fresh
  <2> QED
    BY <1>4, <1>5, <2>1, SameGood, Zenon
<1> QED
  BY <1>6, <1>7, Zenon

\* A success is answered only when rows, table and indexes are those declared,
\* unless another connection committed after the call's snapshot
\* (register_collection, migrate_collection).
THEOREM SuccessTellsTruth == Spec => SuccessIsTrue
<1>1. IInv /\ [Next]_vars =>
        [\A c \in Connections :
          ~At(c, "done") /\ call'[c].pc = "done" /\ call'[c].result \in Success
             => c \in stale \/ Established(db', call'[c].to)]_vars
  BY SuccessStep, Zenon
<1> QED
  BY <1>1, Always, PTL DEF Spec, SuccessIsTrue

\* A registered collection that no other DDL altered has what any declaration of
\* its rows declares: the rows determine the table and the indexes.
LEMMA RowsDetermine ==
    ASSUME NEW d, NEW s \in Schemas, TrueOf(d, s.id), SchemaMatches(d, s), IndexesMatch(d, s)
    PROVE  Established(d, s)
<1>1. d.schema[s.id] # None
  BY NoneAssumption, Zenon DEF SchemaMatches
<1>2. PICK r \in Schemas : r.id = s.id /\ Established(d, r)
  BY <1>1, Zenon DEF TrueOf
<1>3. Fingerprint(r) = Fingerprint(s) /\ IndexRows(r) = IndexRows(s)
  BY <1>2, Zenon DEF Established, SchemaMatches, IndexesMatch
<1>4. r.table = s.table /\ r.fields = s.fields
  BY <1>3 DEF Fingerprint
<1>5. PhysicalColumns(r) = PhysicalColumns(s)
  BY <1>4, Zenon DEF PhysicalColumns
<1> QED
  BY <1>2, <1>3, <1>4, <1>5, Zenon DEF Established, TableFits, IndexesFit

\* A call for a migration that is in the file already, on a snapshot that is not
\* stale, is before its answer or on the way to AlreadyApplied.
LEMMA RetryState ==
    ASSUME FoldInjective, IInv, NEW c \in Connections, c \notin stale,
           call[c].pc \in Running, call[c].op = "migrate",
           Row(call[c].id, call[c].from, call[c].to) \in db.history[call[c].from.id],
           SchemaMatches(db, call[c].to), IndexesMatch(db, call[c].to),
           call[c].to.id \notin drifted
    PROVE  /\ call[c].pc \in {"begin", "read", "commit"}
           /\ call[c].pc = "read" =>
                 /\ Row(call[c].id, call[c].from, call[c].to) \in tx[c].history[call[c].from.id]
                 /\ Established(tx[c], call[c].to)
           /\ call[c].pc = "commit" => call[c].result = "AlreadyApplied"
<1> DEFINE k == call[c]
<1>1. k \in MigrateCalls /\ k.to \in Schemas /\ k.from \in Schemas
  <2>1. k \in MigrateCalls
    BY CallShape, Zenon DEF IInv, TypeOK, RegisterCalls
  <2> QED
    BY <2>1, Zenon DEF MigrateCalls
<1>2. k.from.id = k.to.id /\ k.from.version < k.to.version
  BY Zenon DEF IInv, ConnOK, CallOK
<1>3. ~SchemaMatches(db, k.from)
  <2>1. ASSUME Fingerprint(k.from) = Fingerprint(k.to) PROVE k.from.version = k.to.version
    BY <2>1 DEF Fingerprint
  <2>2. k.from.version # k.to.version
    BY <1>1, <1>2, SchemasAssumption
  <2> QED
    BY <1>2, <2>1, <2>2, Zenon DEF SchemaMatches
<1>4. InTx(c) => Fresh(c)
  BY Zenon DEF IInv, ConnOK
<1>5. k.pc \notin {"callback", "finish"}
  <2>1. ASSUME k.pc \in {"callback", "finish"} PROVE FALSE
    <3>1. InCallback(tx[c], k, drifted) /\ SameRows(tx[c], db)
      BY <1>4, <2>1, Zenon DEF InTx, Fresh
    <3> QED
      BY <1>3, <3>1, Zenon DEF InCallback, SameRows, SchemaMatches
  <2> QED
    BY <2>1, Zenon
<1>6. ASSUME k.pc = "read"
      PROVE  /\ Row(k.id, k.from, k.to) \in tx[c].history[k.from.id]
             /\ Established(tx[c], k.to)
  <2>1. SameRows(tx[c], db) /\ Good(tx[c], drifted)
    BY <1>4, <1>6, Zenon DEF InTx, Fresh
  <2>2. TrueOf(tx[c], k.to.id)
    BY <1>1, <2>1, Zenon DEF Good, Ids
  <2>3. SchemaMatches(tx[c], k.to) /\ IndexesMatch(tx[c], k.to)
    BY <2>1, Zenon DEF SameRows, SchemaMatches, IndexesMatch
  <2>4. Established(tx[c], k.to)
    BY <1>1, <2>2, <2>3, RowsDetermine, Zenon
  <2> QED
    BY <2>1, <2>4, Zenon DEF SameRows
<1>7. ASSUME k.pc = "commit" PROVE k.result = "AlreadyApplied"
  <2>1. k.result \in {"Applied", "AlreadyApplied"}
    BY <1>7, Zenon DEF IInv, ConnOK, CallOK
  <2>2. k.result # "Applied"
    BY <1>3, <1>4, <1>7, Zenon DEF InTx, Fresh
  <2> QED
    BY <2>1, <2>2, Zenon
<1> QED
  BY <1>5, <1>6, <1>7, Zenon DEF Running

\* What one step may do to a repeated migration (RetryIsQuiet, stepwise).
LEMMA RetryStep ==
    ASSUME FoldInjective, IInv, [Next]_vars, NEW c \in Connections, c \notin stale,
           call[c].pc \in Running, call[c].op = "migrate",
           Row(call[c].id, call[c].from, call[c].to) \in db.history[call[c].from.id],
           SchemaMatches(db, call[c].to), IndexesMatch(db, call[c].to),
           call[c].to.id \notin drifted
    PROVE  \/ call'[c].pc \in {"idle", "begin", "read"}
           \/ call'[c].pc \in {"commit", "done"} /\ call'[c].result \in {"AlreadyApplied", "Failed"}
<1>1. /\ call[c].pc \in {"begin", "read", "commit"}
      /\ call[c].pc = "read" =>
            /\ Row(call[c].id, call[c].from, call[c].to) \in tx[c].history[call[c].from.id]
            /\ Established(tx[c], call[c].to)
      /\ call[c].pc = "commit" => call[c].result = "AlreadyApplied"
  BY RetryState, Zenon
<1>2. call \in [Connections -> Calls] /\ call[c] \in MigrateCalls
  BY CallShape, Zenon DEF IInv, TypeOK, RegisterCalls
<1>3. CASE call'[c] = call[c]
  BY <1>1, <1>3, Zenon
<1>4. CASE call'[c] # call[c]
  <2>1. ~Ddl /\ vars' # vars
    BY <1>4, Zenon DEF Ddl, vars
  <2>2. PICK e \in Connections : Works(e) \/ Commit(e)
    BY <2>1, Zenon DEF Next, Works
  <2>3. Works(c) \/ Commit(c)
    BY <1>4, <2>2, OthersCalls, Zenon
  <2>4. call[c].pc = "read" => Recorded(tx[c], call[c].id, call[c].from.id)
    BY <1>1, Zenon DEF Recorded, Row
  <2>5. StorageFails(c) \/ Crash(c) \/ Begin(c) \/ MigrateRecorded(c) \/ Commit(c)
    BY <1>1, <2>3, <2>4, ZenonT(30) DEF Works, Register, Migrate, Lookup, LookupRow, Return, At,
         RegisterExisting, RegisterNew, MigrateNew, MigrateFinish, CallbackStatement,
         CallbackReturns, CallbackFails
  <2>6. CASE StorageFails(c)
    <3>1. call'[c] = Advanced(call[c], "done", "Failed")
      BY <1>2, <2>6, Zenon DEF StorageFails, Refuse, Done, Advanced
    <3>2. "Failed" \in Results /\ "done" \in Running \union {"done"}
      BY Zenon DEF Results, Failure
    <3> QED
      BY <1>2, <3>1, <3>2, CallGoesOn, SMTT(20)
  <2>7. CASE Crash(c)
    BY <1>2, <2>7, Zenon DEF Crash, Idle
  <2>8. CASE Begin(c)
    <3>1. call'[c] = [call[c] EXCEPT !.pc = "read"]
      BY <1>2, <2>8, Zenon DEF Begin
    <3> QED
      BY <1>2, <3>1, Zenon DEF MigrateCalls
  <2>9. CASE MigrateRecorded(c)
    <3>1. Continue(c, "commit", "AlreadyApplied")
      BY <1>1, <2>9, Zenon DEF MigrateRecorded, At
    <3>2. call'[c] = Advanced(call[c], "commit", "AlreadyApplied")
      BY <1>2, <3>1, Zenon DEF Continue, Advanced
    <3>3. "AlreadyApplied" \in Results /\ "commit" \in Running \union {"done"}
      BY Zenon DEF Results, Success, Running
    <3> QED
      BY <1>2, <3>2, <3>3, CallGoesOn, SMTT(20)
  <2>10. CASE Commit(c)
    <3>1. call'[c] = [call[c] EXCEPT !.pc = "done"] /\ call[c].pc = "commit"
      BY <1>2, <2>10, Zenon DEF Commit, At
    <3>2. call'[c].pc = "done" /\ call'[c].result = call[c].result
      BY <1>2, <3>1, Zenon DEF MigrateCalls
    <3> QED
      BY <1>1, <3>1, <3>2, Zenon
  <2> QED
    BY <2>5, <2>6, <2>7, <2>8, <2>9, <2>10, Zenon
<1> QED
  BY <1>3, <1>4, Zenon

\* Where no two declared table names differ in case only, a migration that is in
\* the file can be asked for again: a call that no later commit overtakes is not
\* refused and does not run the callback, whoever committed the migration and
\* whatever failed since (migrate_collection).
THEOREM RetriesAreQuiet ==
    ASSUME FoldInjective
    PROVE  Spec => RetryIsQuiet
<1>1. IInv /\ [Next]_vars =>
        [\A c \in Connections \ stale :
          LET k == call[c] IN
          (/\ k.pc \in Running /\ k.op = "migrate"
           /\ Row(k.id, k.from, k.to) \in db.history[k.from.id]
           /\ SchemaMatches(db, k.to) /\ IndexesMatch(db, k.to)
           /\ k.to.id \notin drifted)
          => \/ call'[c].pc \in {"idle", "begin", "read"}
             \/ /\ call'[c].pc \in {"commit", "done"}
                /\ call'[c].result \in {"AlreadyApplied", "Failed"}]_vars
  BY RetryStep, Zenon
<1> QED
  BY <1>1, Always, PTL DEF Spec, RetryIsQuiet

=============================================================================
