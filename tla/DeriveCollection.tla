-------------------------- MODULE DeriveCollection --------------------------
(***************************************************************************)
(* The declarations #[derive(Collection)] accepts and the schema it builds *)
(* from one (crates/csgdb-derive/src/lib.rs), beside the check every call  *)
(* makes of a schema at run time (validate_collection_schema in            *)
(* crates/csgdb/src/collection.rs).  The two are written apart, and a      *)
(* schema that only one of them accepts fails in production.               *)
(*                                                                         *)
(* A name is [text, bytes, nul, reserved]: what it is, its length, whether *)
(* it contains NUL and whether it begins with __csgdb_.  Attributes come   *)
(* with the number of times each is given.                                 *)
(***************************************************************************)
EXTENDS Naturals, Sequences, FiniteSets

\* valid_name in collection.rs, validate_stable_name in the macro.
ValidName(n) == 1 <= n.bytes /\ n.bytes <= 255 /\ ~n.nul

DistinctIds(s) == \A i, j \in DOMAIN s : s[i].id = s[j].id => i = j
DistinctColumns(s) == \A i, j \in DOMAIN s : s[i].column = s[j].column => i = j
DistinctNames(s) == \A i, j \in DOMAIN s : s[i].name = s[j].name => i = j

-----------------------------------------------------------------------------
(* The macro                                                               *)

\* set_once and required_string: a required attribute is given once.
Once(n) == n = 1

\* classify_type: Option at most once around a type with a storage class.
IntegerTypes == {"i8", "i16", "i32", "i64", "u8", "u16", "u32", "u64", "bool"}
Storage(base) ==
    CASE base \in IntegerTypes -> "Integer"
      [] base \in {"f32", "f64"} -> "Real"
      [] base = "String" -> "Text"
      [] base = "Vec<u8>" -> "Blob"
TypeAccepted(type) ==
    /\ type.options <= 1
    /\ type.base \in IntegerTypes \union {"f32", "f64", "String", "Vec<u8>"}

\* parse_field_attributes and the checks on one field.
FieldAccepted(f) ==
    /\ Once(f.given.id) /\ Once(f.given.column)
    /\ f.given.primary_key <= 1 /\ f.given.unknown = 0
    /\ ValidName(f.id) /\ ValidName(f.column)
    /\ TypeAccepted(f.type)
    /\ f.given.primary_key = 1 => f.type.options = 0

\* derive_indexes, for one index; `fields` are ids of fields.
IndexAccepted(d, x) ==
    /\ Once(x.given.id) /\ Once(x.given.name)
    /\ x.given.unique <= 1 /\ x.given.unknown = 0
    /\ ValidName(x.id) /\ ValidName(x.name) /\ ~x.name.reserved
    /\ DOMAIN x.fields # {}
    /\ \A k \in DOMAIN x.fields : \E i \in DOMAIN d.fields : d.fields[i].id = x.fields[k]
    /\ \A k, l \in DOMAIN x.fields : x.fields[k] = x.fields[l] => k = l

\* expand_collection, parse_collection_attributes; `unknown` also counts a
\* `crate` that is no Rust path.  Descriptors start with a fixed line, so the
\* run-time check never meets an empty one.
DeriveAccepts(d) ==
    /\ d.generics = 0 /\ d.shape = "named struct"
    /\ Once(d.given.collection) /\ Once(d.given.table) /\ Once(d.given.version)
    /\ d.given.crate <= 1 /\ d.given.unknown = 0
    /\ ValidName(d.collection) /\ ValidName(d.table) /\ ~d.table.reserved
    /\ d.version > 0
    /\ DOMAIN d.fields # {}
    /\ \A i \in DOMAIN d.fields : FieldAccepted(d.fields[i])
    /\ DistinctIds(d.fields) /\ DistinctColumns(d.fields)
    /\ \A i, j \in DOMAIN d.fields : d.fields[i].constant = d.fields[j].constant => i = j
    /\ \E i \in DOMAIN d.fields : \A j \in DOMAIN d.fields :
          d.fields[j].given.primary_key = 1 <=> i = j
    /\ \A m \in DOMAIN d.indexes : IndexAccepted(d, d.indexes[m])
    /\ DistinctIds(d.indexes) /\ DistinctNames(d.indexes)

\* The column of the field an index names: the first with that id.
FieldNamed(d, id) ==
    CHOOSE i \in DOMAIN d.fields :
        d.fields[i].id = id /\ \A j \in DOMAIN d.fields : d.fields[j].id = id => i <= j

\* The schema of the expansion; its flags are 0 and 1.
DerivedFields(d) ==
    [i \in DOMAIN d.fields |->
        [id |-> d.fields[i].id, column |-> d.fields[i].column,
         column_type |-> Storage(d.fields[i].type.base),
         nullable |-> d.fields[i].type.options,
         primary_key |-> d.fields[i].given.primary_key]]

IndexColumns(d, x) ==
    [k \in DOMAIN x.fields |-> d.fields[FieldNamed(d, x.fields[k])].column]

DerivedIndexes(d) ==
    [m \in DOMAIN d.indexes |->
        [id |-> d.indexes[m].id, name |-> d.indexes[m].name,
         columns |-> IndexColumns(d, d.indexes[m]),
         unique |-> d.indexes[m].given.unique]]

Derived(d) ==
    [id |-> d.collection, table |-> d.table, version |-> d.version,
     fields |-> DerivedFields(d), indexes |-> DerivedIndexes(d)]

-----------------------------------------------------------------------------
(* The run-time check                                                      *)

ColumnOf(s, column) == \E i \in DOMAIN s.fields : s.fields[i].column = column

IndexValid(s, x) ==
    /\ ValidName(x.id) /\ ValidName(x.name) /\ ~x.name.reserved
    /\ DOMAIN x.columns # {}
    /\ \A k \in DOMAIN x.columns : ColumnOf(s, x.columns[k])
    /\ \A k, l \in DOMAIN x.columns : x.columns[k] = x.columns[l] => k = l

\* validate_collection_schema.  Counting the primary keys saturates at 255,
\* which does not make it 1.
validate_collection_schema(s) ==
    /\ ValidName(s.id) /\ ValidName(s.table) /\ ~s.table.reserved
    /\ s.version # 0
    /\ DOMAIN s.fields # {}
    /\ \A i \in DOMAIN s.fields :
          /\ ValidName(s.fields[i].id) /\ ValidName(s.fields[i].column)
          /\ s.fields[i].primary_key = 1 => s.fields[i].nullable = 0
    /\ DistinctIds(s.fields) /\ DistinctColumns(s.fields)
    /\ \E i \in DOMAIN s.fields : \A j \in DOMAIN s.fields : s.fields[j].primary_key = 1 <=> i = j
    /\ \A m \in DOMAIN s.indexes : IndexValid(s, s.indexes[m])
    /\ DistinctIds(s.indexes) /\ DistinctNames(s.indexes)

=============================================================================
