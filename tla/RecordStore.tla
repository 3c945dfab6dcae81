---------------------------- MODULE RecordStore -----------------------------
(***************************************************************************)
(* The typed records of one collection: CollectionCrud                     *)
(* (crates/csgdb/src/collection.rs) with the statements that               *)
(* crates/csgdb-derive/src/lib.rs writes for it.  The engine is external:  *)
(* it keeps the rows, unique in the primary key, and numbers the           *)
(* parameters of a statement from left to right.                           *)
(***************************************************************************)
EXTENDS FieldValues, Sequences, FiniteSets

CONSTANTS
    Fields,            \* the schema: a sequence of [id, type, primary_key]
    Records,           \* records: sequences of Rust values, one per field
    RawRows            \* rows the application writes with SQL of its own

\* derive accepts a struct with one primary key, which is not an Option.
ASSUME FieldsAssumption ==
    /\ Len(Fields) \in Nat /\ DOMAIN Fields = 1 .. Len(Fields)
    /\ \A i \in DOMAIN Fields : Fields[i].type \in FieldTypes
    /\ Cardinality({i \in DOMAIN Fields : Fields[i].primary_key}) = 1
    /\ \A i \in DOMAIN Fields : Fields[i].primary_key => ~Fields[i].type.option

\* Rust's types: a record has a value of its type for every field.
ASSUME RecordsAssumption ==
    \A r \in Records : /\ r = [i \in DOMAIN Fields |-> r[i]]
                       /\ \A i \in DOMAIN Fields : r[i] \in RustValues(Fields[i].type)

KeyIndex == CHOOSE i \in DOMAIN Fields : Fields[i].primary_key
Nullable(field) == field.type.option

VARIABLES
    table,   \* the rows: sequences of engine values
    answer,  \* what the last call returned
    wrote    \* history: the records the typed calls wrote last, by key value

recordVars == <<table, answer, wrote>>

NoAnswer == [kind |-> "none"]

RecordInit == table = {} /\ answer = NoAnswer /\ wrote = [k \in {} |-> None]

-----------------------------------------------------------------------------

\* Collection::values and from_row, field by field.
RecordEncodes(r) == \A i \in DOMAIN Fields : Encodes(Fields[i].type, r[i])
values(r) == [i \in DOMAIN Fields |-> Encoded(Fields[i].type, r[i])]
RowDecodes(row) == \A i \in DOMAIN Fields : Decodes(Fields[i].type, row[i])
from_row(row) == [i \in DOMAIN Fields |-> Decoded(Fields[i].type, row[i])]

KeyType == Fields[KeyIndex].type
RowsWithKey(key) == {row \in table : row[KeyIndex] = key}

\* What the engine keeps of a parameter: a NaN becomes NULL.
Stored(value) == IF value.class = "Real" /\ value.v \in Nans THEN Null ELSE value
Bound(parameters) == [i \in DOMAIN parameters |-> Stored(parameters[i])]

\* The constraints of create_table_sql.
RowAllowed(row) ==
    \A i \in DOMAIN Fields : row[i] = Null => Nullable(Fields[i])

Wrote(key, r) == [k \in DOMAIN wrote \union {key} |-> IF k = key THEN r ELSE wrote[k]]
Forget(key) == [k \in DOMAIN wrote \ {key} |-> wrote[k]]

\* insert.  A value to_value refuses, a duplicate key and a NULL in a NOT NULL
\* column are errors that change nothing.
Insert(r) ==
    /\ LET row == Bound(values(r))
       IN IF RecordEncodes(r) /\ RowAllowed(row) /\ RowsWithKey(row[KeyIndex]) = {}
          THEN table' = table \union {row} /\ wrote' = Wrote(row[KeyIndex], r)
          ELSE UNCHANGED <<table, wrote>>
    /\ answer' = NoAnswer

\* Mutant: the values are bound in the order of the fields.
UpdateInFieldOrder(r) == values(r)

\* update_values: the key goes to the end, where update_sql has its parameter.
update_values(r) ==
    LET others == SubSeq(values(r), 1, KeyIndex - 1)
                  \o SubSeq(values(r), KeyIndex + 1, Len(values(r)))
    IN Append(others, values(r)[KeyIndex])

\* update_sql: the parameters of the other columns are numbered in field order.
Parameter(i) == Cardinality({j \in 1 .. i : j # KeyIndex})
Assigned(row, parameters) ==
    [i \in DOMAIN Fields |-> IF i = KeyIndex THEN row[i] ELSE parameters[Parameter(i)]]

\* update; no row may have the key.  The history goes by the record's own key,
\* whatever the parameters name.
Update(r) ==
    /\ LET parameters == Bound(update_values(r))
           key == parameters[Len(parameters)]
           old == RowsWithKey(key)
           new == {Assigned(row, parameters) : row \in old}
           own == Bound(values(r))[KeyIndex]
       IN IF RecordEncodes(r) /\ \A row \in new : RowAllowed(row)
          THEN /\ table' = (table \ old) \union new
               /\ wrote' = IF RowsWithKey(own) = {} THEN wrote ELSE Wrote(own, r)
          ELSE UNCHANGED <<table, wrote>>
    /\ answer' = NoAnswer

\* delete
Delete(key) ==
    /\ LET stored == Stored(Encoded(KeyType, key))
       IN IF Encodes(KeyType, key)
          THEN table' = table \ RowsWithKey(stored) /\ wrote' = Forget(stored)
          ELSE UNCHANGED <<table, wrote>>
    /\ answer' = NoAnswer

\* get, through query_record
Get(key) ==
    /\ Encodes(KeyType, key)
    /\ LET rows == RowsWithKey(Stored(Encoded(KeyType, key)))
       IN answer' = [kind |-> "get", key |-> key,
                     ok |-> \A row \in rows : RowDecodes(row),
                     records |-> {from_row(row) : row \in rows}]
    /\ UNCHANGED <<table, wrote>>

\* The application replaces a row with SQL of its own.
RawReplace(row) ==
    /\ RowAllowed(row)
    /\ table' = (table \ RowsWithKey(row[KeyIndex])) \union {row}
    /\ wrote' = Forget(row[KeyIndex])
    /\ answer' = NoAnswer

RecordNext ==
    \/ \E r \in Records : Insert(r) \/ Update(r)
    \/ \E r \in Records : Delete(r[KeyIndex]) \/ Get(r[KeyIndex])
    \/ \E row \in RawRows : RawReplace(row)

\* What a call of the query interface is to the records: it reads them.
QueryStep == answer'.kind # "get" /\ UNCHANGED <<table, wrote>>

RecordSpec == RecordInit /\ [][RecordNext \/ QueryStep]_recordVars

-----------------------------------------------------------------------------

\* A record as its row tells it: the engine has no NaN, so an optional field
\* that held one holds nothing.
Kept(r) ==
    [i \in DOMAIN Fields |->
        IF Fields[i].type.kind \in {"f64", "f32"} /\ r[i] \in Nans THEN None ELSE r[i]]

\* A record that was inserted or updated is read back as it was written, NaN
\* apart, until it is written again, whatever happened to other records.
ReadsBack ==
    answer.kind = "get" =>
        LET key == Stored(Encoded(KeyType, answer.key))
        IN key \in DOMAIN wrote => answer.ok /\ answer.records = {Kept(wrote[key])}

=============================================================================
