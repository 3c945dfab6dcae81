-------------------------- MODULE CollectionProofs --------------------------
(***************************************************************************)
(* Theorems about collections: what the derive macro accepts, the          *)
(* conversions of fields, the records that typed calls write and read, and *)
(* predicates: what compile_predicate accepts and counts, and that the     *)
(* engine evaluates what it writes as the tree means.                      *)
(***************************************************************************)
EXTENDS DeriveCollection, TypedCollection, FiniteSetTheorems, SequenceTheorems, TLAPS

-----------------------------------------------------------------------------
(* Declarations                                                             *)

\* An index finds the field it names: ids are distinct, so its columns are the
\* columns of distinct fields.
LEMMA FieldFound ==
    ASSUME NEW d, DOMAIN d.fields \subseteq Nat, DistinctIds(d.fields),
           NEW i \in DOMAIN d.fields
    PROVE  FieldNamed(d, d.fields[i].id) = i
<1>1. \A j \in DOMAIN d.fields : d.fields[j].id = d.fields[i].id => j = i
  BY Zenon DEF DistinctIds
<1>2. i <= i
  OBVIOUS
<1> QED
  BY <1>1, <1>2, Zenon DEF FieldNamed

\* Every declaration the macro compiles is a schema the library accepts at run
\* time: registering it fails for what is in the database, never for itself.
THEOREM DerivedIsValid ==
    ASSUME NEW d, DOMAIN d.fields \subseteq Nat, d.version \in Nat, DeriveAccepts(d)
    PROVE  validate_collection_schema(Derived(d))
<1> SUFFICES ASSUME NEW s, s = Derived(d)
             PROVE  validate_collection_schema(s)
  BY Zenon
<1>0. /\ d.version > 0
      /\ \A i \in DOMAIN d.fields : FieldAccepted(d.fields[i])
      /\ DistinctIds(d.fields) /\ DistinctColumns(d.fields)
      /\ \E i \in DOMAIN d.fields : \A j \in DOMAIN d.fields :
            d.fields[j].given.primary_key = 1 <=> i = j
      /\ \A m \in DOMAIN d.indexes : IndexAccepted(d, d.indexes[m])
      /\ DistinctIds(d.indexes) /\ DistinctNames(d.indexes)
  BY Zenon DEF DeriveAccepts
<1>1. /\ s.id = d.collection /\ s.table = d.table /\ s.version = d.version
      /\ s.fields = DerivedFields(d) /\ s.indexes = DerivedIndexes(d)
  BY Zenon DEF Derived
<1>2. /\ DOMAIN s.fields = DOMAIN d.fields
      /\ \A i \in DOMAIN d.fields :
            /\ s.fields[i].id = d.fields[i].id
            /\ s.fields[i].column = d.fields[i].column
            /\ s.fields[i].nullable = d.fields[i].type.options
            /\ s.fields[i].primary_key = d.fields[i].given.primary_key
  <2>1. DOMAIN s.fields = DOMAIN d.fields
    BY <1>1, Zenon DEF DerivedFields
  <2>2. ASSUME NEW i \in DOMAIN d.fields
        PROVE  s.fields[i] = [id |-> d.fields[i].id, column |-> d.fields[i].column,
                              column_type |-> Storage(d.fields[i].type.base),
                              nullable |-> d.fields[i].type.options,
                              primary_key |-> d.fields[i].given.primary_key]
    BY <1>1, Zenon DEF DerivedFields
  <2>3. \A i \in DOMAIN d.fields :
            /\ s.fields[i].id = d.fields[i].id
            /\ s.fields[i].column = d.fields[i].column
            /\ s.fields[i].nullable = d.fields[i].type.options
            /\ s.fields[i].primary_key = d.fields[i].given.primary_key
    <3> TAKE i \in DOMAIN d.fields
    <3> DEFINE f == s.fields[i]
    <3>1. f = [id |-> d.fields[i].id, column |-> d.fields[i].column,
               column_type |-> Storage(d.fields[i].type.base),
               nullable |-> d.fields[i].type.options,
               primary_key |-> d.fields[i].given.primary_key]
      BY <2>2, Zenon
    <3> HIDE DEF f
    <3>2. /\ f.id = d.fields[i].id /\ f.column = d.fields[i].column
          /\ f.nullable = d.fields[i].type.options
          /\ f.primary_key = d.fields[i].given.primary_key
      BY <3>1, Zenon
    <3> QED
      BY <3>2, Zenon DEF f
  <2> QED
    BY <2>1, <2>3, Zenon
<1>3. /\ DOMAIN s.indexes = DOMAIN d.indexes
      /\ \A m \in DOMAIN d.indexes :
            /\ s.indexes[m].id = d.indexes[m].id /\ s.indexes[m].name = d.indexes[m].name
            /\ s.indexes[m].columns = IndexColumns(d, d.indexes[m])
  BY <1>1 DEF DerivedIndexes
<1>4. /\ ValidName(s.id) /\ ValidName(s.table) /\ ~s.table.reserved
      /\ DOMAIN s.fields # {}
  BY <1>1, <1>2, Zenon DEF DeriveAccepts
<1>5. s.version # 0
  BY <1>0, <1>1
<1>6. \A i \in DOMAIN s.fields :
          /\ ValidName(s.fields[i].id) /\ ValidName(s.fields[i].column)
          /\ s.fields[i].primary_key = 1 => s.fields[i].nullable = 0
  <2> SUFFICES ASSUME NEW i \in DOMAIN d.fields
               PROVE  /\ ValidName(s.fields[i].id) /\ ValidName(s.fields[i].column)
                      /\ s.fields[i].primary_key = 1 => s.fields[i].nullable = 0
    BY <1>2, Zenon
  <2>1. /\ ValidName(d.fields[i].id) /\ ValidName(d.fields[i].column)
        /\ d.fields[i].given.primary_key = 1 => d.fields[i].type.options = 0
    BY <1>0, Zenon DEF FieldAccepted
  <2> QED
    BY <1>2, <2>1, Zenon
<1>7. DistinctIds(s.fields) /\ DistinctColumns(s.fields)
  BY <1>0, <1>2 DEF DistinctIds, DistinctColumns
<1>8. \E i \in DOMAIN s.fields : \A j \in DOMAIN s.fields : s.fields[j].primary_key = 1 <=> i = j
  <2>1. PICK i \in DOMAIN d.fields :
            \A j \in DOMAIN d.fields : d.fields[j].given.primary_key = 1 <=> i = j
    BY <1>0, Zenon
  <2>2. i \in DOMAIN s.fields /\ \A j \in DOMAIN s.fields : s.fields[j].primary_key = 1 <=> i = j
    BY <1>2, <2>1, Zenon
  <2> QED
    BY <2>2, Zenon
<1>9. ASSUME NEW m \in DOMAIN s.indexes
      PROVE  IndexValid(s, s.indexes[m])
  <2> DEFINE x == d.indexes[m]
             y == s.indexes[m]
  <2>0. m \in DOMAIN d.indexes
    BY <1>3, <1>9, Zenon
  <2>1. IndexAccepted(d, x)
    BY <1>0, <2>0, Zenon
  <2>2. /\ y.id = x.id /\ y.name = x.name
        /\ DOMAIN y.columns = DOMAIN x.fields
        /\ \A k \in DOMAIN x.fields : y.columns[k] = d.fields[FieldNamed(d, x.fields[k])].column
    <3>1. y.id = x.id /\ y.name = x.name /\ y.columns = IndexColumns(d, x)
      BY <1>3, <2>0, Zenon
    <3> HIDE DEF x, y
    <3> QED
      BY <3>1, Zenon DEF IndexColumns
  <2>3. ASSUME NEW k \in DOMAIN x.fields
        PROVE  \E i \in DOMAIN d.fields : d.fields[i].id = x.fields[k]
                                          /\ y.columns[k] = d.fields[i].column
    <3>1. PICK i \in DOMAIN d.fields : d.fields[i].id = x.fields[k]
      BY <2>1, <2>3, Zenon DEF IndexAccepted
    <3>2. FieldNamed(d, x.fields[k]) = i
      BY <1>0, <3>1, FieldFound, Zenon
    <3> QED
      BY <2>2, <2>3, <3>1, <3>2, Zenon
  <2>4. ASSUME NEW k \in DOMAIN y.columns
        PROVE  ColumnOf(s, y.columns[k])
    <3>1. PICK i \in DOMAIN d.fields : y.columns[k] = d.fields[i].column
      BY <2>2, <2>3, Zenon
    <3>2. i \in DOMAIN s.fields /\ s.fields[i].column = d.fields[i].column
      BY <1>2, Zenon
    <3> QED
      BY <3>1, <3>2, Zenon DEF ColumnOf
  <2>5. ASSUME NEW k \in DOMAIN y.columns, NEW l \in DOMAIN y.columns,
               y.columns[k] = y.columns[l]
        PROVE  k = l
    <3>1. PICK i \in DOMAIN d.fields :
              d.fields[i].id = x.fields[k] /\ y.columns[k] = d.fields[i].column
      BY <2>2, <2>3, Zenon
    <3>2. PICK j \in DOMAIN d.fields :
              d.fields[j].id = x.fields[l] /\ y.columns[l] = d.fields[j].column
      BY <2>2, <2>3, Zenon
    <3>3. i = j
      BY <1>0, <2>5, <3>1, <3>2, Zenon DEF DistinctColumns
    <3> QED
      BY <2>1, <2>2, <3>1, <3>2, <3>3, Zenon DEF IndexAccepted
  <2> QED
    BY <2>1, <2>2, <2>4, <2>5, Zenon DEF IndexAccepted, IndexValid
<1>10. DistinctIds(s.indexes) /\ DistinctNames(s.indexes)
  BY <1>0, <1>3 DEF DistinctIds, DistinctNames
<1> QED
  BY <1>4, <1>5, <1>6, <1>7, <1>8, <1>9, <1>10, Zenon DEF validate_collection_schema

-----------------------------------------------------------------------------
(* Fields                                                                   *)

\* What a field's to_value accepts, from_value turns back into the same Rust
\* value, for every field type: no width, sign or Option is lost on the way.
THEOREM RoundTrip ==
    ASSUME NEW T \in FieldTypes, NEW x \in RustValues(T), Encodes(T, x)
    PROVE  Decodes(T, Encoded(T, x)) /\ Decoded(T, Encoded(T, x)) = x
<1>1. CASE x = None
  <2>1. T.option
    BY <1>1, NoneAssumption, CastAssumption DEF RustValues, Plains, FieldTypes
  <2> QED
    BY <1>1, <2>1, Zenon DEF Encoded, Decodes, Decoded, Null
<1>2. CASE x # None
  <2>1. x \in Plains(T)
    BY <1>2, Zenon DEF RustValues
  <2>2. COLUMN_TYPE(T) \in {"Integer", "Real", "Text", "Blob"}
    BY Zenon DEF COLUMN_TYPE, FieldTypes
  <2>3. CASE T.kind \in {"signed", "unsigned"}
    BY <1>2, <2>1, <2>2, <2>3 DEF Plains, Encoded, Decodes, DecodesPlain, Decoded, Value, FieldTypes
  <2>4. CASE T.kind = "bool"
    BY <1>2, <2>1, <2>2, <2>4 DEF Plains, Encoded, Decodes, DecodesPlain, Decoded, Value
  <2>5. CASE T.kind = "f32"
    BY <1>2, <2>1, <2>2, <2>5, CastAssumption, Zenon
    DEF Plains, Encoded, Decodes, DecodesPlain, Decoded, Value
  <2>6. CASE T.kind \in {"f64", "String", "Vec<u8>"}
    BY <1>2, <2>1, <2>2, <2>6, Zenon DEF Plains, Encoded, Decodes, DecodesPlain, Decoded, Value
  <2> QED
    BY <2>3, <2>4, <2>5, <2>6, Zenon DEF FieldTypes
<1> QED
  BY <1>1, <1>2, Zenon

\* A value of the engine that a field reads is written back unchanged by an
\* update of the whole record, unless the field is an f32 (which rounds); so
\* reading a record and updating it does not disturb its other fields.
THEOREM WriteBack ==
    ASSUME NEW T \in FieldTypes, T.kind # "f32",
           NEW value, Decodes(T, value),
           \/ value = Null
           \/ \E i \in IntegerMin .. IntegerMax : value = Value("Integer", i)
           \/ \E d \in Doubles : value = Value("Real", d)
           \/ \E s \in Texts : value = Value("Text", s)
           \/ \E b \in Blobs : value = Value("Blob", b)
    PROVE  Encodes(T, Decoded(T, value)) /\ Encoded(T, Decoded(T, value)) = value
<1>1. CASE value = Null
  <2>1. T.option
    BY <1>1, Zenon DEF Decodes, DecodesPlain, COLUMN_TYPE, FieldTypes, Null
  <2> QED
    BY <1>1, <2>1, Zenon DEF Decoded, Encoded, Encodes, Null
<1>2. ASSUME NEW i \in IntegerMin .. IntegerMax, value = Value("Integer", i)
      PROVE  Encodes(T, Decoded(T, value)) /\ Encoded(T, Decoded(T, value)) = value
  <2>1. COLUMN_TYPE(T) = "Integer" /\ T.kind \in {"signed", "unsigned", "bool"}
    BY <1>2, Zenon DEF Decodes, DecodesPlain, COLUMN_TYPE, FieldTypes, Value
  <2>2. i \in Int /\ i <= IntegerMax /\ i # None
    BY <1>2, RangeAssumption, NoneAssumption
  <2>3. CASE T.kind = "bool"
    <3>1. i \in {0, 1}
      BY <1>2, <2>3, Zenon DEF Decodes, DecodesPlain, Value
    <3>2. TRUE # None /\ FALSE # None
      BY NoneAssumption, Zenon
    <3>3. Decoded(T, value) = (i = 1)
      BY <1>2, <2>3, Zenon DEF Decoded, Value
    <3>4. CASE i = 1
      <4>1. Decoded(T, value) = TRUE
        BY <3>3, <3>4, Zenon
      <4> QED
        BY <1>2, <2>1, <2>3, <3>2, <3>4, <4>1, Zenon DEF Encoded, Encodes, Value
    <3>5. CASE i = 0
      <4>1. (i = 1) = FALSE
        <5>1. i # 1
          BY <3>5
        <5> QED
          BY <5>1, Zenon
      <4>2. Decoded(T, value) = FALSE
        BY <3>3, <4>1, Zenon
      <4> QED
        BY <1>2, <2>1, <2>3, <3>2, <3>5, <4>2, Zenon DEF Encoded, Encodes, Value
    <3> QED
      BY <3>1, <3>4, <3>5, Zenon
  <2>4. CASE T.kind # "bool"
    BY <1>2, <2>1, <2>2, <2>4, Zenon DEF Decoded, Encoded, Encodes, Value
  <2> QED
    BY <2>3, <2>4, Zenon
<1>3. ASSUME NEW d \in Doubles \union Texts \union Blobs, NEW class \in {"Real", "Text", "Blob"},
             value = Value(class, d)
      PROVE  Encodes(T, Decoded(T, value)) /\ Encoded(T, Decoded(T, value)) = value
  <2>1. COLUMN_TYPE(T) = class /\ T.kind \in {"f64", "String", "Vec<u8>"}
    BY <1>3, Zenon DEF Decodes, DecodesPlain, COLUMN_TYPE, FieldTypes, Value
  <2>2. d # None
    BY NoneAssumption, Zenon
  <2> QED
    BY <1>3, <2>1, <2>2, Zenon DEF Decoded, Encoded, Encodes, Value
<1> QED
  BY <1>1, <1>2, <1>3, Zenon

-----------------------------------------------------------------------------
(* Records                                                                  *)

\* derive marks one field as the primary key, and KeyIndex is its position.
LEMMA KeyIs ==
    /\ KeyIndex \in 1 .. Len(Fields)
    /\ Fields[KeyIndex].primary_key
    /\ KeyType \in FieldTypes /\ ~KeyType.option
<1> DEFINE K == {i \in DOMAIN Fields : Fields[i].primary_key}
<1>1. K # {}
  <2>1. Cardinality(K) = 1
    BY FieldsAssumption, Zenon
  <2> HIDE DEF K
  <2> QED
    BY <2>1, FS_EmptySet
<1>2. KeyIndex \in DOMAIN Fields /\ Fields[KeyIndex].primary_key
  BY <1>1, Zenon DEF KeyIndex
<1> QED
  BY <1>2, FieldsAssumption, Zenon DEF KeyType

\* update_sql numbers the parameters of the columns before the key from one, and
\* the columns behind it are one lower than their position.
LEMMA ParameterIs ==
    ASSUME NEW i \in 1 .. Len(Fields), i # KeyIndex
    PROVE  Parameter(i) = IF i < KeyIndex THEN i ELSE i - 1
<1>1. KeyIndex \in Int /\ 1 <= KeyIndex /\ Len(Fields) \in Nat
  BY KeyIs, FieldsAssumption
<1>2. IsFiniteSet(1 .. i) /\ Cardinality(1 .. i) = i
  BY FS_Interval
<1>3. CASE i < KeyIndex
  <2>1. {j \in 1 .. i : j # KeyIndex} = 1 .. i
    BY <1>1, <1>3
  <2>2. Parameter(i) = i
    BY <1>2, <2>1, Zenon DEF Parameter
  <2> QED
    BY <1>3, <2>2, Zenon
<1>4. CASE i > KeyIndex
  <2>1. {j \in 1 .. i : j # KeyIndex} = (1 .. i) \ {KeyIndex}
    BY Zenon
  <2>2. KeyIndex \in 1 .. i
    BY <1>1, <1>4
  <2>3. Cardinality((1 .. i) \ {KeyIndex}) = i - 1
    BY <1>2, <2>2, FS_RemoveElement, Zenon
  <2>4. Parameter(i) = i - 1
    BY <2>1, <2>3, Zenon DEF Parameter
  <2> QED
    BY <1>1, <1>4, <2>4
<1> QED
  BY <1>1, <1>3, <1>4

\* The list update_values binds: the columns in field order without the key,
\* then the key.
LEMMA UpdateValuesAre ==
    ASSUME NEW r
    PROVE  LET p == update_values(r) IN
           /\ DOMAIN p = 1 .. Len(Fields) /\ Len(p) = Len(Fields)
           /\ \A i \in 1 .. Len(Fields) : i < KeyIndex => p[i] = values(r)[i]
           /\ \A i \in 1 .. Len(Fields) : i > KeyIndex => p[i - 1] = values(r)[i]
           /\ p[Len(Fields)] = values(r)[KeyIndex]
<1> DEFINE n == Len(Fields)
           v == values(r)
           S == {v[i] : i \in 1 .. n}
           a == SubSeq(v, 1, KeyIndex - 1)
           b == SubSeq(v, KeyIndex + 1, n)
<1>1. n \in Nat /\ KeyIndex \in 1 .. n /\ DOMAIN Fields = 1 .. n
  BY KeyIs, FieldsAssumption, Zenon
<1>2. DOMAIN v = 1 .. n
  BY <1>1, Zenon DEF values
<1>3. v \in [1 .. n -> S]
  <2>1. v = [i \in 1 .. n |-> v[i]]
    BY <1>1, Zenon DEF values
  <2> HIDE DEF v
  <2> QED
    BY <2>1, Zenon
<1>4. v \in Seq(S) /\ Len(v) = n
  <2> HIDE DEF v, S, n
  <2> QED
    BY <1>1, <1>3
<1>5. update_values(r) = Append(a \o b, v[KeyIndex])
  BY <1>4, Zenon DEF update_values
<1> HIDE DEF v, S, n
<1>6. /\ a \in Seq(S) /\ Len(a) = KeyIndex - 1
      /\ \A i \in 1 .. KeyIndex - 1 : a[i] = v[i]
  BY <1>1, <1>4
<1>7. /\ b \in Seq(S) /\ Len(b) = n - KeyIndex
      /\ \A i \in 1 .. n - KeyIndex : b[i] = v[KeyIndex + i]
  BY <1>1, <1>4
<1> HIDE DEF a, b
<1> DEFINE c == a \o b
<1>8. /\ c \in Seq(S) /\ Len(c) = n - 1
      /\ \A i \in 1 .. KeyIndex - 1 : c[i] = a[i]
      /\ \A i \in 1 .. n - KeyIndex : c[KeyIndex - 1 + i] = b[i]
  <2>1. /\ c \in Seq(S) /\ Len(c) = Len(a) + Len(b)
        /\ \A i \in 1 .. Len(a) : c[i] = a[i]
        /\ \A i \in 1 .. Len(b) : c[Len(a) + i] = b[i]
    BY <1>6, <1>7, SMTT(20)
  <2> QED
    BY <1>1, <1>6, <1>7, <2>1, SMTT(20)
<1>9. v[KeyIndex] \in S
  BY <1>1, Zenon DEF S
<1> HIDE DEF c
<1> DEFINE p == Append(c, v[KeyIndex])
<1>10. /\ p \in Seq(S) /\ Len(p) = n /\ DOMAIN p = 1 .. n
       /\ \A i \in 1 .. n - 1 : p[i] = c[i]
       /\ p[n] = v[KeyIndex]
  BY <1>1, <1>8, <1>9
<1> HIDE DEF p
<1>11. \A i \in 1 .. n : i < KeyIndex => p[i] = v[i]
  BY <1>1, <1>6, <1>8, <1>10, SMTT(20)
<1>12. ASSUME NEW i \in 1 .. n, i > KeyIndex
       PROVE  p[i - 1] = v[i]
  <2> DEFINE j == i - KeyIndex
  <2>1. j \in 1 .. n - KeyIndex /\ KeyIndex - 1 + j = i - 1 /\ KeyIndex + j = i
    BY <1>1, <1>12
  <2>2. i - 1 \in 1 .. n - 1
    BY <1>1, <1>12
  <2>3. c[i - 1] = b[j] /\ b[j] = v[i]
    BY <1>7, <1>8, <2>1, Zenon
  <2> QED
    BY <1>10, <2>2, <2>3, Zenon
<1>13. update_values(r) = p
  BY <1>5, Zenon DEF p, c
<1> QED
  BY <1>10, <1>11, <1>12, <1>13, Zenon DEF n, v

\* Row(r): what the engine keeps when all columns of r are bound.
Row(r) == Bound(values(r))

\* A row, column by column.
LEMMA RowIs ==
    ASSUME NEW r
    PROVE  /\ Row(r) = [i \in 1 .. Len(Fields) |-> Stored(Encoded(Fields[i].type, r[i]))]
           /\ DOMAIN Row(r) = 1 .. Len(Fields)
           /\ \A i \in 1 .. Len(Fields) : Row(r)[i] = Stored(values(r)[i])
BY FieldsAssumption, Zenon DEF Row, Bound, values

\* CollectionCrud::update assigns every column its own value, wherever the key
\* stands among the fields: update_sql, which numbers the parameters, and
\* update_values, which lists them, agree.  They are in different crates.
THEOREM UpdateBindsColumns ==
    ASSUME NEW r, NEW row, NEW p, p = Bound(update_values(r)),
           row[KeyIndex] = p[Len(p)]
    PROVE  p[Len(p)] = Row(r)[KeyIndex] /\ Assigned(row, p) = Row(r)
<1> DEFINE n == Len(Fields)
           u == update_values(r)
<1>1. n \in Nat /\ KeyIndex \in 1 .. n /\ DOMAIN Fields = 1 .. n
  BY KeyIs, FieldsAssumption, Zenon
<1>2. /\ DOMAIN u = 1 .. n /\ Len(u) = n
      /\ \A i \in 1 .. n : i < KeyIndex => u[i] = values(r)[i]
      /\ \A i \in 1 .. n : i > KeyIndex => u[i - 1] = values(r)[i]
      /\ u[n] = values(r)[KeyIndex]
  BY UpdateValuesAre, Zenon
<1> HIDE DEF u
<1>3. DOMAIN p = 1 .. n /\ \A i \in 1 .. n : p[i] = Stored(u[i])
  BY <1>2, Zenon DEF Bound, u
<1>4. Len(p) = n
  <2> DEFINE S == {p[i] : i \in 1 .. n}
  <2>1. p = [i \in 1 .. n |-> p[i]]
    BY <1>2, Zenon DEF Bound, u
  <2> HIDE DEF n
  <2>2. p \in [1 .. n -> S]
    BY <2>1, Zenon
  <2> HIDE DEF S
  <2> QED
    BY <1>1, <2>2
<1>5. p[Len(p)] = p[n]
  BY <1>4, Zenon
<1>6. p[Len(p)] = Row(r)[KeyIndex]
  BY <1>1, <1>2, <1>3, <1>5, RowIs
<1>7. ASSUME NEW i \in 1 .. n
      PROVE  (IF i = KeyIndex THEN row[i] ELSE p[Parameter(i)]) = Row(r)[i]
  <2>1. CASE i = KeyIndex
    BY <1>6, <2>1, Zenon
  <2>2. CASE i < KeyIndex
    <3>1. Parameter(i) = i
      BY <1>1, <2>2, ParameterIs
    <3>2. u[i] = values(r)[i]
      BY <1>2, <2>2, Zenon
    <3>3. Row(r)[i] = Stored(values(r)[i])
      BY RowIs, Zenon
    <3>4. p[i] = Row(r)[i]
      BY <1>3, <1>7, <3>2, <3>3, Zenon
    <3> QED
      BY <1>1, <2>2, <3>1, <3>4
  <2>3. CASE i > KeyIndex
    <3>1. Parameter(i) = i - 1
      BY <1>1, <2>3, ParameterIs
    <3>2. u[i - 1] = values(r)[i] /\ i - 1 \in 1 .. n
      BY <1>1, <1>2, <2>3
    <3>3. Row(r)[i] = Stored(values(r)[i])
      BY RowIs, Zenon
    <3>4. p[i - 1] = Row(r)[i]
      BY <1>3, <1>7, <3>2, <3>3, Zenon
    <3> QED
      BY <1>1, <2>3, <3>1, <3>4
  <2> QED
    BY <1>1, <2>1, <2>2, <2>3
<1>8. Assigned(row, p) = [i \in 1 .. n |-> Row(r)[i]]
  <2>1. Assigned(row, p) =
           [i \in 1 .. n |-> IF i = KeyIndex THEN row[i] ELSE p[Parameter(i)]]
    BY <1>1, Zenon DEF Assigned
  <2> QED
    BY <1>7, <2>1, Zenon
<1>9. Row(r) = [i \in 1 .. n |-> Row(r)[i]]
  BY RowIs, Zenon
<1> QED
  BY <1>6, <1>8, <1>9, Zenon

\* The row of a record that the table admits decodes, and into that record,
\* its NaNs apart.
LEMMA RowReads ==
    ASSUME NEW r \in Records, RecordEncodes(r), RowAllowed(Row(r))
    PROVE  RowDecodes(Row(r)) /\ from_row(Row(r)) = Kept(r)
<1> DEFINE n == Len(Fields)
<1>1. DOMAIN Fields = 1 .. n
  BY FieldsAssumption, Zenon
<1>2. ASSUME NEW i \in 1 .. n
      PROVE  /\ Decodes(Fields[i].type, Row(r)[i])
             /\ Decoded(Fields[i].type, Row(r)[i]) = Kept(r)[i]
  <2>1. PICK T \in FieldTypes : T = Fields[i].type
    BY <1>1, FieldsAssumption, Zenon
  <2>2. PICK x \in RustValues(T) : x = r[i]
    BY <1>1, <2>1, RecordsAssumption, Zenon
  <2>3. Encodes(T, x)
    BY <1>1, <2>1, <2>2, Zenon DEF RecordEncodes
  <2>4. Row(r)[i] = Stored(Encoded(T, x))
    BY <2>1, <2>2, RowIs, Zenon
  <2>5. Kept(r)[i] = IF T.kind \in {"f64", "f32"} /\ x \in Nans THEN None ELSE x
    BY <1>1, <2>1, <2>2, Zenon DEF Kept
  <2>6. CASE T.kind \in {"f64", "f32"} /\ x \in Nans
    <3>1. x # None
      BY <2>6, NoneAssumption, CastAssumption, Zenon
    <3>2. Encoded(T, x) = Value("Real", x)
      BY <2>6, <3>1, Zenon DEF Encoded, COLUMN_TYPE
    <3>3. Row(r)[i] = Null
      BY <2>4, <2>6, <3>2 DEF Stored, Value
    <3>4. T.option
      BY <1>1, <2>1, <3>3, Zenon DEF RowAllowed, Nullable
    <3> QED
      BY <2>1, <2>5, <2>6, <3>3, <3>4 DEF Decodes, Decoded, Null
  <2>7. CASE ~(T.kind \in {"f64", "f32"} /\ x \in Nans)
    <3>1. Encoded(T, x).class = "Real" => T.kind \in {"f64", "f32"} /\ Encoded(T, x).v = x
      BY Zenon DEF Encoded, Null, Value, COLUMN_TYPE, FieldTypes
    <3>2. Row(r)[i] = Encoded(T, x)
      BY <2>4, <2>7, <3>1, Zenon DEF Stored
    <3>3. Decodes(T, Encoded(T, x)) /\ Decoded(T, Encoded(T, x)) = x
      BY <2>3, RoundTrip, Zenon
    <3> QED
      BY <2>1, <2>5, <2>7, <3>2, <3>3, Zenon
  <2> QED
    BY <2>6, <2>7, Zenon
<1>3. RowDecodes(Row(r))
  BY <1>1, <1>2, Zenon DEF RowDecodes
<1>4. from_row(Row(r)) = [i \in 1 .. n |-> Kept(r)[i]]
  <2>1. from_row(Row(r)) = [i \in 1 .. n |-> Decoded(Fields[i].type, Row(r)[i])]
    BY <1>1, Zenon DEF from_row
  <2> QED
    BY <1>2, <2>1, Zenon
<1>5. Kept(r) = [i \in 1 .. n |-> Kept(r)[i]]
  BY <1>1, Zenon DEF Kept
<1> QED
  BY <1>3, <1>4, <1>5, Zenon

\* One row per key, as the primary key of the table requires.
KeysUnique == \A a, b \in table : a[KeyIndex] = b[KeyIndex] => a = b

\* Among the rows is that of record r, which is what the history says of key.
Written(rows, key, r) ==
    /\ r \in Records /\ RecordEncodes(r) /\ RowAllowed(Row(r))
    /\ Row(r)[KeyIndex] = key /\ Row(r) \in rows

HistoryTrue == \A key \in DOMAIN wrote : Written(table, key, wrote[key])

\* The inductive invariant: ReadsBack speaks of the answer only; that an answer
\* is right depends on the row that every call since the write has left alone.
IInv == KeysUnique /\ HistoryTrue /\ ReadsBack

\* A record in the history is the one row of its key.
LEMMA OneRow ==
    ASSUME KeysUnique, NEW key, NEW r, Written(table, key, r)
    PROVE  RowsWithKey(key) = {Row(r)}
BY Zenon DEF KeysUnique, Written, RowsWithKey

\* A call that removes the rows of a key, adds at most a row of that key and
\* records or forgets what the key holds keeps the invariant; the rows of other
\* keys are not in its way.
LEMMA Rewrite ==
    ASSUME KeysUnique, HistoryTrue, NEW key, NEW new,
           table' = (table \ RowsWithKey(key)) \union new,
           \A a, b \in new : a = b,
           \A a \in new : a[KeyIndex] = key,
           DOMAIN wrote' \subseteq DOMAIN wrote \union {key},
           \A k \in DOMAIN wrote' : k # key => wrote'[k] = wrote[k],
           key \in DOMAIN wrote' => Written(table', key, wrote'[key]),
           answer'.kind # "get"
    PROVE  IInv'
<1>1. KeysUnique'
  BY Zenon DEF KeysUnique, RowsWithKey
<1>2. ASSUME NEW k \in DOMAIN wrote', k # key
      PROVE  Written(table', k, wrote'[k])
  <2>1. wrote'[k] = wrote[k] /\ k \in DOMAIN wrote
    BY <1>2, Zenon
  <2>2. Written(table, k, wrote[k])
    BY <2>1, Zenon DEF HistoryTrue
  <2>3. Row(wrote[k]) \in table'
    BY <1>2, <2>2, Zenon DEF Written, RowsWithKey
  <2> QED
    BY <2>1, <2>2, <2>3, Zenon DEF Written
<1>3. HistoryTrue'
  BY <1>2, Zenon DEF HistoryTrue
<1>4. ReadsBack'
  BY Zenon DEF ReadsBack
<1> QED
  BY <1>1, <1>3, <1>4, Zenon DEF IInv

\* A call that changes neither rows nor history and returns no record.
LEMMA NoEffect ==
    ASSUME IInv, UNCHANGED <<table, wrote>>, answer'.kind # "get"
    PROVE  IInv'
<1>1. KeysUnique' /\ HistoryTrue'
  BY Zenon DEF IInv, KeysUnique, HistoryTrue, Written
<1>2. ReadsBack'
  BY Zenon DEF ReadsBack
<1> QED
  BY <1>1, <1>2, Zenon DEF IInv

\* insert
LEMMA InsertStep ==
    ASSUME IInv, NEW r \in Records, Insert(r)
    PROVE  IInv'
<1> DEFINE key == Row(r)[KeyIndex]
<1>0. answer'.kind # "get"
  BY Zenon DEF Insert, NoAnswer
<1>1. CASE RecordEncodes(r) /\ RowAllowed(Row(r)) /\ RowsWithKey(key) = {}
  <2>1. table' = table \union {Row(r)} /\ wrote' = Wrote(key, r)
    BY <1>1, Zenon DEF Insert, Row
  <2> DEFINE new == {Row(r)}
  <2>2. table' = (table \ RowsWithKey(key)) \union new
    BY <1>1, <2>1, Zenon
  <2>3. /\ DOMAIN wrote' = DOMAIN wrote \union {key} /\ wrote'[key] = r
        /\ \A k \in DOMAIN wrote' : k # key => wrote'[k] = wrote[k]
    BY <2>1, Zenon DEF Wrote
  <2>4. Written(table', key, wrote'[key])
    BY <1>1, <2>1, <2>3, Zenon DEF Written
  <2>5. (\A a, b \in new : a = b) /\ (\A a \in new : a[KeyIndex] = key)
    BY Zenon
  <2>6. DOMAIN wrote' \subseteq DOMAIN wrote \union {key}
    BY <2>3, Zenon
  <2> HIDE DEF key, new
  <2> QED
    BY <1>0, <2>2, <2>3, <2>4, <2>5, <2>6, Rewrite, Zenon DEF IInv
<1>2. CASE ~(RecordEncodes(r) /\ RowAllowed(Row(r)) /\ RowsWithKey(key) = {})
  <2>1. UNCHANGED <<table, wrote>>
    BY <1>2, Zenon DEF Insert, Row
  <2> QED
    BY <1>0, <2>1, NoEffect, Zenon
<1> QED
  BY <1>1, <1>2, Zenon

\* update
LEMMA UpdateStep ==
    ASSUME IInv, NEW r \in Records, Update(r)
    PROVE  IInv'
<1> DEFINE p == Bound(update_values(r))
           key == p[Len(p)]
           old == RowsWithKey(key)
           new == {Assigned(row, p) : row \in old}
<1>0. answer'.kind # "get"
  BY Zenon DEF Update, NoAnswer
<1>1. \A row \in old : Assigned(row, p) = Row(r) /\ key = Row(r)[KeyIndex]
  BY UpdateBindsColumns, Zenon DEF RowsWithKey
<1>own. key = Row(r)[KeyIndex]
  <2> DEFINE row == [i \in {KeyIndex} |-> key]
  <2>1. row[KeyIndex] = key
    BY Zenon
  <2> HIDE DEF row
  <2> QED
    BY <2>1, UpdateBindsColumns, Zenon
<1>2. CASE RecordEncodes(r) /\ \A row \in new : RowAllowed(row)
  <2>1. /\ table' = (table \ old) \union new
        /\ wrote' = IF old = {} THEN wrote ELSE Wrote(key, r)
    <3>1. /\ table' = (table \ old) \union new
          /\ wrote' = IF RowsWithKey(Row(r)[KeyIndex]) = {} THEN wrote
                      ELSE Wrote(Row(r)[KeyIndex], r)
      BY <1>2, Zenon DEF Update, Row
    <3> QED
      BY <1>own, <3>1, Zenon
  <2> HIDE DEF key, p
  <2>2. \A a \in new : a = Row(r) /\ a[KeyIndex] = key
    BY <1>1, Zenon
  <2>3. CASE old = {}
    <3>1. wrote' = wrote /\ key \notin DOMAIN wrote
      <4>1. \A k \in DOMAIN wrote : Row(wrote[k]) \in RowsWithKey(k)
        BY Zenon DEF IInv, HistoryTrue, Written, RowsWithKey
      <4> QED
        BY <2>1, <2>3, <4>1, Zenon
    <3> QED
      BY <1>0, <2>1, <2>2, <3>1, Rewrite, Zenon DEF IInv
  <2>4. CASE old # {}
    <3>1. /\ DOMAIN wrote' = DOMAIN wrote \union {key} /\ wrote'[key] = r
          /\ \A k \in DOMAIN wrote' : k # key => wrote'[k] = wrote[k]
      BY <2>1, <2>4, Zenon DEF Wrote
    <3>2. Row(r) \in new /\ key = Row(r)[KeyIndex]
      BY <1>1, <2>4, Zenon
    <3>3. Written(table', key, wrote'[key])
      BY <1>2, <2>1, <3>1, <3>2, Zenon DEF Written
    <3> QED
      BY <1>0, <2>1, <2>2, <3>1, <3>3, Rewrite, Zenon DEF IInv
  <2> QED
    BY <2>3, <2>4, Zenon
<1>3. CASE ~(RecordEncodes(r) /\ \A row \in new : RowAllowed(row))
  <2>1. UNCHANGED <<table, wrote>>
    BY <1>3, Zenon DEF Update
  <2> QED
    BY <1>0, <2>1, NoEffect, Zenon
<1> QED
  BY <1>2, <1>3, Zenon

\* delete
LEMMA DeleteStep ==
    ASSUME IInv, NEW k, Delete(k)
    PROVE  IInv'
<1> DEFINE key == Stored(Encoded(KeyType, k))
<1>0. answer'.kind # "get"
  BY Zenon DEF Delete, NoAnswer
<1>1. CASE Encodes(KeyType, k)
  <2>1. table' = table \ RowsWithKey(key) /\ wrote' = Forget(key)
    BY <1>1, Zenon DEF Delete
  <2> HIDE DEF key
  <2> DEFINE new == {}
  <2>2. /\ table' = (table \ RowsWithKey(key)) \union new
        /\ (\A a, b \in new : a = b) /\ (\A a \in new : a[KeyIndex] = key)
    BY <2>1, Zenon
  <2> HIDE DEF new
  <2>3. /\ DOMAIN wrote' \subseteq DOMAIN wrote \union {key} /\ key \notin DOMAIN wrote'
        /\ \A j \in DOMAIN wrote' : wrote'[j] = wrote[j]
    BY <2>1, Zenon DEF Forget
  <2> QED
    BY <1>0, <2>2, <2>3, Rewrite, Zenon DEF IInv
<1>2. CASE ~Encodes(KeyType, k)
  <2>1. UNCHANGED <<table, wrote>>
    BY <1>2, Zenon DEF Delete
  <2> QED
    BY <1>0, <2>1, NoEffect, Zenon
<1> QED
  BY <1>1, <1>2, Zenon

\* get
LEMMA GetStep ==
    ASSUME IInv, NEW k, Get(k)
    PROVE  IInv'
<1> DEFINE key == Stored(Encoded(KeyType, k))
           rows == RowsWithKey(key)
<1>1. UNCHANGED <<table, wrote>>
  BY Zenon DEF Get
<1>2. KeysUnique' /\ HistoryTrue'
  BY <1>1, Zenon DEF IInv, KeysUnique, HistoryTrue, Written
<1>3. /\ answer'.key = k
      /\ answer'.ok = \A row \in rows : RowDecodes(row)
      /\ answer'.records = {from_row(row) : row \in rows}
  BY Zenon DEF Get
<1>4. ASSUME key \in DOMAIN wrote
      PROVE  answer'.ok /\ answer'.records = {Kept(wrote[key])}
  <2>1. Written(table, key, wrote[key])
    BY <1>4, Zenon DEF IInv, HistoryTrue
  <2>2. rows = {Row(wrote[key])}
    BY <2>1, OneRow, Zenon DEF IInv
  <2>3. RowDecodes(Row(wrote[key])) /\ from_row(Row(wrote[key])) = Kept(wrote[key])
    BY <2>1, RowReads, Zenon DEF Written
  <2> HIDE DEF key, rows
  <2> QED
    BY <1>3, <2>2, <2>3, Zenon
<1>5. ReadsBack'
  BY <1>1, <1>3, <1>4, Zenon DEF ReadsBack
<1> QED
  BY <1>2, <1>5, Zenon DEF IInv

\* SQL of the application
LEMMA RawStep ==
    ASSUME IInv, NEW row, RawReplace(row)
    PROVE  IInv'
<1> DEFINE key == row[KeyIndex]
           new == {row}
<1>0. answer'.kind # "get"
  BY Zenon DEF RawReplace, NoAnswer
<1>1. table' = (table \ RowsWithKey(key)) \union new /\ wrote' = Forget(key)
  BY Zenon DEF RawReplace
<1>2. /\ DOMAIN wrote' \subseteq DOMAIN wrote \union {key} /\ key \notin DOMAIN wrote'
      /\ \A j \in DOMAIN wrote' : wrote'[j] = wrote[j]
  BY <1>1, Zenon DEF Forget
<1>3. (\A a, b \in new : a = b) /\ (\A a \in new : a[KeyIndex] = key)
  BY Zenon
<1> HIDE DEF key, new
<1> QED
  BY <1>0, <1>1, <1>2, <1>3, Rewrite, Zenon DEF IInv

\* The invariant holds at the start.
LEMMA RecordStart == RecordInit => IInv
BY Zenon DEF RecordInit, IInv, KeysUnique, HistoryTrue, ReadsBack, NoAnswer

\* The invariant is kept by every step.
LEMMA RecordStep == IInv /\ [RecordNext \/ QueryStep]_recordVars => IInv'
<1> SUFFICES ASSUME IInv, [RecordNext \/ QueryStep]_recordVars
             PROVE  IInv'
  BY Zenon
<1>1. CASE RecordNext
  BY <1>1, InsertStep, UpdateStep, DeleteStep, GetStep, RawStep, Zenon DEF RecordNext
<1>2. CASE QueryStep
  BY <1>2, NoEffect, Zenon DEF QueryStep
<1>3. CASE UNCHANGED recordVars
  BY <1>3, Zenon DEF recordVars, IInv, KeysUnique, HistoryTrue, Written, ReadsBack
<1> QED
  BY <1>1, <1>2, <1>3, Zenon

\* The typed calls of CollectionCrud on one table, beside SQL of the application
\* and queries: what insert or update was given is what get returns (a NaN as
\* None), for every schema the macro accepts and every record of its types.
THEOREM RecordsReadBack == RecordSpec => []ReadsBack
<1>1. IInv => ReadsBack
  BY Zenon DEF IInv
<1> QED
  BY <1>1, RecordStart, RecordStep, PTL DEF RecordSpec


-----------------------------------------------------------------------------
(* Predicate trees                                                         *)

\* A set of numbers that is not empty has a least element.
LEMMA LeastNumber ==
    ASSUME NEW S, S \subseteq Nat, S # {}
    PROVE  \E n \in S : \A m \in S : n <= m
<1> DEFINE R == OpToRel(<, Nat)
<1>1. IsWellFoundedOn(R, Nat)
  BY NatLessThanWellFounded, Zenon
<1>2. \A x, y \in Nat : x < y => <<x, y>> \in R
  BY Zenon DEF OpToRel
<1> HIDE DEF R
<1>3. PICK n \in S : \A m \in S : ~(<<m, n>> \in R)
  BY <1>1, WFMin, Zenon
<1>4. ASSUME NEW m \in S
      PROVE  n <= m
  <2>1. m \in Nat /\ n \in Nat /\ ~(<<m, n>> \in R)
    BY <1>3, Zenon
  <2>2. ~(m < n)
    BY <1>2, <2>1, Zenon
  <2> QED
    BY <2>1, <2>2
<1> QED
  BY <1>4, Zenon

\* Induction on predicate trees: what holds of a tree whenever it holds of its
\* operands holds of every tree.
LEMMA TreeInduction ==
    ASSUME NEW S, \A p \in Predicates : (\A q \in Operands(p) : q \in S) => p \in S
    PROVE  \A p \in Predicates : p \in S
<1> SUFFICES ASSUME NEW x \in Predicates, x \notin S
             PROVE  FALSE
  BY Zenon
<1> DEFINE H == {Height[p] : p \in {q \in Predicates : q \notin S}}
<1>1. H \subseteq Nat /\ H # {}
  BY PredicatesAssumption
<1>2. PICK n \in H : \A m \in H : n <= m
  BY <1>1, LeastNumber, Zenon
<1>3. PICK p \in Predicates : p \notin S /\ Height[p] = n
  BY <1>2, Zenon
<1>4. \A q \in Operands(p) : q \in Predicates /\ Height[q] < Height[p] /\ Height[q] \in Nat /\ Height[p] \in Nat
  BY <1>3, PredicatesAssumption, Zenon
<1>5. \A q \in Operands(p) : q \in S
  <2> SUFFICES ASSUME NEW q \in Operands(p), q \notin S
               PROVE  FALSE
    BY Zenon
  <2>1. Height[q] \in H
    BY <1>4, Zenon
  <2> QED
    BY <1>2, <1>3, <1>4, <2>1
<1> QED
  BY <1>3, <1>5, Zenon

\* C gives every tree a result in R from the results of its operands; f does
\* what C says.
StepsIn(C, R) == \A p \in Predicates : \A a \in [Operands(p) -> R] : C[p][a] \in R
Follows(f, C) == \A p \in Predicates : f[p] = C[p][[q \in Operands(p) |-> f[q]]]

\* Recursion on predicate trees: there is a function that gives every tree what
\* C makes of the results for its operands.  Its graph is the least relation
\* that is closed under C.
LEMMA TreeRecursion ==
    ASSUME NEW R, NEW C, StepsIn(C, R)
    PROVE  \E f \in [Predicates -> R] : Follows(f, C)
<1> USE DEF StepsIn, Follows
<1> DEFINE Closed(X) == \A p \in Predicates : \A a \in [Operands(p) -> R] :
                           (\A q \in Operands(p) : <<q, a[q]>> \in X) => <<p, C[p][a]>> \in X
           G == {z \in Predicates \X R : \A X \in SUBSET (Predicates \X R) : Closed(X) => z \in X}
           Only(p) == \E r \in R : <<p, r>> \in G /\ \A t \in R : <<p, t>> \in G => t = r
<1>1. \A p \in Predicates : \A q \in Operands(p) : q \in Predicates
  BY PredicatesAssumption, Zenon
<1>2. G \in SUBSET (Predicates \X R) /\ \A X \in SUBSET (Predicates \X R) : Closed(X) => G \subseteq X
  BY Zenon
<1>3. Closed(G)
  <2> SUFFICES ASSUME NEW p \in Predicates, NEW a \in [Operands(p) -> R],
                      \A q \in Operands(p) : <<q, a[q]>> \in G,
                      NEW X \in SUBSET (Predicates \X R), Closed(X)
               PROVE  <<p, C[p][a]>> \in X
    <3>1. \A p \in Predicates : \A a \in [Operands(p) -> R] : <<p, C[p][a]>> \in Predicates \X R
      BY Zenon
    <3> QED
      BY <3>1, Zenon
  <2> HIDE DEF G
  <2>1. \A q \in Operands(p) : <<q, a[q]>> \in X
    BY <1>2, Zenon
  <2> QED
    BY <2>1, Zenon
<1> HIDE DEF G
<1>4. \A p \in Predicates : Only(p)
  <2> DEFINE S == {p \in Predicates : Only(p)}
  <2>1. ASSUME NEW p \in Predicates, \A q \in Operands(p) : q \in S
        PROVE  p \in S
    <3> DEFINE a == [q \in Operands(p) |-> CHOOSE r \in R : <<q, r>> \in G]
    <3>1. \A q \in Operands(p) : /\ a[q] \in R /\ <<q, a[q]>> \in G
                                 /\ \A t \in R : <<q, t>> \in G => t = a[q]
      BY <2>1, Zenon
    <3>2. a \in [Operands(p) -> R]
      BY <3>1, Zenon
    <3> HIDE DEF a
    <3>3. C[p][a] \in R /\ <<p, C[p][a]>> \in G
      BY <1>3, <3>1, <3>2, Zenon
    <3>4. ASSUME NEW t \in R, <<p, t>> \in G, t # C[p][a]
          PROVE  FALSE
      <4> DEFINE X == G \ {<<p, t>>}
      <4>1. ASSUME NEW u \in Predicates, NEW b \in [Operands(u) -> R],
                   \A q \in Operands(u) : <<q, b[q]>> \in X
            PROVE  <<u, C[u][b]>> \in X
        <5>1. <<u, C[u][b]>> \in G
          BY <1>3, <4>1, Zenon
        <5>2. ASSUME u = p
              PROVE  b = a
          <6>1. \A q \in Operands(p) : b[q] = a[q]
            BY <3>1, <4>1, <5>2, Zenon
          <6> QED
            BY <3>2, <5>2, <6>1
        <5>3. <<u, C[u][b]>> # <<p, t>>
          BY <3>4, <5>2, Zenon
        <5> QED
          BY <5>1, <5>3, Zenon
      <4>2. Closed(X) /\ X \in SUBSET (Predicates \X R) /\ <<p, t>> \notin X
        BY <1>2, <4>1, Zenon
      <4> QED
        BY <1>2, <3>4, <4>2, Zenon
    <3> QED
      BY <3>3, <3>4, Zenon
  <2> HIDE DEF S
  <2>2. \A p \in Predicates : p \in S
    BY <2>1, TreeInduction, Zenon
  <2> QED
    BY <2>2, Zenon DEF S
<1> DEFINE f == [p \in Predicates |-> CHOOSE r \in R : <<p, r>> \in G]
<1>5. \A p \in Predicates : /\ f[p] \in R /\ <<p, f[p]>> \in G
                            /\ \A t \in R : <<p, t>> \in G => t = f[p]
  BY <1>4, Zenon
<1>6. f \in [Predicates -> R]
  BY <1>5, Zenon
<1> HIDE DEF f
<1>7. ASSUME NEW p \in Predicates
      PROVE  f[p] = C[p][[q \in Operands(p) |-> f[q]]]
  <2> DEFINE a == [q \in Operands(p) |-> f[q]]
  <2>1. a \in [Operands(p) -> R] /\ \A q \in Operands(p) : <<q, a[q]>> \in G
    BY <1>1, <1>5, Zenon
  <2> HIDE DEF a
  <2>2. C[p][a] \in R /\ <<p, C[p][a]>> \in G
    BY <1>3, <2>1, Zenon
  <2> QED
    BY <1>5, <2>2, Zenon DEF a
<1> QED
  BY <1>6, <1>7, Zenon

\* The operands of a node are trees.
LEMMA OperandsAre ==
    ASSUME NEW p \in Predicates
    PROVE  /\ p.node \in {"Compare", "Null", "And", "Or", "Not"}
           /\ p.node \in {"And", "Or"} => Operands(p) = {p.left, p.right}
           /\ p.node = "Not" => Operands(p) = {p.inner}
           /\ p.node \in {"Compare", "Null"} => Operands(p) = {}
           /\ Operands(p) \subseteq Predicates
BY PredicatesAssumption, Zenon DEF Operands

\* Nodes is defined for every tree.
LEMMA NodesIs ==
    /\ Nodes \in [Predicates -> Nat]
    /\ \A p \in Predicates : Nodes[p] =
          CASE p.node \in {"And", "Or"} -> 1 + Nodes[p.left] + Nodes[p.right]
            [] p.node = "Not" -> 1 + Nodes[p.inner]
            [] OTHER -> 1
<1> DEFINE Body(f, p) ==
             CASE p.node \in {"And", "Or"} -> 1 + f[p.left] + f[p.right]
               [] p.node = "Not" -> 1 + f[p.inner]
               [] OTHER -> 1
<1>1. ASSUME NEW p \in Predicates, NEW f, \A q \in Operands(p) : f[q] \in Nat
      PROVE  Body(f, p) \in Nat
  <2>1. CASE p.node \in {"And", "Or"}
    BY <1>1, <2>1, OperandsAre
  <2>2. CASE p.node = "Not"
    BY <1>1, <2>2, OperandsAre
  <2>3. CASE p.node = "Null"
    BY <1>1, <2>3, Zenon
  <2>4. CASE p.node = "Compare"
    BY <1>1, <2>4, Zenon
  <2> QED
    BY <2>1, <2>2, <2>3, <2>4, OperandsAre, Zenon
<1>2. ASSUME NEW p \in Predicates, NEW f, NEW h, \A q \in Operands(p) : f[q] = h[q]
      PROVE  Body(f, p) = Body(h, p)
  <2>1. CASE p.node \in {"And", "Or"}
    BY <1>2, <2>1, OperandsAre, Zenon
  <2>2. CASE p.node = "Not"
    BY <1>2, <2>2, OperandsAre, Zenon
  <2>3. CASE p.node = "Null"
    BY <1>2, <2>3, Zenon
  <2>4. CASE p.node = "Compare"
    BY <1>2, <2>4, Zenon
  <2> QED
    BY <2>1, <2>2, <2>3, <2>4, OperandsAre, Zenon
<1> HIDE DEF Body
<1>3. \E f : f = [p \in Predicates |-> Body(f, p)]
  <2> DEFINE C == [p \in Predicates |-> [a \in [Operands(p) -> Nat] |-> Body(a, p)]]
  <2>1. ASSUME NEW p \in Predicates, NEW a \in [Operands(p) -> Nat]
        PROVE  C[p][a] = Body(a, p) /\ C[p][a] \in Nat
    <3>1. C[p][a] = Body(a, p)
      BY Zenon
    <3>2. \A q \in Operands(p) : a[q] \in Nat
      BY Zenon
    <3> QED
      BY <1>1, <3>1, <3>2, Zenon
  <2> HIDE DEF C
  <2>2. StepsIn(C, Nat)
    BY <2>1, Zenon DEF StepsIn
  <2>3. PICK f \in [Predicates -> Nat] : Follows(f, C)
    BY <2>2, TreeRecursion, Zenon
  <2>4. ASSUME NEW p \in Predicates
        PROVE  f[p] = Body(f, p)
    <3> DEFINE a == [q \in Operands(p) |-> f[q]]
    <3>1. a \in [Operands(p) -> Nat] /\ \A q \in Operands(p) : a[q] = f[q]
      BY OperandsAre, Zenon
    <3>2. f[p] = C[p][a]
      BY <2>3, Zenon DEF Follows
    <3> HIDE DEF a
    <3>3. C[p][a] = Body(a, p)
      BY <2>1, <3>1, Zenon
    <3>4. Body(a, p) = Body(f, p)
      BY <1>2, <3>1, Zenon
    <3> QED
      BY <3>2, <3>3, <3>4, Zenon
  <2>5. f = [p \in Predicates |-> Body(f, p)]
    <3>1. f = [p \in Predicates |-> f[p]]
      BY Zenon
    <3> QED
      BY <2>4, <3>1, Zenon
  <2> QED
    BY <2>5, Zenon
<1>4. Nodes = [p \in Predicates |-> Body(Nodes, p)]
  <2>1. Nodes = CHOOSE f : f = [p \in Predicates |-> Body(f, p)]
    BY Zenon DEF Nodes, Body
  <2> QED
    BY <1>3, <2>1, Zenon
<1>5. \A p \in Predicates : Nodes[p] = Body(Nodes, p)
  BY <1>4, Zenon
<1>6. \A p \in Predicates : Nodes[p] \in Nat
  <2> DEFINE S == {p \in Predicates : Nodes[p] \in Nat}
  <2>1. ASSUME NEW p \in Predicates, \A q \in Operands(p) : q \in S
        PROVE  p \in S
    BY <1>1, <1>5, <2>1, Zenon
  <2> HIDE DEF S
  <2>2. \A p \in Predicates : p \in S
    BY <2>1, TreeInduction, Zenon
  <2> QED
    BY <2>2, Zenon DEF S
<1>7. Nodes \in [Predicates -> Nat]
  BY <1>4, <1>5, <1>6, Zenon
<1> QED
  BY <1>5, <1>7, Zenon DEF Body

\* Depth is defined for every tree.
LEMMA DepthIs ==
    /\ Depth \in [Predicates -> Nat]
    /\ \A p \in Predicates : Depth[p] =
          CASE p.node \in {"And", "Or"} -> 1 + Greatest(Depth[p.left], Depth[p.right])
            [] p.node = "Not" -> 1 + Depth[p.inner]
            [] OTHER -> 1
<1> DEFINE Body(f, p) ==
             CASE p.node \in {"And", "Or"} -> 1 + Greatest(f[p.left], f[p.right])
               [] p.node = "Not" -> 1 + f[p.inner]
               [] OTHER -> 1
<1>1. ASSUME NEW p \in Predicates, NEW f, \A q \in Operands(p) : f[q] \in Nat
      PROVE  Body(f, p) \in Nat
  <2>1. CASE p.node \in {"And", "Or"}
    BY <1>1, <2>1, OperandsAre DEF Greatest
  <2>2. CASE p.node = "Not"
    BY <1>1, <2>2, OperandsAre
  <2>3. CASE p.node = "Null"
    BY <1>1, <2>3, Zenon
  <2>4. CASE p.node = "Compare"
    BY <1>1, <2>4, Zenon
  <2> QED
    BY <2>1, <2>2, <2>3, <2>4, OperandsAre, Zenon
<1>2. ASSUME NEW p \in Predicates, NEW f, NEW h, \A q \in Operands(p) : f[q] = h[q]
      PROVE  Body(f, p) = Body(h, p)
  <2>1. CASE p.node \in {"And", "Or"}
    BY <1>2, <2>1, OperandsAre, Zenon
  <2>2. CASE p.node = "Not"
    BY <1>2, <2>2, OperandsAre, Zenon
  <2>3. CASE p.node = "Null"
    BY <1>2, <2>3, Zenon
  <2>4. CASE p.node = "Compare"
    BY <1>2, <2>4, Zenon
  <2> QED
    BY <2>1, <2>2, <2>3, <2>4, OperandsAre, Zenon
<1> HIDE DEF Body
<1>3. \E f : f = [p \in Predicates |-> Body(f, p)]
  <2> DEFINE C == [p \in Predicates |-> [a \in [Operands(p) -> Nat] |-> Body(a, p)]]
  <2>1. ASSUME NEW p \in Predicates, NEW a \in [Operands(p) -> Nat]
        PROVE  C[p][a] = Body(a, p) /\ C[p][a] \in Nat
    <3>1. C[p][a] = Body(a, p)
      BY Zenon
    <3>2. \A q \in Operands(p) : a[q] \in Nat
      BY Zenon
    <3> QED
      BY <1>1, <3>1, <3>2, Zenon
  <2> HIDE DEF C
  <2>2. StepsIn(C, Nat)
    BY <2>1, Zenon DEF StepsIn
  <2>3. PICK f \in [Predicates -> Nat] : Follows(f, C)
    BY <2>2, TreeRecursion, Zenon
  <2>4. ASSUME NEW p \in Predicates
        PROVE  f[p] = Body(f, p)
    <3> DEFINE a == [q \in Operands(p) |-> f[q]]
    <3>1. a \in [Operands(p) -> Nat] /\ \A q \in Operands(p) : a[q] = f[q]
      BY OperandsAre, Zenon
    <3>2. f[p] = C[p][a]
      BY <2>3, Zenon DEF Follows
    <3> HIDE DEF a
    <3>3. C[p][a] = Body(a, p)
      BY <2>1, <3>1, Zenon
    <3>4. Body(a, p) = Body(f, p)
      BY <1>2, <3>1, Zenon
    <3> QED
      BY <3>2, <3>3, <3>4, Zenon
  <2>5. f = [p \in Predicates |-> Body(f, p)]
    <3>1. f = [p \in Predicates |-> f[p]]
      BY Zenon
    <3> QED
      BY <2>4, <3>1, Zenon
  <2> QED
    BY <2>5, Zenon
<1>4. Depth = [p \in Predicates |-> Body(Depth, p)]
  <2>1. Depth = CHOOSE f : f = [p \in Predicates |-> Body(f, p)]
    BY Zenon DEF Depth, Body
  <2> QED
    BY <1>3, <2>1, Zenon
<1>5. \A p \in Predicates : Depth[p] = Body(Depth, p)
  BY <1>4, Zenon
<1>6. \A p \in Predicates : Depth[p] \in Nat
  <2> DEFINE S == {p \in Predicates : Depth[p] \in Nat}
  <2>1. ASSUME NEW p \in Predicates, \A q \in Operands(p) : q \in S
        PROVE  p \in S
    BY <1>1, <1>5, <2>1, Zenon
  <2> HIDE DEF S
  <2>2. \A p \in Predicates : p \in S
    BY <2>1, TreeInduction, Zenon
  <2> QED
    BY <2>2, Zenon DEF S
<1>7. Depth \in [Predicates -> Nat]
  BY <1>4, <1>5, <1>6, Zenon
<1> QED
  BY <1>5, <1>7, Zenon DEF Body

\* LeavesAccepted is defined for every tree.
LEMMA LeavesIs ==
    /\ LeavesAccepted \in [Predicates -> BOOLEAN]
    /\ \A p \in Predicates : LeavesAccepted[p] =
          CASE p.node \in {"And", "Or"} -> LeavesAccepted[p.left] /\ LeavesAccepted[p.right]
            [] p.node = "Not" -> LeavesAccepted[p.inner]
            [] p.node = "Null" -> NullAccepted(p)
            [] p.node = "Compare" -> CompareAccepted(p)
<1> DEFINE Body(f, p) ==
             CASE p.node \in {"And", "Or"} -> f[p.left] /\ f[p.right]
               [] p.node = "Not" -> f[p.inner]
               [] p.node = "Null" -> NullAccepted(p)
               [] p.node = "Compare" -> CompareAccepted(p)
<1>1. ASSUME NEW p \in Predicates, NEW f, \A q \in Operands(p) : f[q] \in BOOLEAN
      PROVE  Body(f, p) \in BOOLEAN
  <2>1. CASE p.node \in {"And", "Or"}
    BY <1>1, <2>1, OperandsAre, Zenon
  <2>2. CASE p.node = "Not"
    BY <1>1, <2>2, OperandsAre, Zenon
  <2>3. CASE p.node = "Null"
    BY <1>1, <2>3, Zenon DEF NullAccepted
  <2>4. CASE p.node = "Compare"
    BY <1>1, <2>4, Zenon DEF CompareAccepted
  <2> QED
    BY <2>1, <2>2, <2>3, <2>4, OperandsAre, Zenon
<1>2. ASSUME NEW p \in Predicates, NEW f, NEW h, \A q \in Operands(p) : f[q] = h[q]
      PROVE  Body(f, p) = Body(h, p)
  <2>1. CASE p.node \in {"And", "Or"}
    BY <1>2, <2>1, OperandsAre, Zenon
  <2>2. CASE p.node = "Not"
    BY <1>2, <2>2, OperandsAre, Zenon
  <2>3. CASE p.node = "Null"
    BY <1>2, <2>3, Zenon
  <2>4. CASE p.node = "Compare"
    BY <1>2, <2>4, Zenon
  <2> QED
    BY <2>1, <2>2, <2>3, <2>4, OperandsAre, Zenon
<1> HIDE DEF Body
<1>3. \E f : f = [p \in Predicates |-> Body(f, p)]
  <2> DEFINE C == [p \in Predicates |-> [a \in [Operands(p) -> BOOLEAN] |-> Body(a, p)]]
  <2>1. ASSUME NEW p \in Predicates, NEW a \in [Operands(p) -> BOOLEAN]
        PROVE  C[p][a] = Body(a, p) /\ C[p][a] \in BOOLEAN
    <3>1. C[p][a] = Body(a, p)
      BY Zenon
    <3>2. \A q \in Operands(p) : a[q] \in BOOLEAN
      BY Zenon
    <3> QED
      BY <1>1, <3>1, <3>2, Zenon
  <2> HIDE DEF C
  <2>2. StepsIn(C, BOOLEAN)
    BY <2>1, Zenon DEF StepsIn
  <2>3. PICK f \in [Predicates -> BOOLEAN] : Follows(f, C)
    BY <2>2, TreeRecursion, Zenon
  <2>4. ASSUME NEW p \in Predicates
        PROVE  f[p] = Body(f, p)
    <3> DEFINE a == [q \in Operands(p) |-> f[q]]
    <3>1. a \in [Operands(p) -> BOOLEAN] /\ \A q \in Operands(p) : a[q] = f[q]
      BY OperandsAre, Zenon
    <3>2. f[p] = C[p][a]
      BY <2>3, Zenon DEF Follows
    <3> HIDE DEF a
    <3>3. C[p][a] = Body(a, p)
      BY <2>1, <3>1, Zenon
    <3>4. Body(a, p) = Body(f, p)
      BY <1>2, <3>1, Zenon
    <3> QED
      BY <3>2, <3>3, <3>4, Zenon
  <2>5. f = [p \in Predicates |-> Body(f, p)]
    <3>1. f = [p \in Predicates |-> f[p]]
      BY Zenon
    <3> QED
      BY <2>4, <3>1, Zenon
  <2> QED
    BY <2>5, Zenon
<1>4. LeavesAccepted = [p \in Predicates |-> Body(LeavesAccepted, p)]
  <2>1. LeavesAccepted = CHOOSE f : f = [p \in Predicates |-> Body(f, p)]
    BY Zenon DEF LeavesAccepted, Body
  <2> QED
    BY <1>3, <2>1, Zenon
<1>5. \A p \in Predicates : LeavesAccepted[p] = Body(LeavesAccepted, p)
  BY <1>4, Zenon
<1>6. \A p \in Predicates : LeavesAccepted[p] \in BOOLEAN
  <2> DEFINE S == {p \in Predicates : LeavesAccepted[p] \in BOOLEAN}
  <2>1. ASSUME NEW p \in Predicates, \A q \in Operands(p) : q \in S
        PROVE  p \in S
    BY <1>1, <1>5, <2>1, Zenon
  <2> HIDE DEF S
  <2>2. \A p \in Predicates : p \in S
    BY <2>1, TreeInduction, Zenon
  <2> QED
    BY <2>2, Zenon DEF S
<1>7. LeavesAccepted \in [Predicates -> BOOLEAN]
  BY <1>4, <1>5, <1>6, Zenon
<1> QED
  BY <1>5, <1>7, Zenon DEF Body

\* The truth values and what the engine finds of a condition.
Truths == {0, 1, 2}
Evaluations == [Nat -> [truth : Truths, used : Nat]]

\* What compile_predicate returns.
Results == [ok : BOOLEAN, nodes : Nat, values : Seq({p.value : p \in Predicates})]
Compilations == [Nat -> [Nat -> Results]]

\* The results that compile_predicate is made of are results.
LEMMA RefusedIs ==
    Refused \in Results
BY EmptySeq, Zenon DEF Refused, Results

\* The operands of AND and OR give a result.
LEMMA JoinedIs ==
    ASSUME NEW n, NEW left \in Results, NEW rights \in [Nat -> Results]
    PROVE  Joined(n, left, rights) \in Results
<1> DEFINE right == rights[left.nodes]
<1>1. right \in Results
  BY Zenon DEF Results
<1> HIDE DEF right
<1>2. left.values \o right.values \in Seq({p.value : p \in Predicates})
  BY <1>1, ConcatProperties, Zenon DEF Results
<1>3. Compiled(right.nodes, left.values \o right.values) \in Results
  BY <1>1, <1>2, Zenon DEF Compiled, Results
<1> QED
  BY <1>3, RefusedIs, Zenon DEF Joined, NodesBefore, right

\* What compile_predicate makes of a leaf.
LEMMA LeafIs ==
    ASSUME NEW p \in Predicates, NEW accepted
    PROVE  CompiledLeaf(p, accepted) \in Compilations
<1> DEFINE V == {q.value : q \in Predicates}
<1>1. p.value \in V
  BY Zenon
<1> HIDE DEF V
<1>2. Parameters(p) \in Seq(V)
  BY <1>1, EmptySeq DEF Parameters
<1>3. \A before \in Nat : Compiled(before + 1, Parameters(p)) \in Results
  BY <1>2 DEF Compiled, Results, V
<1>4. ASSUME NEW depth \in Nat, NEW before \in Nat
      PROVE  Within(depth, before, IF accepted THEN Compiled(before + 1, Parameters(p))
                                   ELSE Refused) \in Results
  BY <1>3, RefusedIs, Zenon DEF Within
<1> QED
  BY <1>4, Zenon DEF CompiledLeaf, Compilations

\* What compile_predicate makes of AND, OR and NOT.
LEMMA CompiledIs ==
    ASSUME NEW left \in Compilations, NEW right \in Compilations
    PROVE  /\ CompiledBoth(left, right) \in Compilations
           /\ CompiledNot(left) \in Compilations
<1>1. \A n \in Nat : n + 1 \in Nat
  OBVIOUS
<1>2. ASSUME NEW depth \in Nat, NEW before \in Nat
      PROVE  /\ left[depth + 1][before + 1] \in Results
             /\ right[depth + 1] \in [Nat -> Results]
  BY <1>1, Zenon DEF Compilations
<1>3. CompiledBoth(left, right) \in Compilations
  <2>1. ASSUME NEW depth \in Nat, NEW before \in Nat
        PROVE  Within(depth, before, Joined(before + 1, left[depth + 1][before + 1], right[depth + 1]))
                  \in Results
    BY <1>2, RefusedIs, JoinedIs, Zenon DEF Within
  <2> QED
    BY <2>1, Zenon DEF CompiledBoth, Compilations
<1>4. CompiledNot(left) \in Compilations
  BY <1>2, RefusedIs, Zenon DEF CompiledNot, Compilations, Within
<1> QED
  BY <1>3, <1>4, Zenon

\* What the engine finds for the kinds of conditions.
LEMMA ConnectedIs ==
    ASSUME NEW text, NEW left \in Evaluations, NEW right \in Evaluations
    PROVE  Connected(text, left, right) \in Evaluations
<1> DEFINE truth(a, b) == IF text = "And" THEN Least(a, b) ELSE Greatest(a, b)
<1>1. ASSUME NEW used \in Nat
      PROVE  /\ left[used].truth \in Truths /\ right[left[used].used].truth \in Truths
             /\ right[left[used].used].used \in Nat
  BY Zenon DEF Evaluations
<1>2. \A a, b \in Truths : truth(a, b) \in Truths
  BY Zenon DEF Least, Greatest, Truths
<1> HIDE DEF truth
<1>3. \A used \in Nat : [truth |-> truth(left[used].truth, right[left[used].used].truth),
                         used |-> right[left[used].used].used] \in [truth : Truths, used : Nat]
  BY <1>1, <1>2, Zenon
<1> QED
  BY <1>3, Zenon DEF Connected, Evaluations, truth

\* NOT turns a truth value round.
LEMMA NegatedIs ==
    ASSUME NEW inner \in Evaluations
    PROVE  Negated(inner) \in Evaluations
BY DEF Negated, Truths, Evaluations

\* A comparison has a truth value.
LEMMA ComparedIs ==
    ASSUME NEW comparison, NEW a, NEW b
    PROVE  Compared(comparison, a, b) \in Truths
BY Zenon DEF Compared, Truth, Truths

\* A test of a column has a truth value.
LEMMA TestedIs ==
    ASSUME NEW text, NEW column, NEW parameters
    PROVE  Tested(text, column, parameters) \in Evaluations
<1>1. \A used \in Nat : Compared(text, column, parameters[used + 1]) \in Truths
  BY ComparedIs, Zenon
<1>2. Truth(column = Null) \in Truths /\ Truth(column # Null) \in Truths
  BY Zenon DEF Truth, Truths
<1>3. ASSUME NEW used \in Nat
      PROVE  (CASE text = "IsNull" -> [truth |-> Truth(column = Null), used |-> used]
                [] text = "IsNotNull" -> [truth |-> Truth(column # Null), used |-> used]
                [] OTHER -> [truth |-> Compared(text, column, parameters[used + 1]),
                             used |-> used + 1]) \in [truth : Truths, used : Nat]
  BY <1>1, <1>2
<1> QED
  BY <1>3, Zenon DEF Tested, Evaluations

\* The text of a node tells its kind.
LEMMA TextIs ==
    ASSUME NEW p \in Predicates
    PROVE  /\ p.node \in {"And", "Or", "Not"} => Text(p) = p.node
           /\ p.node = "Null" => Text(p) = p.comparison /\ Text(p) \in {"IsNull", "IsNotNull"}
           /\ p.node = "Compare" /\ p.value # Null =>
                 Text(p) = p.comparison
                 /\ Text(p) \in {"Equal", "NotEqual", "Less", "LessOrEqual", "Greater", "GreaterOrEqual"}
           /\ p.node = "Compare" /\ p.value = Null =>
                 Text(p) = IF p.comparison = "Equal" THEN "IsNull" ELSE "IsNotNull"
BY PredicatesAssumption, Zenon DEF Text, NullTests, Orderings

\* The meaning of a tree on a row is a truth value.
LEMMA MeaningIs ==
    ASSUME NEW row
    PROVE  /\ Meaning(row) \in [Predicates -> Truths]
           /\ \A p \in Predicates : Meaning(row)[p] =
                 CASE p.node = "And" -> Least(Meaning(row)[p.left], Meaning(row)[p.right])
                   [] p.node = "Or" -> Greatest(Meaning(row)[p.left], Meaning(row)[p.right])
                   [] p.node = "Not" -> 2 - Meaning(row)[p.inner]
                   [] p.node = "Null" ->
                        Truth((row[Position(p.field)] = Null) = (p.comparison = "IsNull"))
                   [] p.node = "Compare" ->
                        IF p.value = Null
                        THEN Truth((row[Position(p.field)] = Null) = (p.comparison = "Equal"))
                        ELSE Compared(p.comparison, row[Position(p.field)], p.value)
<1> DEFINE Body(f, p) ==
             CASE p.node = "And" -> Least(f[p.left], f[p.right])
               [] p.node = "Or" -> Greatest(f[p.left], f[p.right])
               [] p.node = "Not" -> 2 - f[p.inner]
               [] p.node = "Null" ->
                    Truth((row[Position(p.field)] = Null) = (p.comparison = "IsNull"))
               [] p.node = "Compare" ->
                    IF p.value = Null
                    THEN Truth((row[Position(p.field)] = Null) = (p.comparison = "Equal"))
                    ELSE Compared(p.comparison, row[Position(p.field)], p.value)
<1>1. ASSUME NEW p \in Predicates, NEW f, \A q \in Operands(p) : f[q] \in Truths
      PROVE  Body(f, p) \in Truths
  <2>1. CASE p.node \in {"And", "Or"}
    BY <1>1, <2>1, OperandsAre, Zenon DEF Least, Greatest, Truths
  <2>2. CASE p.node = "Not"
    BY <1>1, <2>2, OperandsAre DEF Truths
  <2>3. CASE p.node = "Null"
    BY <1>1, <2>3, Zenon DEF Truth, Truths
  <2>4. CASE p.node = "Compare"
    BY <1>1, <2>4, Zenon DEF Truth, Compared, Truths
  <2> QED
    BY <2>1, <2>2, <2>3, <2>4, OperandsAre, Zenon
<1>2. ASSUME NEW p \in Predicates, NEW f, NEW h, \A q \in Operands(p) : f[q] = h[q]
      PROVE  Body(f, p) = Body(h, p)
  <2>1. CASE p.node \in {"And", "Or"}
    BY <1>2, <2>1, OperandsAre, Zenon
  <2>2. CASE p.node = "Not"
    BY <1>2, <2>2, OperandsAre, Zenon
  <2>3. CASE p.node = "Null"
    BY <1>2, <2>3, Zenon
  <2>4. CASE p.node = "Compare"
    BY <1>2, <2>4, Zenon
  <2> QED
    BY <2>1, <2>2, <2>3, <2>4, OperandsAre, Zenon
<1> HIDE DEF Body
<1>3. \E f : f = [p \in Predicates |-> Body(f, p)]
  <2> DEFINE C == [p \in Predicates |-> [a \in [Operands(p) -> Truths] |-> Body(a, p)]]
  <2>1. ASSUME NEW p \in Predicates, NEW a \in [Operands(p) -> Truths]
        PROVE  C[p][a] = Body(a, p) /\ C[p][a] \in Truths
    <3>1. C[p][a] = Body(a, p)
      BY Zenon
    <3>2. \A q \in Operands(p) : a[q] \in Truths
      BY Zenon
    <3> QED
      BY <1>1, <3>1, <3>2, Zenon
  <2> HIDE DEF C
  <2>2. StepsIn(C, Truths)
    BY <2>1, Zenon DEF StepsIn
  <2>3. PICK f \in [Predicates -> Truths] : Follows(f, C)
    BY <2>2, TreeRecursion, Zenon
  <2>4. ASSUME NEW p \in Predicates
        PROVE  f[p] = Body(f, p)
    <3> DEFINE a == [q \in Operands(p) |-> f[q]]
    <3>1. a \in [Operands(p) -> Truths] /\ \A q \in Operands(p) : a[q] = f[q]
      BY OperandsAre, Zenon
    <3>2. f[p] = C[p][a]
      BY <2>3, Zenon DEF Follows
    <3> HIDE DEF a
    <3>3. C[p][a] = Body(a, p)
      BY <2>1, <3>1, Zenon
    <3>4. Body(a, p) = Body(f, p)
      BY <1>2, <3>1, Zenon
    <3> QED
      BY <3>2, <3>3, <3>4, Zenon
  <2>5. f = [p \in Predicates |-> Body(f, p)]
    <3>1. f = [p \in Predicates |-> f[p]]
      BY Zenon
    <3> QED
      BY <2>4, <3>1, Zenon
  <2> QED
    BY <2>5, Zenon
<1>4. Meaning(row) = [p \in Predicates |-> Body(Meaning(row), p)]
  <2>1. Meaning(row) = CHOOSE f : f = [p \in Predicates |-> Body(f, p)]
    BY Zenon DEF Meaning, Body
  <2> QED
    BY <1>3, <2>1, Zenon
<1>5. \A p \in Predicates : Meaning(row)[p] = Body(Meaning(row), p)
  BY <1>4, Zenon
<1>6. \A p \in Predicates : Meaning(row)[p] \in Truths
  <2> DEFINE S == {p \in Predicates : Meaning(row)[p] \in Truths}
  <2>1. ASSUME NEW p \in Predicates, \A q \in Operands(p) : q \in S
        PROVE  p \in S
    BY <1>1, <1>5, <2>1, Zenon
  <2> HIDE DEF S
  <2>2. \A p \in Predicates : p \in S
    BY <2>1, TreeInduction, Zenon
  <2> QED
    BY <2>2, Zenon DEF S
<1>7. Meaning(row) \in [Predicates -> Truths]
  BY <1>4, <1>5, <1>6, Zenon
<1> QED
  BY <1>5, <1>7, Zenon DEF Body

\* The engine gives every condition a truth value and uses parameters in order.
LEMMA EvaluationIs ==
    ASSUME NEW parameters, NEW row
    PROVE  /\ Evaluation(parameters, row) \in [Predicates -> Evaluations]
           /\ \A p \in Predicates : Evaluation(parameters, row)[p] =
                 CASE Text(p) \in {"And", "Or"} -> Connected(Text(p), Evaluation(parameters, row)[p.left], Evaluation(parameters, row)[p.right])
                   [] Text(p) = "Not" -> Negated(Evaluation(parameters, row)[p.inner])
                   [] OTHER -> Tested(Text(p), row[Position(p.field)], parameters)
<1> DEFINE Body(f, p) ==
             CASE Text(p) \in {"And", "Or"} -> Connected(Text(p), f[p.left], f[p.right])
               [] Text(p) = "Not" -> Negated(f[p.inner])
               [] OTHER -> Tested(Text(p), row[Position(p.field)], parameters)
<1>1. ASSUME NEW p \in Predicates, NEW f, \A q \in Operands(p) : f[q] \in Evaluations
      PROVE  Body(f, p) \in Evaluations
  <2>1. CASE p.node \in {"And", "Or"}
    <3>1. Text(p) = p.node /\ p.left \in Operands(p) /\ p.right \in Operands(p)
      BY <2>1, OperandsAre, TextIs, Zenon
    <3> QED
      BY <1>1, <2>1, <3>1, ConnectedIs, Zenon
  <2>2. CASE p.node = "Not"
    <3>1. Text(p) = "Not" /\ p.inner \in Operands(p)
      BY <2>2, OperandsAre, TextIs
    <3> QED
      BY <1>1, <3>1, NegatedIs, Zenon
  <2>3. CASE p.node \in {"Null", "Compare"}
    <3>1. Text(p) \notin {"And", "Or", "Not"}
      BY <2>3, TextIs, Zenon
    <3> QED
      BY <3>1, TestedIs, Zenon
  <2> QED
    BY <2>1, <2>2, <2>3, OperandsAre, Zenon
<1>2. ASSUME NEW p \in Predicates, NEW f, NEW h, \A q \in Operands(p) : f[q] = h[q]
      PROVE  Body(f, p) = Body(h, p)
  <2>1. CASE p.node \in {"And", "Or"}
    <3>1. Text(p) = p.node /\ p.left \in Operands(p) /\ p.right \in Operands(p)
      BY <2>1, OperandsAre, TextIs, Zenon
    <3> QED
      BY <1>2, <2>1, <3>1, Zenon
  <2>2. CASE p.node = "Not"
    <3>1. Text(p) = "Not" /\ p.inner \in Operands(p)
      BY <2>2, OperandsAre, TextIs
    <3> QED
      BY <1>2, <3>1, Zenon
  <2>3. CASE p.node \in {"Null", "Compare"}
    <3>1. Text(p) \notin {"And", "Or", "Not"}
      BY <2>3, TextIs, Zenon
    <3> QED
      BY <3>1, Zenon
  <2> QED
    BY <2>1, <2>2, <2>3, OperandsAre, Zenon
<1> HIDE DEF Body
<1>3. \E f : f = [p \in Predicates |-> Body(f, p)]
  <2> DEFINE C == [p \in Predicates |-> [a \in [Operands(p) -> Evaluations] |-> Body(a, p)]]
  <2>1. ASSUME NEW p \in Predicates, NEW a \in [Operands(p) -> Evaluations]
        PROVE  C[p][a] = Body(a, p) /\ C[p][a] \in Evaluations
    <3>1. C[p][a] = Body(a, p)
      BY Zenon
    <3>2. \A q \in Operands(p) : a[q] \in Evaluations
      BY Zenon
    <3> QED
      BY <1>1, <3>1, <3>2, Zenon
  <2> HIDE DEF C
  <2>2. StepsIn(C, Evaluations)
    BY <2>1, Zenon DEF StepsIn
  <2>3. PICK f \in [Predicates -> Evaluations] : Follows(f, C)
    BY <2>2, TreeRecursion, Zenon
  <2>4. ASSUME NEW p \in Predicates
        PROVE  f[p] = Body(f, p)
    <3> DEFINE a == [q \in Operands(p) |-> f[q]]
    <3>1. a \in [Operands(p) -> Evaluations] /\ \A q \in Operands(p) : a[q] = f[q]
      BY OperandsAre, Zenon
    <3>2. f[p] = C[p][a]
      BY <2>3, Zenon DEF Follows
    <3> HIDE DEF a
    <3>3. C[p][a] = Body(a, p)
      BY <2>1, <3>1, Zenon
    <3>4. Body(a, p) = Body(f, p)
      BY <1>2, <3>1, Zenon
    <3> QED
      BY <3>2, <3>3, <3>4, Zenon
  <2>5. f = [p \in Predicates |-> Body(f, p)]
    <3>1. f = [p \in Predicates |-> f[p]]
      BY Zenon
    <3> QED
      BY <2>4, <3>1, Zenon
  <2> QED
    BY <2>5, Zenon
<1>4. Evaluation(parameters, row) = [p \in Predicates |-> Body(Evaluation(parameters, row), p)]
  <2>1. Evaluation(parameters, row) = CHOOSE f : f = [p \in Predicates |-> Body(f, p)]
    BY Zenon DEF Evaluation, Body
  <2> QED
    BY <1>3, <2>1, Zenon
<1>5. \A p \in Predicates : Evaluation(parameters, row)[p] = Body(Evaluation(parameters, row), p)
  BY <1>4, Zenon
<1>6. \A p \in Predicates : Evaluation(parameters, row)[p] \in Evaluations
  <2> DEFINE S == {p \in Predicates : Evaluation(parameters, row)[p] \in Evaluations}
  <2>1. ASSUME NEW p \in Predicates, \A q \in Operands(p) : q \in S
        PROVE  p \in S
    BY <1>1, <1>5, <2>1, Zenon
  <2> HIDE DEF S
  <2>2. \A p \in Predicates : p \in S
    BY <2>1, TreeInduction, Zenon
  <2> QED
    BY <2>2, Zenon DEF S
<1>7. Evaluation(parameters, row) \in [Predicates -> Evaluations]
  BY <1>4, <1>5, <1>6, Zenon
<1> QED
  BY <1>5, <1>7, Zenon DEF Body

\* compile_predicate is defined for every tree, depth and number of nodes.
LEMMA CompileIs ==
    /\ compile_predicate \in [Predicates -> Compilations]
    /\ \A p \in Predicates : compile_predicate[p] =
          CASE p.node \in {"And", "Or"} -> CompiledBoth(compile_predicate[p.left], compile_predicate[p.right])
            [] p.node = "Not" -> CompiledNot(compile_predicate[p.inner])
            [] p.node = "Null" -> CompiledLeaf(p, NullAccepted(p))
            [] p.node = "Compare" -> CompiledLeaf(p, CompareAccepted(p))
<1> DEFINE Body(f, p) ==
             CASE p.node \in {"And", "Or"} -> CompiledBoth(f[p.left], f[p.right])
               [] p.node = "Not" -> CompiledNot(f[p.inner])
               [] p.node = "Null" -> CompiledLeaf(p, NullAccepted(p))
               [] p.node = "Compare" -> CompiledLeaf(p, CompareAccepted(p))
<1>1. ASSUME NEW p \in Predicates, NEW f, \A q \in Operands(p) : f[q] \in Compilations
      PROVE  Body(f, p) \in Compilations
  <2>1. CASE p.node \in {"And", "Or"}
    BY <1>1, CompiledIs, <2>1, OperandsAre, Zenon
  <2>2. CASE p.node = "Not"
    BY <1>1, CompiledIs, <2>2, OperandsAre, Zenon
  <2>3. CASE p.node = "Null"
    BY <1>1, LeafIs, <2>3, Zenon
  <2>4. CASE p.node = "Compare"
    BY <1>1, LeafIs, <2>4, Zenon
  <2> QED
    BY <2>1, <2>2, <2>3, <2>4, OperandsAre, Zenon
<1>2. ASSUME NEW p \in Predicates, NEW f, NEW h, \A q \in Operands(p) : f[q] = h[q]
      PROVE  Body(f, p) = Body(h, p)
  <2>1. CASE p.node \in {"And", "Or"}
    BY <1>2, <2>1, OperandsAre, Zenon
  <2>2. CASE p.node = "Not"
    BY <1>2, <2>2, OperandsAre, Zenon
  <2>3. CASE p.node = "Null"
    BY <1>2, <2>3, Zenon
  <2>4. CASE p.node = "Compare"
    BY <1>2, <2>4, Zenon
  <2> QED
    BY <2>1, <2>2, <2>3, <2>4, OperandsAre, Zenon
<1> HIDE DEF Body
<1>3. \E f : f = [p \in Predicates |-> Body(f, p)]
  <2> DEFINE C == [p \in Predicates |-> [a \in [Operands(p) -> Compilations] |-> Body(a, p)]]
  <2>1. ASSUME NEW p \in Predicates, NEW a \in [Operands(p) -> Compilations]
        PROVE  C[p][a] = Body(a, p) /\ C[p][a] \in Compilations
    <3>1. C[p][a] = Body(a, p)
      BY Zenon
    <3>2. \A q \in Operands(p) : a[q] \in Compilations
      BY Zenon
    <3> QED
      BY <1>1, <3>1, <3>2, Zenon
  <2> HIDE DEF C
  <2>2. StepsIn(C, Compilations)
    BY <2>1, Zenon DEF StepsIn
  <2>3. PICK f \in [Predicates -> Compilations] : Follows(f, C)
    BY <2>2, TreeRecursion, Zenon
  <2>4. ASSUME NEW p \in Predicates
        PROVE  f[p] = Body(f, p)
    <3> DEFINE a == [q \in Operands(p) |-> f[q]]
    <3>1. a \in [Operands(p) -> Compilations] /\ \A q \in Operands(p) : a[q] = f[q]
      BY OperandsAre, Zenon
    <3>2. f[p] = C[p][a]
      BY <2>3, Zenon DEF Follows
    <3> HIDE DEF a
    <3>3. C[p][a] = Body(a, p)
      BY <2>1, <3>1, Zenon
    <3>4. Body(a, p) = Body(f, p)
      BY <1>2, <3>1, Zenon
    <3> QED
      BY <3>2, <3>3, <3>4, Zenon
  <2>5. f = [p \in Predicates |-> Body(f, p)]
    <3>1. f = [p \in Predicates |-> f[p]]
      BY Zenon
    <3> QED
      BY <2>4, <3>1, Zenon
  <2> QED
    BY <2>5, Zenon
<1>4. compile_predicate = [p \in Predicates |-> Body(compile_predicate, p)]
  <2>1. compile_predicate = CHOOSE f : f = [p \in Predicates |-> Body(f, p)]
    BY Zenon DEF compile_predicate, Body
  <2> QED
    BY <1>3, <2>1, Zenon
<1>5. \A p \in Predicates : compile_predicate[p] = Body(compile_predicate, p)
  BY <1>4, Zenon
<1>6. \A p \in Predicates : compile_predicate[p] \in Compilations
  <2> DEFINE S == {p \in Predicates : compile_predicate[p] \in Compilations}
  <2>1. ASSUME NEW p \in Predicates, \A q \in Operands(p) : q \in S
        PROVE  p \in S
    BY <1>1, <1>5, <2>1, Zenon
  <2> HIDE DEF S
  <2>2. \A p \in Predicates : p \in S
    BY <2>1, TreeInduction, Zenon
  <2> QED
    BY <2>2, Zenon DEF S
<1>7. compile_predicate \in [Predicates -> Compilations]
  BY <1>4, <1>5, <1>6, Zenon
<1> QED
  BY <1>5, <1>7, Zenon DEF Body


-----------------------------------------------------------------------------
(* What compile_predicate accepts.                                         *)

\* The limits, for a tree at a depth with a number of nodes before it.
Fits(p, depth, before) ==
    /\ depth + Depth[p] <= MAX_PREDICATE_DEPTH + 1
    /\ before + Nodes[p] <= MAX_PREDICATE_NODES
    /\ LeavesAccepted[p]

Exact(c, p, depth, before) ==
    /\ c \in Results
    /\ c.ok <=> Fits(p, depth, before)
    /\ c.ok => c.nodes = before + Nodes[p]

\* What compile_predicate gives AND and OR, at a depth and with nodes before.
LEMMA BothAt ==
    ASSUME NEW left, NEW right, NEW depth \in Nat, NEW before \in Nat
    PROVE  CompiledBoth(left, right)[depth][before] =
               Within(depth, before, Joined(before + 1, left[depth + 1][before + 1], right[depth + 1]))
<1>1. CompiledBoth(left, right)[depth] = [b \in Nat |->
         Within(depth, b, Joined(b + 1, left[depth + 1][b + 1], right[depth + 1]))]
  BY Zenon DEF CompiledBoth
<1> QED
  BY <1>1, Zenon

\* What it gives NOT.
LEMMA NotAt ==
    ASSUME NEW inner, NEW depth \in Nat, NEW before \in Nat
    PROVE  CompiledNot(inner)[depth][before] = Within(depth, before, inner[depth + 1][before + 1])
<1>1. CompiledNot(inner)[depth] = [b \in Nat |-> Within(depth, b, inner[depth + 1][b + 1])]
  BY Zenon DEF CompiledNot
<1> QED
  BY <1>1, Zenon

\* What it gives a comparison or a test for NULL.
LEMMA LeafAt ==
    ASSUME NEW p, NEW accepted, NEW depth \in Nat, NEW before \in Nat
    PROVE  CompiledLeaf(p, accepted)[depth][before] =
               Within(depth, before, IF accepted THEN Compiled(before + 1, Parameters(p)) ELSE Refused)
<1>1. CompiledLeaf(p, accepted)[depth] = [b \in Nat |->
         Within(depth, b, IF accepted THEN Compiled(b + 1, Parameters(p)) ELSE Refused)]
  BY Zenon DEF CompiledLeaf
<1> QED
  BY <1>1, Zenon

\* A refusal and a compiled condition.
LEMMA Outcomes ==
    /\ ~Refused.ok
    /\ \A n, v : Compiled(n, v).ok /\ Compiled(n, v).nodes = n /\ Compiled(n, v).values = v
BY Zenon DEF Refused, Compiled

\* A tree is accepted exactly when it keeps the limits, and its nodes are counted.
LEMMA CompileExact ==
    \A p \in Predicates : \A depth, before \in Nat :
        Exact(compile_predicate[p][depth][before], p, depth, before)
<1> DEFINE Good(p) == \A depth, before \in Nat :
                         Exact(compile_predicate[p][depth][before], p, depth, before)
           S == {p \in Predicates : Good(p)}
<1>0. MAX_PREDICATE_DEPTH \in Nat /\ MAX_PREDICATE_NODES \in Nat
  BY LimitsAssumption, Zenon
<1>1. ASSUME NEW p \in Predicates, NEW depth \in Nat, NEW before \in Nat
      PROVE  compile_predicate[p][depth][before] \in Results
  <2>1. compile_predicate[p] \in [Nat -> [Nat -> Results]]
    BY CompileIs, Zenon DEF Compilations
  <2>2. compile_predicate[p][depth] \in [Nat -> Results]
    BY <2>1, Zenon
  <2> QED
    BY <2>2, Zenon
<1>2. ASSUME NEW p \in Predicates, \A q \in Operands(p) : q \in S,
             NEW depth \in Nat, NEW before \in Nat
      PROVE  Exact(compile_predicate[p][depth][before], p, depth, before)
  <2> DEFINE c == compile_predicate[p][depth][before]
  <2>1. c \in Results /\ depth + 1 \in Nat /\ before + 1 \in Nat
    BY <1>1
  <2>2. \A q \in Operands(p) : q \in Predicates /\ Good(q) /\ Nodes[q] \in Nat /\ Depth[q] \in Nat
    BY <1>2, NodesIs, DepthIs, OperandsAre, Zenon
  <2> HIDE DEF Good, S
  <2>3. CASE p.node \in {"And", "Or"}
    <3> DEFINE left == compile_predicate[p.left][depth + 1][before + 1]
               right == compile_predicate[p.right][depth + 1][left.nodes]
    <3>1. p.left \in Operands(p) /\ p.right \in Operands(p)
      BY <2>3, OperandsAre, Zenon
    <3>2. Exact(left, p.left, depth + 1, before + 1)
      BY <2>1, <2>2, <3>1, Zenon DEF Good
    <3>3. left.nodes \in Nat
      BY <3>2, Zenon DEF Exact, Results
    <3>4. Exact(right, p.right, depth + 1, left.nodes)
      BY <2>1, <2>2, <3>1, <3>3, Zenon DEF Good
    <3>5. c = Within(depth, before, Joined(before + 1, left, compile_predicate[p.right][depth + 1]))
      <4>1. compile_predicate[p] = CompiledBoth(compile_predicate[p.left], compile_predicate[p.right])
        BY <2>3, CompileIs, Zenon
      <4> QED
        BY <4>1, BothAt
    <3>6. /\ Nodes[p] = 1 + Nodes[p.left] + Nodes[p.right]
          /\ Depth[p] = 1 + Greatest(Depth[p.left], Depth[p.right])
          /\ LeavesAccepted[p] = (LeavesAccepted[p.left] /\ LeavesAccepted[p.right])
      BY <2>3, NodesIs, DepthIs, LeavesIs, Zenon
    <3> HIDE DEF left, right
    <3>7. Joined(before + 1, left, compile_predicate[p.right][depth + 1]) =
             IF left.ok /\ right.ok THEN Compiled(right.nodes, left.values \o right.values) ELSE Refused
      BY Zenon DEF Joined, NodesBefore, right
    <3>8. Fits(p, depth, before) <=> /\ ~(depth > MAX_PREDICATE_DEPTH \/ before + 1 > MAX_PREDICATE_NODES)
                                     /\ left.ok /\ right.ok
      <4>1. /\ left.ok <=> /\ depth + 1 + Depth[p.left] <= MAX_PREDICATE_DEPTH + 1
                           /\ before + 1 + Nodes[p.left] <= MAX_PREDICATE_NODES
                           /\ LeavesAccepted[p.left]
            /\ left.ok => left.nodes = before + 1 + Nodes[p.left]
        BY <3>2, Zenon DEF Exact, Fits
      <4>2. right.ok <=> /\ depth + 1 + Depth[p.right] <= MAX_PREDICATE_DEPTH + 1
                         /\ left.nodes + Nodes[p.right] <= MAX_PREDICATE_NODES
                         /\ LeavesAccepted[p.right]
        BY <3>4, Zenon DEF Exact, Fits
      <4>3. LeavesAccepted[p] <=> LeavesAccepted[p.left] /\ LeavesAccepted[p.right]
        BY <3>6, Zenon
      <4>4. /\ Nodes[p.left] \in Nat /\ Nodes[p.right] \in Nat
            /\ Depth[p.left] \in Nat /\ Depth[p.right] \in Nat
        BY <2>2, <3>1, Zenon
      <4>5. depth + Depth[p] <= MAX_PREDICATE_DEPTH + 1 <=>
               /\ depth + 1 + Depth[p.left] <= MAX_PREDICATE_DEPTH + 1
               /\ depth + 1 + Depth[p.right] <= MAX_PREDICATE_DEPTH + 1
        BY <1>0, <3>6, <4>4 DEF Greatest
      <4>6. left.ok => (left.nodes + Nodes[p.right] <= MAX_PREDICATE_NODES <=>
                        before + Nodes[p] <= MAX_PREDICATE_NODES)
        BY <1>0, <3>6, <4>1, <4>4
      <4>7. before + Nodes[p] <= MAX_PREDICATE_NODES =>
               before + 1 + Nodes[p.left] <= MAX_PREDICATE_NODES /\ ~(before + 1 > MAX_PREDICATE_NODES)
        BY <1>0, <3>6, <4>4
      <4>8. depth + 1 + Depth[p.left] <= MAX_PREDICATE_DEPTH + 1 => ~(depth > MAX_PREDICATE_DEPTH)
        BY <1>0, <4>4
      <4> QED
        BY <4>1, <4>2, <4>3, <4>5, <4>6, <4>7, <4>8, Zenon DEF Fits
    <3>9. left.ok /\ right.ok => right.nodes = before + Nodes[p]
      BY <2>2, <3>1, <3>2, <3>4, <3>6 DEF Exact
    <3> HIDE DEF c
    <3>10. c = IF Fits(p, depth, before) THEN Compiled(right.nodes, left.values \o right.values) ELSE Refused
      BY <3>5, <3>7, <3>8, Zenon DEF Within
    <3>11. CASE Fits(p, depth, before)
      <4>1. c = Compiled(right.nodes, left.values \o right.values)
        BY <3>10, <3>11, Zenon
      <4>2. c.ok /\ c.nodes = right.nodes
        BY <4>1, Outcomes, Zenon
      <4> QED
        BY <2>1, <3>8, <3>9, <3>11, <4>2, Zenon DEF Exact, c
    <3>12. CASE ~Fits(p, depth, before)
      <4>1. c = Refused
        BY <3>10, <3>12, Zenon
      <4>2. ~c.ok
        BY <4>1, Outcomes, Zenon
      <4> QED
        BY <2>1, <3>12, <4>2, Zenon DEF Exact, c
    <3> QED
      BY <3>11, <3>12, Zenon
  <2>4. CASE p.node = "Not"
    <3> DEFINE inner == compile_predicate[p.inner][depth + 1][before + 1]
    <3>1. p.inner \in Operands(p)
      BY <2>4, OperandsAre, Zenon
    <3>2. Exact(inner, p.inner, depth + 1, before + 1)
      BY <2>1, <2>2, <3>1, Zenon DEF Good
    <3>3. c = Within(depth, before, inner)
      <4>1. compile_predicate[p] = CompiledNot(compile_predicate[p.inner])
        BY <2>4, CompileIs, Zenon
      <4> QED
        BY <4>1, NotAt
    <3>4. /\ Nodes[p] = 1 + Nodes[p.inner] /\ Depth[p] = 1 + Depth[p.inner]
          /\ LeavesAccepted[p] = LeavesAccepted[p.inner]
      BY <2>4, NodesIs, DepthIs, LeavesIs, Zenon
    <3> HIDE DEF inner, c
    <3>5. Fits(p, depth, before) <=> /\ ~(depth > MAX_PREDICATE_DEPTH \/ before + 1 > MAX_PREDICATE_NODES)
                                     /\ inner.ok
      BY <1>0, <2>2, <3>1, <3>2, <3>4 DEF Exact, Fits
    <3>6. inner.ok => inner.nodes = before + Nodes[p]
      BY <2>2, <3>1, <3>2, <3>4 DEF Exact
    <3>7. CASE Fits(p, depth, before)
      <4>1. c = inner
        BY <3>3, <3>5, <3>7, Zenon DEF Within
      <4> QED
        BY <2>1, <3>5, <3>6, <3>7, <4>1, Zenon DEF Exact, c
    <3>8. CASE ~Fits(p, depth, before)
      <4> DEFINE over == depth > MAX_PREDICATE_DEPTH \/ before + 1 > MAX_PREDICATE_NODES
      <4>1. ASSUME over PROVE ~c.ok
        <5>1. c = Refused
          BY <3>3, <4>1, Zenon DEF Within
        <5> QED
          BY <5>1, Outcomes, Zenon
      <4>2. ASSUME ~over PROVE ~c.ok
        <5>1. c = inner
          BY <3>3, <4>2, Zenon DEF Within
        <5>2. ~inner.ok
          BY <3>5, <3>8, <4>2, Zenon
        <5> QED
          BY <5>1, <5>2, Zenon
      <4>3. ~c.ok
        BY <4>1, <4>2, Zenon
      <4> QED
        BY <2>1, <3>8, <4>3, Zenon DEF Exact, c
    <3> QED
      BY <3>7, <3>8, Zenon
  <2>5. CASE p.node \in {"Null", "Compare"}
    <3> DEFINE accepted == IF p.node = "Null" THEN NullAccepted(p) ELSE CompareAccepted(p)
    <3>1. compile_predicate[p] = CompiledLeaf(p, accepted)
      BY <2>5, CompileIs, Zenon
    <3>2. Nodes[p] = 1 /\ Depth[p] = 1 /\ LeavesAccepted[p] = accepted
      BY <2>5, NodesIs, DepthIs, LeavesIs, Zenon
    <3> HIDE DEF accepted
    <3>3. c = Within(depth, before, IF accepted THEN Compiled(before + 1, Parameters(p)) ELSE Refused)
      BY <3>1, LeafAt
    <3> HIDE DEF c
    <3>4. Fits(p, depth, before) <=> /\ ~(depth > MAX_PREDICATE_DEPTH \/ before + 1 > MAX_PREDICATE_NODES)
                                     /\ accepted
      BY <1>0, <3>2 DEF Fits
    <3>5. CASE Fits(p, depth, before)
      <4>1. c = Compiled(before + 1, Parameters(p))
        BY <3>3, <3>4, <3>5, Zenon DEF Within
      <4>2. c.ok /\ c.nodes = before + Nodes[p]
        BY <3>2, <4>1, Outcomes, Zenon
      <4> QED
        BY <2>1, <3>5, <4>2, Zenon DEF Exact, c
    <3>6. CASE ~Fits(p, depth, before)
      <4>1. c = Refused
        BY <3>3, <3>4, <3>6, Zenon DEF Within
      <4>2. ~c.ok
        BY <4>1, Outcomes, Zenon
      <4> QED
        BY <2>1, <3>6, <4>2, Zenon DEF Exact, c
    <3> QED
      BY <3>5, <3>6, Zenon
  <2> QED
    BY <2>3, <2>4, <2>5, OperandsAre, Zenon
<1>3. ASSUME NEW p \in Predicates, \A q \in Operands(p) : q \in S
      PROVE  p \in S
  BY <1>2, <1>3, Zenon
<1> HIDE DEF S
<1>4. \A p \in Predicates : p \in S
  BY <1>3, TreeInduction, Zenon
<1> QED
  BY <1>4, Zenon DEF S

-----------------------------------------------------------------------------
(* What the engine makes of a compiled condition                           *)

\* The parameters that follow the first `used` ones begin with the values.
Receives(parameters, used, given) ==
    \A i \in 1 .. Len(given) : parameters[used + i] = given[i]

\* compile_predicate gives results.
LEMMA ResultIs ==
    ASSUME NEW p \in Predicates, NEW depth \in Nat, NEW before \in Nat
    PROVE  compile_predicate[p][depth][before] \in Results
<1>1. compile_predicate[p] \in [Nat -> [Nat -> Results]]
  BY CompileIs, Zenon DEF Compilations
<1>2. compile_predicate[p][depth] \in [Nat -> Results]
  BY <1>1, Zenon
<1> QED
  BY <1>2, Zenon

\* What AND and OR bind: what their operands bind, the left one first.
BindsBoth(p, c) ==
    \E d, m, n \in Nat :
        /\ compile_predicate[p.left][d][m].ok
        /\ compile_predicate[p.right][d][n].ok
        /\ c.values = compile_predicate[p.left][d][m].values \o compile_predicate[p.right][d][n].values

\* compile_predicate binds the values of AND and OR so.
LEMMA BothBind ==
    ASSUME NEW p \in Predicates, p.node \in {"And", "Or"}, NEW depth \in Nat, NEW before \in Nat,
           compile_predicate[p][depth][before].ok
    PROVE  BindsBoth(p, compile_predicate[p][depth][before])
<1> DEFINE c == compile_predicate[p][depth][before]
           left == compile_predicate[p.left][depth + 1][before + 1]
           right == compile_predicate[p.right][depth + 1][left.nodes]
<1>1. compile_predicate[p] = CompiledBoth(compile_predicate[p.left], compile_predicate[p.right])
  BY CompileIs, Zenon
<1>2. c = Within(depth, before, Joined(before + 1, left, compile_predicate[p.right][depth + 1]))
  BY <1>1, BothAt
<1>3. p.left \in Predicates /\ depth + 1 \in Nat /\ before + 1 \in Nat
  BY OperandsAre
<1>4. left.nodes \in Nat
  <2>1. left \in Results
    BY <1>3, ResultIs, Zenon
  <2> QED
    BY <2>1, Zenon DEF Results
<1>5. c.ok
  BY Zenon
<1> HIDE DEF c, left, right
<1>6. Joined(before + 1, left, compile_predicate[p.right][depth + 1]) =
         IF left.ok /\ right.ok THEN Compiled(right.nodes, left.values \o right.values) ELSE Refused
  BY Zenon DEF Joined, NodesBefore, right
<1>7. c # Refused
  BY <1>5, Outcomes, Zenon
<1>8. c = Joined(before + 1, left, compile_predicate[p.right][depth + 1])
  BY <1>2, <1>7, Zenon DEF Within
<1>9. left.ok /\ right.ok /\ c = Compiled(right.nodes, left.values \o right.values)
  BY <1>6, <1>7, <1>8, Zenon
<1>10. c.values = left.values \o right.values
  BY <1>9, Outcomes, Zenon
<1> QED
  BY <1>3, <1>4, <1>9, <1>10, Zenon DEF BindsBoth, c, left, right

\* What NOT binds: what its operand binds.
LEMMA NotBinds ==
    ASSUME NEW p \in Predicates, p.node = "Not", NEW depth \in Nat, NEW before \in Nat,
           compile_predicate[p][depth][before].ok
    PROVE  compile_predicate[p][depth][before] = compile_predicate[p.inner][depth + 1][before + 1]
<1> DEFINE c == compile_predicate[p][depth][before]
           inner == compile_predicate[p.inner][depth + 1][before + 1]
<1>1. compile_predicate[p] = CompiledNot(compile_predicate[p.inner])
  BY CompileIs, Zenon
<1>2. c = Within(depth, before, inner)
  BY <1>1, NotAt
<1>3. c.ok
  BY Zenon
<1> HIDE DEF c, inner
<1>4. c # Refused
  BY <1>3, Outcomes, Zenon
<1>5. c = inner
  BY <1>2, <1>4, Zenon DEF Within
<1> QED
  BY <1>5, Zenon DEF c, inner

\* What a comparison or a test for NULL binds.
LEMMA LeafBinds ==
    ASSUME NEW p \in Predicates, p.node \in {"Null", "Compare"}, NEW depth \in Nat, NEW before \in Nat,
           compile_predicate[p][depth][before].ok
    PROVE  compile_predicate[p][depth][before].values = Parameters(p)
<1> DEFINE c == compile_predicate[p][depth][before]
           accepted == IF p.node = "Null" THEN NullAccepted(p) ELSE CompareAccepted(p)
<1>1. compile_predicate[p] = CompiledLeaf(p, accepted)
  BY CompileIs, Zenon
<1> HIDE DEF accepted
<1>2. c = Within(depth, before, IF accepted THEN Compiled(before + 1, Parameters(p)) ELSE Refused)
  BY <1>1, LeafAt
<1>3. c.ok
  BY Zenon
<1> HIDE DEF c
<1>4. c # Refused
  BY <1>3, Outcomes, Zenon
<1>5. c = Compiled(before + 1, Parameters(p))
  BY <1>2, <1>4, Zenon DEF Within
<1>6. c.values = Parameters(p)
  BY <1>5, Outcomes, Zenon
<1> QED
  BY <1>6, Zenon DEF c

\* A statement that receives the values of two conditions receives those of each.
LEMMA ReceivesBoth ==
    ASSUME NEW parameters, NEW used \in Nat, NEW S, NEW s \in Seq(S), NEW t \in Seq(S),
           Receives(parameters, used, s \o t)
    PROVE  /\ Receives(parameters, used, s)
           /\ Receives(parameters, used + Len(s), t)
           /\ used + Len(s) \in Nat
           /\ used + Len(s \o t) = used + Len(s) + Len(t)
<1>1. /\ Len(s) \in Nat /\ Len(t) \in Nat
      /\ Len(s \o t) = Len(s) + Len(t)
      /\ \A i \in 1 .. Len(s) + Len(t) :
            (s \o t)[i] = IF i <= Len(s) THEN s[i] ELSE t[i - Len(s)]
  BY ConcatProperties, LenProperties, Zenon
<1>2. \A i \in 1 .. Len(s) + Len(t) : parameters[used + i] = (s \o t)[i]
  BY <1>1, Zenon DEF Receives
<1>3. ASSUME NEW i \in 1 .. Len(s)
      PROVE  parameters[used + i] = s[i]
  <2>1. i \in 1 .. Len(s) + Len(t) /\ i <= Len(s)
    BY <1>1
  <2> QED
    BY <1>1, <1>2, <2>1, Zenon
<1>4. ASSUME NEW i \in 1 .. Len(t)
      PROVE  parameters[used + Len(s) + i] = t[i]
  <2>1. i + Len(s) \in 1 .. Len(s) + Len(t) /\ ~(i + Len(s) <= Len(s))
    BY <1>1
  <2>2. (i + Len(s)) - Len(s) = i /\ used + (i + Len(s)) = used + Len(s) + i
    BY <1>1
  <2> QED
    BY <1>1, <1>2, <2>1, <2>2, Zenon
<1> QED
  BY <1>1, <1>3, <1>4 DEF Receives


\* The engine tests a column as a comparison or a test for NULL means it.
LEMMA LeafMeans ==
    ASSUME NEW parameters, NEW row, NEW p \in Predicates, p.node \in {"Null", "Compare"},
           NEW used \in Nat, Receives(parameters, used, Parameters(p))
    PROVE  Tested(Text(p), row[Position(p.field)], parameters)[used] =
               [truth |-> Meaning(row)[p], used |-> used + Len(Parameters(p))]
<1> DEFINE column == row[Position(p.field)]
<1>1. Tested(Text(p), column, parameters)[used] =
         CASE Text(p) = "IsNull" -> [truth |-> Truth(column = Null), used |-> used]
           [] Text(p) = "IsNotNull" -> [truth |-> Truth(column # Null), used |-> used]
           [] OTHER -> [truth |-> Compared(Text(p), column, parameters[used + 1]), used |-> used + 1]
  BY Zenon DEF Tested
<1>2. p.node = "Null" => Meaning(row)[p] = Truth((column = Null) = (p.comparison = "IsNull"))
  BY MeaningIs, Zenon
<1>3. p.node = "Compare" =>
         Meaning(row)[p] = IF p.value = Null THEN Truth((column = Null) = (p.comparison = "Equal"))
                           ELSE Compared(p.comparison, column, p.value)
  BY MeaningIs, Zenon
<1> HIDE DEF column
<1>4. ASSUME Parameters(p) = <<>>
      PROVE  used + Len(Parameters(p)) = used
  BY <1>4
<1>5. ASSUME NEW test, Text(p) = IF test THEN "IsNull" ELSE "IsNotNull", test \in BOOLEAN,
             Meaning(row)[p] = Truth((column = Null) = test), Parameters(p) = <<>>
      PROVE  Tested(Text(p), column, parameters)[used] =
                [truth |-> Meaning(row)[p], used |-> used + Len(Parameters(p))]
  <2>1. CASE test
    <3>1. Meaning(row)[p] = Truth(column = Null) /\ Text(p) = "IsNull"
      BY <1>5, <2>1, Zenon DEF Truth
    <3> QED
      BY <1>1, <1>4, <1>5, <3>1, Zenon
  <2>2. CASE ~test
    <3>1. Meaning(row)[p] = Truth(column # Null) /\ Text(p) = "IsNotNull"
      BY <1>5, <2>2, Zenon DEF Truth
    <3> QED
      BY <1>1, <1>4, <1>5, <3>1, Zenon
  <2> QED
    BY <2>1, <2>2, Zenon
<1>6. CASE p.node = "Null"
  <2>1. Parameters(p) = <<>> /\ Text(p) = IF p.comparison = "IsNull" THEN "IsNull" ELSE "IsNotNull"
    BY <1>6, TextIs, Zenon DEF Parameters
  <2> QED
    BY <1>2, <1>5, <1>6, <2>1, Zenon DEF column
<1>7. CASE p.node = "Compare" /\ p.value = Null
  <2>1. Parameters(p) = <<>> /\ Text(p) = IF p.comparison = "Equal" THEN "IsNull" ELSE "IsNotNull"
    BY <1>7, TextIs, Zenon DEF Parameters
  <2> QED
    BY <1>3, <1>5, <1>7, <2>1, Zenon DEF column
<1>8. CASE p.node = "Compare" /\ p.value # Null
  <2>1. Parameters(p) = <<p.value>>
    BY <1>8, Zenon DEF Parameters
  <2>2. parameters[used + 1] = p.value /\ Len(Parameters(p)) = 1
    <3>1. Len(Parameters(p)) = 1 /\ Parameters(p)[1] = p.value
      BY <2>1
    <3> QED
      BY <3>1 DEF Receives
  <2>3. Text(p) = p.comparison /\ Text(p) # "IsNull" /\ Text(p) # "IsNotNull"
    BY <1>8, TextIs, Zenon
  <2>4. Tested(Text(p), column, parameters)[used] =
           [truth |-> Compared(Text(p), column, parameters[used + 1]), used |-> used + 1]
    BY <1>1, <2>3, Zenon
  <2>5. Meaning(row)[p] = Compared(p.comparison, column, p.value)
    BY <1>3, <1>8, Zenon
  <2> QED
    BY <2>2, <2>3, <2>4, <2>5, Zenon DEF column
<1> QED
  BY <1>6, <1>7, <1>8, Zenon

\* The engine's evaluation of a compiled condition, which begins where the
\* parameters of the condition do, is its meaning, and ends where they do.
ToldOf(p, c, used, parameters, row) ==
    c.ok /\ Receives(parameters, used, c.values) =>
        Evaluation(parameters, row)[p][used] =
            [truth |-> Meaning(row)[p], used |-> used + Len(c.values)]
Told(p, parameters, row) ==
    \A depth, before, used \in Nat :
        ToldOf(p, compile_predicate[p][depth][before], used, parameters, row)

\* compile_predicate's text and values, taken together, say what the tree means.
LEMMA EvaluationMeans ==
    ASSUME NEW parameters, NEW row
    PROVE  \A p \in Predicates : Told(p, parameters, row)
<1> DEFINE S == {p \in Predicates : Told(p, parameters, row)}
           E == Evaluation(parameters, row)
           M == Meaning(row)
<1>1. ASSUME NEW p \in Predicates, \A q \in Operands(p) : q \in S,
             NEW depth \in Nat, NEW before \in Nat, NEW used \in Nat
      PROVE  ToldOf(p, compile_predicate[p][depth][before], used, parameters, row)
  <2> SUFFICES ASSUME compile_predicate[p][depth][before].ok,
                      Receives(parameters, used, compile_predicate[p][depth][before].values)
               PROVE  E[p][used] = [truth |-> M[p],
                                    used |-> used + Len(compile_predicate[p][depth][before].values)]
    BY Zenon DEF ToldOf
  <2> DEFINE v == compile_predicate[p][depth][before].values
  <2>1. \A q \in Operands(p) : q \in Predicates /\ Told(q, parameters, row)
    BY <1>1, Zenon
  <2>2. CASE p.node \in {"And", "Or"}
    <3>1. p.left \in Operands(p) /\ p.right \in Operands(p)
      BY <2>2, OperandsAre, Zenon
    <3>2. PICK d \in Nat, m \in Nat, n \in Nat :
             /\ compile_predicate[p.left][d][m].ok
             /\ compile_predicate[p.right][d][n].ok
             /\ v = compile_predicate[p.left][d][m].values \o compile_predicate[p.right][d][n].values
      <4>1. BindsBoth(p, compile_predicate[p][depth][before])
        BY <1>1, <2>2, BothBind, Zenon
      <4> QED
        BY <4>1, Zenon DEF BindsBoth
    <3> DEFINE s == compile_predicate[p.left][d][m].values
               t == compile_predicate[p.right][d][n].values
    <3>3. /\ s \in Seq({q.value : q \in Predicates})
          /\ t \in Seq({q.value : q \in Predicates})
      <4>1. /\ compile_predicate[p.left][d][m] \in Results
            /\ compile_predicate[p.right][d][n] \in Results
        BY <2>1, <3>1, ResultIs, Zenon
      <4> QED
        BY <4>1, Zenon DEF Results
    <3>4. /\ Receives(parameters, used, s) /\ Receives(parameters, used + Len(s), t)
          /\ used + Len(s) \in Nat /\ used + Len(v) = used + Len(s) + Len(t)
      <4> HIDE DEF s, t
      <4>1. v = s \o t
        BY <3>2, Zenon DEF s, t
      <4>2. Receives(parameters, used, s \o t)
        BY <1>1, <4>1, Zenon
      <4> QED
        BY <3>3, <4>1, <4>2, ReceivesBoth
    <3>5. E[p.left][used] = [truth |-> M[p.left], used |-> used + Len(s)]
      <4>1. Told(p.left, parameters, row)
        BY <2>1, <3>1, Zenon
      <4>2. ToldOf(p.left, compile_predicate[p.left][d][m], used, parameters, row)
        BY <3>4, <4>1, Zenon DEF Told
      <4> QED
        BY <3>2, <3>4, <4>2, Zenon DEF ToldOf
    <3>6. E[p.right][used + Len(s)] = [truth |-> M[p.right], used |-> used + Len(s) + Len(t)]
      <4>1. Told(p.right, parameters, row)
        BY <2>1, <3>1, Zenon
      <4>2. ToldOf(p.right, compile_predicate[p.right][d][n], used + Len(s), parameters, row)
        BY <3>4, <4>1, Zenon DEF Told
      <4> QED
        BY <3>2, <3>4, <4>2, Zenon DEF ToldOf
    <3>7. E[p] = Connected(Text(p), E[p.left], E[p.right]) /\ Text(p) = p.node
      BY <2>2, EvaluationIs, TextIs
    <3>8. M[p] = IF p.node = "And" THEN Least(M[p.left], M[p.right]) ELSE Greatest(M[p.left], M[p.right])
      BY <2>2, MeaningIs, Zenon
    <3> HIDE DEF E, M, s, t, v
    <3>9. Connected(Text(p), E[p.left], E[p.right])[used] =
             [truth |-> IF p.node = "And" THEN Least(M[p.left], M[p.right])
                                          ELSE Greatest(M[p.left], M[p.right]),
              used |-> used + Len(s) + Len(t)]
      <4> DEFINE first == E[p.left][used]
                 second == E[p.right][first.used]
      <4>1. Connected(Text(p), E[p.left], E[p.right])[used] =
               [truth |-> IF Text(p) = "And" THEN Least(first.truth, second.truth)
                                             ELSE Greatest(first.truth, second.truth),
                used |-> second.used]
        BY Zenon DEF Connected
      <4>2. first.truth = M[p.left] /\ first.used = used + Len(s)
        BY <3>5
      <4>3. second.truth = M[p.right] /\ second.used = used + Len(s) + Len(t)
        BY <3>6, <4>2
      <4> HIDE DEF first, second
      <4> QED
        BY <3>7, <4>1, <4>2, <4>3, Zenon
    <3> QED
      BY <3>4, <3>7, <3>8, <3>9, Zenon DEF v
  <2>3. CASE p.node = "Not"
    <3>1. p.inner \in Operands(p) /\ depth + 1 \in Nat /\ before + 1 \in Nat
      BY <2>3, OperandsAre
    <3>2. compile_predicate[p][depth][before] = compile_predicate[p.inner][depth + 1][before + 1]
      BY <1>1, <2>3, NotBinds, Zenon
    <3>3. E[p.inner][used] = [truth |-> M[p.inner], used |-> used + Len(v)]
      <4>1. Told(p.inner, parameters, row)
        BY <2>1, <3>1, Zenon
      <4>2. /\ compile_predicate[p.inner][depth + 1][before + 1].ok
            /\ Receives(parameters, used, compile_predicate[p.inner][depth + 1][before + 1].values)
        BY <1>1, <3>2, Zenon
      <4>3. E[p.inner][used] = [truth |-> M[p.inner],
               used |-> used + Len(compile_predicate[p.inner][depth + 1][before + 1].values)]
        <5>1. ToldOf(p.inner, compile_predicate[p.inner][depth + 1][before + 1], used, parameters, row)
          BY <3>1, <4>1, Zenon DEF Told
        <5> QED
          BY <4>2, <5>1, Zenon DEF ToldOf
      <4> QED
        BY <3>2, <4>3, Zenon
    <3>4. E[p] = Negated(E[p.inner])
      BY <2>3, EvaluationIs, TextIs
    <3>5. M[p] = 2 - M[p.inner]
      BY <2>3, MeaningIs, Zenon
    <3> HIDE DEF E, M, v
    <3> QED
      BY <3>3, <3>4, <3>5 DEF Negated, v
  <2>4. CASE p.node \in {"Null", "Compare"}
    <3>1. v = Parameters(p)
      BY <1>1, <2>4, LeafBinds, Zenon
    <3>2. E[p] = Tested(Text(p), row[Position(p.field)], parameters)
      BY <2>4, EvaluationIs, TextIs, Zenon
    <3>3. Receives(parameters, used, Parameters(p))
      BY <1>1, <3>1, Zenon
    <3>4. Tested(Text(p), row[Position(p.field)], parameters)[used] =
             [truth |-> M[p], used |-> used + Len(Parameters(p))]
      BY <2>4, <3>3, LeafMeans, Zenon
    <3> HIDE DEF E, M, v
    <3> QED
      BY <3>1, <3>2, <3>4, Zenon DEF v
  <2> QED
    BY <2>2, <2>3, <2>4, OperandsAre, Zenon
<1>2. ASSUME NEW p \in Predicates, \A q \in Operands(p) : q \in S
      PROVE  p \in S
  <2>1. Told(p, parameters, row)
    BY <1>1, <1>2, Zenon DEF Told
  <2> QED
    BY <2>1, Zenon
<1> HIDE DEF S
<1>3. \A p \in Predicates : p \in S
  BY <1>2, TreeInduction, Zenon
<1> QED
  BY <1>3, Zenon DEF S

=============================================================================
