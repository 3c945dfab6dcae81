---------------------------- MODULE FieldValues -----------------------------
(***************************************************************************)
(* The conversions between the Rust types of a record and the values of    *)
(* the engine: the implementations of FieldValue in                        *)
(* crates/csgdb/src/collection.rs.  A conversion that may fail is a pair   *)
(* of operators: whether it succeeds, and its result when it does.         *)
(***************************************************************************)
EXTENDS Integers

CONSTANTS
    IntegerMin, IntegerMax,  \* the range of i64, the engine's integers
    Doubles,                 \* values of f64
    Singles,                 \* those that are values of f32
    Finite,                  \* the finite ones
    Nans,                    \* those that are not a number
    Narrow,                  \* the cast from f64 to f32, as a function
    Texts, Blobs,
    None                     \* None of an Option

ASSUME RangeAssumption ==
    IntegerMin \in Int /\ IntegerMax \in Int /\ IntegerMin < 0 /\ IntegerMax > 1

ASSUME CastAssumption ==
    /\ Singles \subseteq Doubles
    /\ Nans \subseteq Doubles
    /\ Narrow \in [Doubles -> Singles]
    /\ \A x \in Singles : Narrow[x] = x

ASSUME NoneAssumption ==
    None \notin Int \union BOOLEAN \union Doubles \union Texts \union Blobs

\* A field type: what kind of value, the range of an integer, and whether it is
\* wrapped in an Option.  Signed types are no wider than i64; u64 is.
FieldTypes ==
    {T \in [kind : {"signed", "unsigned", "bool", "f64", "f32", "String", "Vec<u8>"},
            lo : Int, hi : Int, option : BOOLEAN] :
        /\ T.kind = "signed" => IntegerMin <= T.lo /\ T.hi <= IntegerMax
        /\ T.kind = "unsigned" => T.lo = 0}

\* The values of the type without its Option.
Plains(T) ==
    CASE T.kind \in {"signed", "unsigned"} -> T.lo .. T.hi
      [] T.kind = "bool" -> BOOLEAN
      [] T.kind = "f64" -> Doubles
      [] T.kind = "f32" -> Singles
      [] T.kind = "String" -> Texts
      [] T.kind = "Vec<u8>" -> Blobs

RustValues(T) == Plains(T) \union (IF T.option THEN {None} ELSE {})

\* Value, the engine's values.
Null == [class |-> "Null", v |-> 0]
Value(class, v) == [class |-> class, v |-> v]

COLUMN_TYPE(T) ==
    CASE T.kind \in {"signed", "unsigned", "bool"} -> "Integer"
      [] T.kind \in {"f64", "f32"} -> "Real"
      [] T.kind = "String" -> "Text"
      [] T.kind = "Vec<u8>" -> "Blob"

\* to_value
Encodes(T, x) == T.kind = "unsigned" /\ x # None => x <= IntegerMax
Encoded(T, x) ==
    IF x = None THEN Null
    ELSE Value(COLUMN_TYPE(T), IF T.kind = "bool" THEN (IF x THEN 1 ELSE 0) ELSE x)

\* from_value
DecodesPlain(T, value) ==
    /\ value.class = COLUMN_TYPE(T)
    /\ T.kind \in {"signed", "unsigned"} => T.lo <= value.v /\ value.v <= T.hi
    /\ T.kind = "bool" => value.v \in {0, 1}
    /\ T.kind = "f32" => ~(value.v \in Finite /\ Narrow[value.v] \notin Finite)

Decodes(T, value) == (T.option /\ value.class = "Null") \/ DecodesPlain(T, value)

Decoded(T, value) ==
    IF T.option /\ value.class = "Null" THEN None
    ELSE IF T.kind = "bool" THEN value.v = 1
    ELSE IF T.kind = "f32" THEN Narrow[value.v]
    ELSE value.v

=============================================================================
