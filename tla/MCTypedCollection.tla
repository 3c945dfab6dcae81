-------------------------- MODULE MCTypedCollection -------------------------
(***************************************************************************)
(* An instance of TypedCollection for TLC: a collection with a key of a    *)
(* wide unsigned type between an optional narrow signed field and an       *)
(* optional real one, over engine integers of three bits.                  *)
(***************************************************************************)
EXTENDS TypedCollection, FiniteSetsExt

CONSTANTS single, double, infinite, nan, text, blob

MCIntegerMin == -4
MCNarrow == [x \in {single, double, infinite, nan} |-> IF x = double THEN infinite ELSE x]

Field(id, T, key) == [id |-> id, type |-> T, primary_key |-> key]
Unsigned == [kind |-> "unsigned", lo |-> 0, hi |-> 7, option |-> FALSE]
OptionSigned == [kind |-> "signed", lo |-> -2, hi |-> 1, option |-> TRUE]
OptionReal == [kind |-> "f64", lo |-> 0, hi |-> 0, option |-> TRUE]

Id == Field("id", Unsigned, TRUE)
N == Field("n", OptionSigned, FALSE)
Stranger == Field("x", OptionSigned, FALSE)
Real == Field("r", OptionReal, FALSE)
MCFields == <<N, Id, Real>>

MCRecords ==
    {<<n, 1, double>> : n \in {0, 1, None}} \union {<<n, 2, double>> : n \in {0, None}}
    \union {<<0, 5, None>>, <<0, 1, nan>>}
MCRawRows == {<<Value("Integer", 3), Value("Integer", 1), Null>>}

\* Comparisons, with one of each kind that is refused.
Leaves == {Compare(Id, "Equal", 2), Compare(N, "Less", 1), Compare(N, "NotEqual", None)}
OtherLeaves ==
    {Compare(N, "GreaterOrEqual", None), Compare(N, "Equal", None), Compare(N, "NotEqual", 0),
     Compare(Id, "Greater", 1), Compare(Id, "LessOrEqual", 1),
     Compare(N, "GreaterOrEqual", 1), Compare(Stranger, "Equal", 0),
     [Compare(Id, "Equal", 1) EXCEPT !.value = Null],
     [Compare(Id, "Equal", 1) EXCEPT !.value = Value("Text", text)],
     IsNull(N, "IsNull"), IsNull(N, "IsNotNull"), IsNull(Id, "IsNull"), IsNull(Stranger, "IsNull")}

\* Every tree of up to three levels that is built from two of the leaves, and
\* those of a comparison beside them; the limits are four nodes and three levels.
Pairs == {And(p, q) : p, q \in Leaves} \union {Or(p, q) : p, q \in Leaves}
Negations == {Not(p) : p \in Leaves \union Pairs} \union {Not(Not(p)) : p \in Leaves}
MCPredicates ==
    Leaves \union OtherLeaves \union Pairs \union Negations
    \union {Filter(p, q) : p \in Negations, q \in Leaves}
    \union {Or(p, q) : p \in Leaves, q \in Negations}
    \union {And(p, q) : p \in Leaves, q \in Pairs}

RECURSIVE MCHeightOf(_)
MCHeightOf(p) == 1 + Max({0} \union {MCHeightOf(q) : q \in Operands(p)})
MCHeight == [p \in MCPredicates |-> MCHeightOf(p)]

\* The queries of this instance compare and sort integers only.
MCLess(a, b) == a.class = "Integer" /\ b.class = "Integer" /\ a.v < b.v

Descending(field) == [field |-> field, direction |-> "Descending"]
MCOrders ==
    {<<>>, <<Ascending(N)>>, <<Descending(N)>>, <<Descending(Id)>>,
     <<Descending(N), Descending(Id)>>, <<Ascending(N), Descending(N)>>,
     <<Ascending(Stranger)>>, <<Ascending(N), Ascending(Id), Descending(N)>>}

\* Every predicate without an order, every order with at most one comparison.
MCDrafts ==
    [predicate : MCPredicates \union {None}, order : {<<>>}]
    \union [predicate : {None, Compare(N, "Less", 1)}, order : MCOrders]

=============================================================================
