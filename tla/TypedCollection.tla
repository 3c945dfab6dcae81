-------------------------- MODULE TypedCollection ---------------------------
(***************************************************************************)
(* Typed queries over the records of one collection: QueryDraft,           *)
(* CollectionQuery and their compilation (crates/csgdb/src/query.rs).  The *)
(* engine is external: it numbers the parameters of a statement from left  *)
(* to right, evaluates conditions in three-valued logic and returns rows   *)
(* that its ORDER BY does not tell apart in any order.                     *)
(***************************************************************************)
EXTENDS RecordStore

CONSTANTS
    Predicates,        \* the predicate trees callers build, with their operands
    Height,            \* a number for each that is greater than its operands'
    Drafts,            \* query drafts: [predicate, order]; an order is a sequence
                       \* of [field, direction]
    Limits,
    MAX_QUERY_LIMIT, MAX_PREDICATE_NODES, MAX_PREDICATE_DEPTH, MAX_QUERY_ORDER_FIELDS,
    Less(_, _)         \* the engine's order on the values of a column

VARIABLE plan          \* a finished query, or None

vars == <<table, plan, answer, wrote>>

Init == RecordInit /\ plan = None

InSchema(field) == \E i \in DOMAIN Fields : Fields[i] = field
Position(field) == CHOOSE i \in DOMAIN Fields : Fields[i] = field

-----------------------------------------------------------------------------
(* Predicates.  Callers build trees with the operators of this section; a  *)
(* comparison is built only from a value that to_value accepts.            *)

Compare(field, comparison, x) ==
    [node |-> "Compare", field |-> field, comparison |-> comparison,
     value |-> Encoded(field.type, x)]
IsNull(field, comparison) == [node |-> "Null", field |-> field, comparison |-> comparison]
And(p, q) == [node |-> "And", left |-> p, right |-> q]
Or(p, q) == [node |-> "Or", left |-> p, right |-> q]
Not(p) == [node |-> "Not", inner |-> p]

\* QueryDraft::filter
Filter(predicate, p) == IF predicate = None THEN p ELSE And(predicate, p)

Operands(p) ==
    CASE p.node \in {"And", "Or"} -> {p.left, p.right}
      [] p.node = "Not" -> {p.inner}
      [] OTHER -> {}

Orderings == {"Less", "LessOrEqual", "Greater", "GreaterOrEqual"}
NullTests == {"IsNull", "IsNotNull"}

\* PredicateNode owns its operands, so a tree is finite.
ASSUME PredicatesAssumption ==
    /\ Height \in [Predicates -> Nat]
    /\ \A p \in Predicates :
          /\ p.node \in {"Compare", "Null", "And", "Or", "Not"}
          /\ p.node = "Compare" => p.comparison \in Orderings \union {"Equal", "NotEqual"}
          /\ p.node = "Null" => p.comparison \in NullTests
          /\ \A q \in Operands(p) : q \in Predicates /\ Height[q] < Height[p]

ASSUME DraftsAssumption ==
    \A draft \in Drafts :
        /\ draft.predicate \in Predicates \union {None}
        /\ draft.order \in Seq({draft.order[i] : i \in DOMAIN draft.order})

ASSUME LimitsAssumption ==
    /\ Limits \subseteq Nat
    /\ {MAX_QUERY_LIMIT, MAX_PREDICATE_NODES, MAX_PREDICATE_DEPTH,
        MAX_QUERY_ORDER_FIELDS} \subseteq Nat

\* validate_bound_value
BoundValueAccepted(field, value) ==
    IF value = Null THEN Nullable(field)
    ELSE /\ value.class = COLUMN_TYPE(field.type)
         /\ value.class = "Real" => value.v \in Finite

\* A comparison with NULL becomes IS NULL or IS NOT NULL; there is no ordering.
CompareAccepted(p) ==
    /\ InSchema(p.field)
    /\ BoundValueAccepted(p.field, p.value)
    /\ p.comparison \in Orderings => p.value # Null

NullAccepted(p) == InSchema(p.field) /\ Nullable(p.field)

\* What compile_predicate writes for a node; the parentheses around it keep the
\* tree, so the text of a condition is that of its nodes.  A comparison with NULL
\* takes no parameter, any other takes one.
Text(p) ==
    CASE p.node = "Compare" ->
           IF p.value # Null THEN p.comparison
           ELSE IF p.comparison = "Equal" THEN "IsNull" ELSE "IsNotNull"
      [] p.node = "Null" -> p.comparison
      [] OTHER -> p.node
Parameters(p) == IF p.node = "Compare" /\ p.value # Null THEN <<p.value>> ELSE <<>>

Refused == [ok |-> FALSE, nodes |-> 0, values |-> <<>>]
Compiled(nodes, parameters) == [ok |-> TRUE, nodes |-> nodes, values |-> parameters]

\* Mutant: each operand counts its own nodes only.
NodesOfPath(nodes, left) == nodes

\* The nodes there are before the right operand of AND and OR.
NodesBefore(nodes, left) == left.nodes

\* Mutant: the parameters of the right operand are bound first.
JoinedSwapped(nodes, left, compileRight) ==
    LET right == compileRight[NodesBefore(nodes, left)]
    IN IF left.ok /\ right.ok THEN Compiled(right.nodes, right.values \o left.values)
       ELSE Refused

\* compile_predicate, the operands of AND and OR: left before right, with the
\* parameters in that order and one count of nodes.
Joined(nodes, left, compileRight) ==
    LET right == compileRight[NodesBefore(nodes, left)]
    IN IF left.ok /\ right.ok THEN Compiled(right.nodes, left.values \o right.values)
       ELSE Refused

\* compile_predicate is called at a depth and with a number of nodes before: it
\* gives a node a function of the two, made of those of its operands.
Within(depth, before, result) ==
    IF depth > MAX_PREDICATE_DEPTH \/ before + 1 > MAX_PREDICATE_NODES THEN Refused ELSE result

CompiledLeaf(p, accepted) == [depth \in Nat |-> [before \in Nat |->
    Within(depth, before, IF accepted THEN Compiled(before + 1, Parameters(p)) ELSE Refused)]]
CompiledBoth(left, right) == [depth \in Nat |-> [before \in Nat |->
    Within(depth, before, Joined(before + 1, left[depth + 1][before + 1], right[depth + 1]))]]
CompiledNot(inner) == [depth \in Nat |-> [before \in Nat |->
    Within(depth, before, inner[depth + 1][before + 1])]]

compile_predicate[p \in Predicates] ==
    CASE p.node \in {"And", "Or"} ->
           CompiledBoth(compile_predicate[p.left], compile_predicate[p.right])
      [] p.node = "Not" -> CompiledNot(compile_predicate[p.inner])
      [] p.node = "Null" -> CompiledLeaf(p, NullAccepted(p))
      [] p.node = "Compare" -> CompiledLeaf(p, CompareAccepted(p))

\* The WHERE clause of a draft, which may have no predicate.
Where(predicate) ==
    IF predicate = None THEN Compiled(0, <<>>) ELSE compile_predicate[predicate][1][0]

OrderAccepted(order) ==
    /\ Len(order) <= MAX_QUERY_ORDER_FIELDS
    /\ \A i \in DOMAIN order : InSchema(order[i].field)
    /\ \A i, j \in DOMAIN order : order[i].field = order[j].field => i = j

Ascending(field) == [field |-> field, direction |-> "Ascending"]
OrdersBy(order, field) == \E i \in DOMAIN order : order[i].field = field

\* The caller's terms, then the primary key unless they name it.
OrderTerms(order) ==
    IF OrdersBy(order, Fields[KeyIndex]) THEN order
    ELSE Append(order, Ascending(Fields[KeyIndex]))

\* QueryDraft::take: compile_query.  LIMIT takes the last parameter.  `source`
\* is the draft, for the properties.
Take(draft, limit) ==
    /\ plan = None
    /\ LET where == Where(draft.predicate)
       IN plan' = [kind |-> "take",
                   ok |-> /\ limit \in 1 .. MAX_QUERY_LIMIT
                          /\ where.ok /\ OrderAccepted(draft.order),
                   sql |-> draft.predicate, values |-> Append(where.values, limit),
                   order |-> OrderTerms(draft.order),
                   source |-> draft, limit |-> limit]
    /\ answer' = NoAnswer
    /\ QueryStep

\* QueryDraft::exists: compile_exists_query refuses an order.
Exists(draft) ==
    /\ plan = None
    /\ LET where == Where(draft.predicate)
       IN plan' = [kind |-> "exists", ok |-> draft.order = <<>> /\ where.ok,
                   sql |-> draft.predicate, values |-> where.values, order |-> <<>>,
                   source |-> draft, limit |-> 1]
    /\ answer' = NoAnswer
    /\ QueryStep

\* The plan is dropped.
Drop == plan # None /\ plan' = None /\ answer' = NoAnswer /\ QueryStep

-----------------------------------------------------------------------------
(* The engine's side of a query                                            *)

\* Three-valued logic: false, unknown, true are 0, 1, 2.
Truth(b) == IF b THEN 2 ELSE 0
Least(a, b) == IF a < b THEN a ELSE b
Greatest(a, b) == IF a < b THEN b ELSE a

Compared(comparison, a, b) ==
    IF a = Null \/ b = Null THEN 1
    ELSE Truth(CASE comparison = "Equal" -> ~Less(a, b) /\ ~Less(b, a)
                 [] comparison = "NotEqual" -> Less(a, b) \/ Less(b, a)
                 [] comparison = "Less" -> Less(a, b)
                 [] comparison = "LessOrEqual" -> ~Less(b, a)
                 [] comparison = "Greater" -> Less(b, a)
                 [] comparison = "GreaterOrEqual" -> ~Less(a, b))

\* A condition on a row, from its text and the parameters of the statement: its
\* truth, and how many parameters are used up to its end, as a function of how
\* many are used before it.
Tested(text, column, parameters) == [used \in Nat |->
    CASE text = "IsNull" -> [truth |-> Truth(column = Null), used |-> used]
      [] text = "IsNotNull" -> [truth |-> Truth(column # Null), used |-> used]
      [] OTHER -> [truth |-> Compared(text, column, parameters[used + 1]), used |-> used + 1]]
Connected(text, left, right) == [used \in Nat |->
    LET first == left[used]
        second == right[first.used]
    IN [truth |-> IF text = "And" THEN Least(first.truth, second.truth)
                                  ELSE Greatest(first.truth, second.truth),
        used |-> second.used]]
Negated(inner) == [used \in Nat |->
    [truth |-> 2 - inner[used].truth, used |-> inner[used].used]]

Evaluation(parameters, row) ==
    LET value[p \in Predicates] ==
            CASE Text(p) \in {"And", "Or"} -> Connected(Text(p), value[p.left], value[p.right])
              [] Text(p) = "Not" -> Negated(value[p.inner])
              [] OTHER -> Tested(Text(p), row[Position(p.field)], parameters)
    IN value

Holds(sql, parameters, row) ==
    sql = None \/ Evaluation(parameters, row)[sql][0].truth = 2

\* The values a column may hold.
StoredValues(i) ==
    {Bound(values(r))[i] : r \in {r \in Records : RecordEncodes(r)}}
    \union {row[i] : row \in RawRows}

\* The engine's order, on the values of one column; it tells keys apart.
ASSUME LessAssumption ==
    /\ \A i \in DOMAIN Fields :
          \A a, b \in StoredValues(i) \ {Null} : ~(Less(a, b) /\ Less(b, a))
    /\ \A a, b \in StoredValues(KeyIndex) \ {Null} : a = b \/ Less(a, b) \/ Less(b, a)

\* NULL sorts before every other value.
Sorts(a, b) == b # Null /\ (a = Null \/ Less(a, b))

\* One row comes before another in a list of ordering terms.
Precedes(a, b, terms) ==
    LET column(i, row) == row[Position(terms[i].field)]
        tied(i) == ~Sorts(column(i, a), column(i, b)) /\ ~Sorts(column(i, b), column(i, a))
    IN \E i \in DOMAIN terms :
          /\ \A j \in 1 .. i - 1 : tied(j)
          /\ IF terms[i].direction = "Ascending" THEN Sorts(column(i, a), column(i, b))
                                                 ELSE Sorts(column(i, b), column(i, a))

\* The orders in which the engine may return the rows.
Arrangements(rows, terms) ==
    {s \in [1 .. Cardinality(rows) -> rows] :
        \A i, j \in DOMAIN s : i < j => s[i] # s[j] /\ ~Precedes(s[j], s[i], terms)}

Matching == {row \in table : Holds(plan.sql, plan.values, row)}

\* execute_query and execute_exists_query.  The first row that does not decode
\* is the answer of the whole query; a test for existence decodes none.
Execute ==
    /\ plan # None /\ plan.ok
    /\ IF plan.kind = "exists"
       THEN answer' = [kind |-> "exists", found |-> Matching # {}]
       ELSE \E s \in Arrangements(Matching, plan.order) :
               LET limit == plan.values[Len(plan.values)]
                   rows == SubSeq(s, 1, Least(Len(s), limit))
                   ok == \A i \in DOMAIN rows : RowDecodes(rows[i])
               IN answer' = [kind |-> "take", ok |-> ok,
                             records |-> IF ok THEN [i \in DOMAIN rows |-> from_row(rows[i])]
                                         ELSE <<>>]
    /\ UNCHANGED plan
    /\ QueryStep

Next ==
    \/ RecordNext /\ UNCHANGED plan
    \/ \E draft \in Drafts : Exists(draft) \/ \E limit \in Limits : Take(draft, limit)
    \/ Drop
    \/ Execute

Spec == Init /\ [][Next]_vars

-----------------------------------------------------------------------------
(* What the calls promise, on the predicate tree itself                    *)

Nodes[p \in Predicates] ==
    CASE p.node \in {"And", "Or"} -> 1 + Nodes[p.left] + Nodes[p.right]
      [] p.node = "Not" -> 1 + Nodes[p.inner]
      [] OTHER -> 1

Depth[p \in Predicates] ==
    CASE p.node \in {"And", "Or"} -> 1 + Greatest(Depth[p.left], Depth[p.right])
      [] p.node = "Not" -> 1 + Depth[p.inner]
      [] OTHER -> 1

LeavesAccepted[p \in Predicates] ==
    CASE p.node \in {"And", "Or"} -> LeavesAccepted[p.left] /\ LeavesAccepted[p.right]
      [] p.node = "Not" -> LeavesAccepted[p.inner]
      [] p.node = "Null" -> NullAccepted(p)
      [] p.node = "Compare" -> CompareAccepted(p)

\* Equality with NULL is a test for NULL; any other comparison with a NULL field
\* is unknown, and so is its negation.
Meaning(row) ==
    LET truth[p \in Predicates] ==
            CASE p.node = "And" -> Least(truth[p.left], truth[p.right])
              [] p.node = "Or" -> Greatest(truth[p.left], truth[p.right])
              [] p.node = "Not" -> 2 - truth[p.inner]
              [] p.node = "Null" ->
                   Truth((row[Position(p.field)] = Null) = (p.comparison = "IsNull"))
              [] p.node = "Compare" ->
                   IF p.value = Null
                   THEN Truth((row[Position(p.field)] = Null) = (p.comparison = "Equal"))
                   ELSE Compared(p.comparison, row[Position(p.field)], p.value)
    IN truth

Asked(source) ==
    {row \in table : source.predicate = None \/ Meaning(row)[source.predicate] = 2}

\* The rows a caller is promised, in order: the caller's terms, ties by key.
Promised(source, limit) ==
    LET before(a, b) == \/ Precedes(a, b, source.order)
                        \/ /\ ~Precedes(b, a, source.order)
                           /\ Sorts(a[KeyIndex], b[KeyIndex])
        s == CHOOSE s \in [1 .. Cardinality(Asked(source)) -> Asked(source)] :
                \A i, j \in DOMAIN s : i < j => before(s[i], s[j])
    IN SubSeq(s, 1, Least(Len(s), limit))

\* A query answers what its predicate tree means on the rows the table has when
\* it is executed, in one determined order, whatever was written since it was
\* built; the parameters reach the comparisons they were given to.
AnswerMeans ==
    /\ answer.kind = "exists" => answer.found = (Asked(plan.source) # {})
    /\ answer.kind = "take" =>
         LET rows == Promised(plan.source, plan.limit)
         IN /\ answer.ok = (\A i \in DOMAIN rows : RowDecodes(rows[i]))
            /\ answer.ok => answer.records = [i \in DOMAIN rows |-> from_row(rows[i])]

\* The limits on a predicate are exact: a draft is refused if and only if its
\* tree has too many nodes in all, is too deep, or has an inadmissible part.
LimitsExact ==
    plan # None =>
        LET source == plan.source
        IN plan.ok =
             /\ source.predicate # None =>
                  /\ Nodes[source.predicate] <= MAX_PREDICATE_NODES
                  /\ Depth[source.predicate] <= MAX_PREDICATE_DEPTH
                  /\ LeavesAccepted[source.predicate]
             /\ IF plan.kind = "exists" THEN source.order = <<>>
                ELSE OrderAccepted(source.order) /\ plan.limit \in 1 .. MAX_QUERY_LIMIT

=============================================================================
