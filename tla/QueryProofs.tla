---------------------------- MODULE QueryProofs -----------------------------
(***************************************************************************)
(* Theorems about queries, for any schema, predicate trees, orders, limits *)
(* and history of writes: the order of the rows, what a plan is made of,   *)
(* and that an answer is what the draft of the plan asks for.              *)
(***************************************************************************)
EXTENDS CollectionProofs

-----------------------------------------------------------------------------
(* The order of the rows                                                   *)

\* A row of the table, and the list of terms of an ORDER BY.
IsRow(a) == /\ \A i \in DOMAIN Fields : a[i] \in StoredValues(i)
            /\ a[KeyIndex] # Null
IsOrder(terms) == /\ Len(terms) \in Nat /\ DOMAIN terms = 1 .. Len(terms)
                  /\ \A i \in DOMAIN terms : InSchema(terms[i].field)

Column(terms, i, row) == row[Position(terms[i].field)]
Tied(terms, i, a, b) ==
    /\ ~Sorts(Column(terms, i, a), Column(terms, i, b))
    /\ ~Sorts(Column(terms, i, b), Column(terms, i, a))
Up(terms, i, a, b) ==
    IF terms[i].direction = "Ascending" THEN Sorts(Column(terms, i, a), Column(terms, i, b))
                                        ELSE Sorts(Column(terms, i, b), Column(terms, i, a))

\* One row comes before another when the first term that tells them apart says so.
LEMMA PrecedesIs ==
    ASSUME NEW a, NEW b, NEW terms
    PROVE  Precedes(a, b, terms) <=>
              \E i \in DOMAIN terms : (\A j \in 1 .. i - 1 : Tied(terms, j, a, b)) /\ Up(terms, i, a, b)
BY Zenon DEF Precedes, Tied, Up, Column

\* The engine does not sort two values of a column in both ways.
LEMMA SortsOnce ==
    ASSUME NEW i \in DOMAIN Fields, NEW x \in StoredValues(i), NEW y \in StoredValues(i)
    PROVE  ~(Sorts(x, y) /\ Sorts(y, x))
BY LessAssumption, Zenon DEF Sorts

\* What one term says of two rows.
LEMMA UpIs ==
    ASSUME NEW a, NEW b, NEW terms, IsRow(a), IsRow(b), IsOrder(terms), NEW i \in DOMAIN terms
    PROVE  /\ ~(Up(terms, i, a, b) /\ Up(terms, i, b, a))
           /\ ~Tied(terms, i, a, b) <=> Up(terms, i, a, b) \/ Up(terms, i, b, a)
           /\ Tied(terms, i, b, a) <=> Tied(terms, i, a, b)
<1>1. Position(terms[i].field) \in DOMAIN Fields
  BY Zenon DEF IsOrder, InSchema, Position
<1>2. /\ Column(terms, i, a) \in StoredValues(Position(terms[i].field))
      /\ Column(terms, i, b) \in StoredValues(Position(terms[i].field))
  BY <1>1, Zenon DEF IsRow, Column
<1>3. ~(Sorts(Column(terms, i, a), Column(terms, i, b)) /\ Sorts(Column(terms, i, b), Column(terms, i, a)))
  BY <1>1, <1>2, SortsOnce, Zenon
<1> QED
  BY <1>3, Zenon DEF Up, Tied

\* Two rows are not before each other.
LEMMA PrecedesOnce ==
    ASSUME NEW a, NEW b, NEW terms, IsRow(a), IsRow(b), IsOrder(terms)
    PROVE  ~(Precedes(a, b, terms) /\ Precedes(b, a, terms))
<1> SUFFICES ASSUME Precedes(a, b, terms), Precedes(b, a, terms)
             PROVE  FALSE
  BY Zenon
<1>1. PICK i \in DOMAIN terms : (\A j \in 1 .. i - 1 : Tied(terms, j, a, b)) /\ Up(terms, i, a, b)
  BY PrecedesIs, Zenon
<1>2. PICK k \in DOMAIN terms : (\A j \in 1 .. k - 1 : Tied(terms, j, b, a)) /\ Up(terms, k, b, a)
  BY PrecedesIs, Zenon
<1>3. i \in Nat /\ k \in Nat /\ 1 <= i /\ 1 <= k
  BY DEF IsOrder
<1>4. CASE i < k
  <2>1. i \in 1 .. k - 1
    BY <1>3, <1>4
  <2> QED
    BY <1>1, <1>2, <2>1, UpIs, Zenon
<1>5. CASE k < i
  <2>1. k \in 1 .. i - 1
    BY <1>3, <1>5
  <2> QED
    BY <1>1, <1>2, <2>1, UpIs, Zenon
<1>6. CASE i = k
  BY <1>1, <1>2, <1>6, UpIs, Zenon
<1> QED
  BY <1>3, <1>4, <1>5, <1>6

\* Of two rows that a term tells apart, one is before the other, by the least
\* such term; rows that no term tells apart are not.
LEMMA PrecedesDecides ==
    ASSUME NEW a, NEW b, NEW terms, IsRow(a), IsRow(b), IsOrder(terms)
    PROVE  /\ (\E i \in DOMAIN terms : ~Tied(terms, i, a, b)) =>
                 Precedes(a, b, terms) \/ Precedes(b, a, terms)
           /\ (\A i \in DOMAIN terms : Tied(terms, i, a, b)) => ~Precedes(a, b, terms)
<1>1. ASSUME NEW k \in DOMAIN terms, ~Tied(terms, k, a, b)
      PROVE  Precedes(a, b, terms) \/ Precedes(b, a, terms)
  <2> DEFINE S == {i \in DOMAIN terms : ~Tied(terms, i, a, b)}
  <2>1. S \subseteq Nat /\ S # {}
    BY <1>1 DEF IsOrder
  <2>2. PICK i \in S : \A m \in S : i <= m
    BY <2>1, LeastNumber, Zenon
  <2>3. i \in DOMAIN terms /\ ~Tied(terms, i, a, b)
    BY Zenon
  <2>4. ASSUME NEW j \in 1 .. i - 1
        PROVE  j \in DOMAIN terms /\ j \notin S
    BY <2>1, <2>2, <2>3 DEF IsOrder
  <2>5. \A j \in 1 .. i - 1 : Tied(terms, j, a, b) /\ Tied(terms, j, b, a)
    BY <2>4, UpIs, Zenon
  <2>6. Up(terms, i, a, b) \/ Up(terms, i, b, a)
    BY <2>3, UpIs, Zenon
  <2> QED
    BY <2>3, <2>5, <2>6, PrecedesIs, Zenon
<1>2. ASSUME \A i \in DOMAIN terms : Tied(terms, i, a, b), Precedes(a, b, terms)
      PROVE  FALSE
  <2>1. PICK i \in DOMAIN terms : Up(terms, i, a, b)
    BY <1>2, PrecedesIs, Zenon
  <2> QED
    BY <1>2, <2>1, UpIs, Zenon
<1> QED
  BY <1>1, <1>2, Zenon

\* No other field is equal to the primary key.
LEMMA KeyPosition ==
    /\ KeyIndex \in DOMAIN Fields
    /\ InSchema(Fields[KeyIndex])
    /\ Position(Fields[KeyIndex]) = KeyIndex
<1> DEFINE K == {i \in DOMAIN Fields : Fields[i].primary_key}
<1>1. KeyIndex \in DOMAIN Fields /\ Fields[KeyIndex].primary_key
  BY KeyIs, FieldsAssumption, Zenon
<1>2. PICK k : K = {k}
  <2>1. Cardinality(K) = 1
    BY FieldsAssumption, Zenon
  <2>2. IsFiniteSet(K)
    <3>1. IsFiniteSet(DOMAIN Fields)
      BY FieldsAssumption, FS_Interval
    <3> QED
      BY <3>1, FS_Subset, Zenon
  <2> HIDE DEF K
  <2> QED
    BY <2>1, <2>2, FS_Singleton, Zenon
<1>3. \A i \in DOMAIN Fields : Fields[i].primary_key => i = KeyIndex
  <2>1. \A i \in DOMAIN Fields : Fields[i].primary_key => i \in K
    BY Zenon
  <2> HIDE DEF K
  <2> QED
    BY <1>1, <1>2, <2>1, Zenon
<1>4. \A i \in DOMAIN Fields : Fields[i] = Fields[KeyIndex] => i = KeyIndex
  BY <1>1, <1>3, Zenon
<1> QED
  BY <1>1, <1>4, Zenon DEF InSchema, Position

\* The key tells two rows apart.
LEMMA KeyTells ==
    ASSUME NEW a, NEW b, IsRow(a), IsRow(b), a[KeyIndex] # b[KeyIndex]
    PROVE  Sorts(a[KeyIndex], b[KeyIndex]) \/ Sorts(b[KeyIndex], a[KeyIndex])
BY KeyPosition, LessAssumption, Zenon DEF IsRow, Sorts


\* compile_query's terms: the caller's, and the key behind them unless they have it.
LEMMA TermsAre ==
    ASSUME NEW order, IsOrder(order), NEW S, order \in Seq(S)
    PROVE  /\ IsOrder(OrderTerms(order))
           /\ \E i \in DOMAIN OrderTerms(order) : OrderTerms(order)[i].field = Fields[KeyIndex]
           /\ ~OrdersBy(order, Fields[KeyIndex]) =>
                 /\ Len(OrderTerms(order)) = Len(order) + 1
                 /\ \A i \in 1 .. Len(order) : OrderTerms(order)[i] = order[i]
                 /\ OrderTerms(order)[Len(order) + 1] = Ascending(Fields[KeyIndex])
<1> DEFINE key == Ascending(Fields[KeyIndex])
           T == Append(order, key)
<1>1. CASE OrdersBy(order, Fields[KeyIndex])
  BY <1>1, Zenon DEF OrdersBy, OrderTerms
<1>2. CASE ~OrdersBy(order, Fields[KeyIndex])
  <2>1. OrderTerms(order) = T
    BY <1>2, Zenon DEF OrderTerms
  <2>2. key.field = Fields[KeyIndex]
    BY Zenon DEF Ascending
  <2> HIDE DEF key
  <2>3. order \in Seq(S \union {key})
    BY SeqMonotonic, Zenon
  <2>4. /\ Len(T) = Len(order) + 1
        /\ \A i \in 1 .. Len(order) : T[i] = order[i]
        /\ T[Len(order) + 1] = key
        /\ DOMAIN T = 1 .. Len(order) + 1
    BY <2>3, AppendProperties, LenProperties
  <2>5. Len(order) \in Nat /\ DOMAIN order = 1 .. Len(order)
    BY Zenon DEF IsOrder
  <2> HIDE DEF T
  <2>6. \A i \in DOMAIN T : InSchema(T[i].field)
    <3> SUFFICES ASSUME NEW i \in DOMAIN T PROVE InSchema(T[i].field)
      BY Zenon
    <3>1. i \in 1 .. Len(order) \/ i = Len(order) + 1
      BY <2>4, <2>5
    <3> QED
      BY <2>2, <2>4, <2>5, <3>1, KeyPosition, Zenon DEF IsOrder
  <2>7. Len(T) \in Nat /\ DOMAIN T = 1 .. Len(T) /\ Len(order) + 1 \in DOMAIN T
    BY <2>4, <2>5
  <2> QED
    BY <1>2, <2>1, <2>2, <2>4, <2>6, <2>7, Zenon DEF IsOrder, key
<1> QED
  BY <1>1, <1>2, Zenon

\* compile_query's terms tell any two rows apart.
LEMMA TermsDecide ==
    ASSUME NEW a, NEW b, IsRow(a), IsRow(b), a[KeyIndex] # b[KeyIndex],
           NEW order, IsOrder(order), NEW S, order \in Seq(S)
    PROVE  Precedes(a, b, OrderTerms(order)) <=> ~Precedes(b, a, OrderTerms(order))
<1> DEFINE T == OrderTerms(order)
<1>1. IsOrder(T)
  BY TermsAre, Zenon
<1>2. PICK i \in DOMAIN T : T[i].field = Fields[KeyIndex]
  BY TermsAre, Zenon
<1> HIDE DEF T
<1>3. Column(T, i, a) = a[KeyIndex] /\ Column(T, i, b) = b[KeyIndex]
  BY <1>2, KeyPosition, Zenon DEF Column
<1>4. ~Tied(T, i, a, b)
  BY <1>3, KeyTells, Zenon DEF Tied
<1>5. Precedes(a, b, T) \/ Precedes(b, a, T)
  BY <1>1, <1>4, PrecedesDecides, Zenon
<1>6. ~(Precedes(a, b, T) /\ Precedes(b, a, T))
  BY <1>1, PrecedesOnce, Zenon
<1> QED
  BY <1>5, <1>6, Zenon DEF T

\* The order a caller is promised: the caller's terms, ties by key.
Before(a, b, order) ==
    \/ Precedes(a, b, order)
    \/ ~Precedes(b, a, order) /\ Sorts(a[KeyIndex], b[KeyIndex])

\* compile_query's terms say that order.
LEMMA TermsSay ==
    ASSUME NEW a, NEW b, IsRow(a), IsRow(b), a[KeyIndex] # b[KeyIndex],
           NEW order, IsOrder(order), NEW S, order \in Seq(S)
    PROVE  Before(a, b, order) <=> Precedes(a, b, OrderTerms(order))
<1> DEFINE T == OrderTerms(order)
           n == Len(order)
<1>1. CASE OrdersBy(order, Fields[KeyIndex])
  <2>1. T = order
    BY <1>1, Zenon DEF OrderTerms
  <2> QED
    BY <2>1, TermsDecide, Zenon DEF Before
<1>2. CASE ~OrdersBy(order, Fields[KeyIndex])
  <2>1. /\ IsOrder(T) /\ Len(T) = n + 1
        /\ \A i \in 1 .. n : T[i] = order[i]
        /\ T[n + 1] = Ascending(Fields[KeyIndex])
    BY <1>2, TermsAre, Zenon
  <2>2. n \in Nat /\ DOMAIN order = 1 .. n /\ DOMAIN T = 1 .. n + 1
    BY <2>1, Zenon DEF IsOrder
  <2> HIDE DEF T, n
  <2>3. \A i \in 1 .. n : /\ Up(T, i, a, b) <=> Up(order, i, a, b)
                          /\ Tied(T, i, a, b) <=> Tied(order, i, a, b)
    BY <2>1, Zenon DEF Up, Tied, Column
  <2>4. Up(T, n + 1, a, b) <=> Sorts(a[KeyIndex], b[KeyIndex])
    <3>1. T[n + 1].field = Fields[KeyIndex] /\ T[n + 1].direction = "Ascending"
      BY <2>1 DEF Ascending
    <3> QED
      BY <3>1, KeyPosition, Zenon DEF Up, Column
  <2>5. n + 1 \in DOMAIN T /\ (n + 1) - 1 = n
    BY <2>2
  <2>6. \A i \in 1 .. n : i \in DOMAIN T /\ \A j \in 1 .. i - 1 : j \in 1 .. n
    BY <2>2
  <2>7. Precedes(a, b, order) => Precedes(a, b, T)
    <3> SUFFICES ASSUME Precedes(a, b, order)
                 PROVE  Precedes(a, b, T)
      BY Zenon
    <3>1. PICK i \in 1 .. n : (\A j \in 1 .. i - 1 : Tied(order, j, a, b)) /\ Up(order, i, a, b)
      BY <2>2, PrecedesIs, Zenon
    <3>2. (\A j \in 1 .. i - 1 : Tied(T, j, a, b)) /\ Up(T, i, a, b)
      BY <2>3, <2>6, <3>1, Zenon
    <3> QED
      BY <2>6, <3>2, PrecedesIs, Zenon
  <2>8. Precedes(a, b, T) =>
           \/ Precedes(a, b, order)
           \/ (\A j \in 1 .. n : Tied(order, j, a, b)) /\ Sorts(a[KeyIndex], b[KeyIndex])
    <3> SUFFICES ASSUME Precedes(a, b, T)
                 PROVE  \/ Precedes(a, b, order)
                        \/ /\ \A j \in 1 .. n : Tied(order, j, a, b)
                           /\ Sorts(a[KeyIndex], b[KeyIndex])
      BY Zenon
    <3>1. PICK i \in DOMAIN T : (\A j \in 1 .. i - 1 : Tied(T, j, a, b)) /\ Up(T, i, a, b)
      BY PrecedesIs, Zenon
    <3>2. i \in 1 .. n \/ i = n + 1
      BY <2>2
    <3>3. CASE i \in 1 .. n
      <4>1. (\A j \in 1 .. i - 1 : Tied(order, j, a, b)) /\ Up(order, i, a, b)
        BY <2>3, <2>6, <3>1, <3>3, Zenon
      <4> QED
        BY <2>2, <3>3, <4>1, PrecedesIs, Zenon
    <3>4. CASE i = n + 1
      BY <2>3, <2>4, <2>5, <3>1, <3>4, Zenon
    <3> QED
      BY <3>2, <3>3, <3>4, Zenon
  <2>9. (\A j \in 1 .. n : Tied(order, j, a, b)) /\ Sorts(a[KeyIndex], b[KeyIndex]) => Precedes(a, b, T)
    <3> SUFFICES ASSUME \A j \in 1 .. n : Tied(order, j, a, b), Sorts(a[KeyIndex], b[KeyIndex])
                 PROVE  Precedes(a, b, T)
      BY Zenon
    <3>1. (\A j \in 1 .. (n + 1) - 1 : Tied(T, j, a, b)) /\ Up(T, n + 1, a, b)
      BY <2>3, <2>4, <2>5, Zenon
    <3> QED
      BY <2>5, <3>1, PrecedesIs, Zenon
  <2>10. (\A j \in 1 .. n : Tied(order, j, a, b)) <=> ~Precedes(a, b, order) /\ ~Precedes(b, a, order)
    <3>1. \A j \in 1 .. n : Tied(order, j, b, a) <=> Tied(order, j, a, b)
      BY <2>2, UpIs, Zenon
    <3> QED
      BY <2>2, <3>1, PrecedesDecides, Zenon
  <2> QED
    BY <2>7, <2>8, <2>9, <2>10, Zenon DEF Before, T
<1> QED
  BY <1>1, <1>2, Zenon


\* u lists rows so that any one is related to every later one.
Rises(u, rows, W) ==
    /\ u \in [1 .. Cardinality(rows) -> rows]
    /\ \A i, j \in 1 .. Cardinality(rows) : i < j => <<u[i], u[j]>> \in W

\* There is one such list of all the rows, if no two are related both ways.
LEMMA OneList ==
    ASSUME NEW rows, IsFiniteSet(rows), NEW W,
           \A a, b \in rows : ~(<<a, b>> \in W /\ <<b, a>> \in W),
           NEW s, NEW t, Rises(s, rows, W), Rises(t, rows, W)
    PROVE  s = t
<1> DEFINE n == Cardinality(rows)
<1>1. n \in Nat
  BY FS_CardinalityType, Zenon
<1>2. ASSUME NEW u, Rises(u, rows, W)
      PROVE  /\ \A i, j \in 1 .. n : u[i] = u[j] => i = j
             /\ \A r \in rows : \E i \in 1 .. n : u[i] = r
  <2>1. u \in [1 .. n -> rows] /\ \A i, j \in 1 .. n : i < j => <<u[i], u[j]>> \in W
    BY <1>2, Zenon DEF Rises
  <2>2. ASSUME NEW i \in 1 .. n, NEW j \in 1 .. n, u[i] = u[j], i < j
        PROVE  FALSE
    <3>1. <<u[i], u[i]>> \in W /\ u[i] \in rows
      BY <2>1, <2>2, Zenon
    <3> QED
      BY <3>1, Zenon
  <2>3. ASSUME NEW i \in 1 .. n, NEW j \in 1 .. n, u[i] = u[j], i # j
        PROVE  FALSE
    <3>1. i < j \/ j < i
      BY <1>1, <2>3
    <3> QED
      BY <2>2, <2>3, <3>1, Zenon
  <2>4. \A i, j \in 1 .. n : u[i] = u[j] => i = j
    BY <2>3, Zenon
  <2>5. u \in Injection(1 .. n, rows)
    BY <2>1, <2>4, Zenon DEF Injection, IsInjective
  <2>6. IsFiniteSet(1 .. n) /\ Cardinality(1 .. n) = Cardinality(rows)
    BY <1>1, FS_Interval
  <2>7. u \in Surjection(1 .. n, rows)
    BY <2>5, <2>6, FS_Injection, Zenon
  <2> QED
    BY <2>4, <2>7, Zenon DEF Surjection
<1> SUFFICES ASSUME s # t
             PROVE  FALSE
  BY Zenon
<1> DEFINE D == {i \in 1 .. n : s[i] # t[i]}
<1>3. s \in [1 .. n -> rows] /\ t \in [1 .. n -> rows]
  BY Zenon DEF Rises
<1>4. D # {}
  <2> SUFFICES ASSUME \A i \in 1 .. n : s[i] = t[i]
               PROVE  FALSE
    BY Zenon
  <2>1. s = [i \in 1 .. n |-> s[i]] /\ t = [i \in 1 .. n |-> t[i]]
    BY <1>3, Zenon
  <2>2. [i \in 1 .. n |-> s[i]] = [i \in 1 .. n |-> t[i]]
    BY Zenon
  <2> QED
    BY <2>1, <2>2, Zenon
<1>5. PICK i \in D : \A m \in D : i <= m
  <2>1. D \subseteq Nat
    BY <1>1
  <2> QED
    BY <1>4, <2>1, LeastNumber, Zenon
<1>6. i \in 1 .. n /\ s[i] # t[i]
  BY <1>5, Zenon
<1>7. \A j \in 1 .. n : j < i => s[j] = t[j]
  BY <1>1, <1>5, <1>6
<1>8. ASSUME NEW u, NEW v, Rises(u, rows, W), Rises(v, rows, W), u[i] # v[i],
             \A j \in 1 .. n : j < i => u[j] = v[j]
      PROVE  <<u[i], v[i]>> \in W
  <2>1. v[i] \in rows
    BY <1>6, <1>8, Zenon DEF Rises
  <2>2. PICK j \in 1 .. n : u[j] = v[i]
    BY <1>2, <1>8, <2>1, Zenon
  <2>3. ~(j < i)
    <3> SUFFICES ASSUME j < i PROVE FALSE
      BY Zenon
    <3>1. v[j] = v[i]
      BY <1>8, <2>2, Zenon
    <3>2. j = i
      BY <1>2, <1>6, <1>8, <3>1, Zenon
    <3> QED
      BY <1>8, <2>2, <3>2, Zenon
  <2>4. j # i
    BY <1>8, <2>2, Zenon
  <2>5. i < j
    BY <1>1, <1>6, <2>3, <2>4
  <2>6. <<u[i], u[j]>> \in W
    BY <1>6, <1>8, <2>5, Zenon DEF Rises
  <2> QED
    BY <2>2, <2>6, Zenon
<1>9. <<s[i], t[i]>> \in W
  BY <1>6, <1>7, <1>8, Zenon
<1>10. <<t[i], s[i]>> \in W
  BY <1>6, <1>7, <1>8, Zenon
<1> QED
  BY <1>3, <1>6, <1>9, <1>10, Zenon

\* Two rows are not promised before each other, nor one before itself.
LEMMA BeforeOnce ==
    ASSUME NEW a, NEW b, IsRow(a), IsRow(b), a[KeyIndex] = b[KeyIndex] => a = b,
           NEW order, IsOrder(order), NEW S, order \in Seq(S)
    PROVE  ~(Before(a, b, order) /\ Before(b, a, order))
<1>1. CASE a[KeyIndex] # b[KeyIndex]
  <2>1. /\ Before(a, b, order) <=> Precedes(a, b, OrderTerms(order))
        /\ Before(b, a, order) <=> Precedes(b, a, OrderTerms(order))
    BY <1>1, TermsSay, Zenon
  <2>2. Precedes(a, b, OrderTerms(order)) <=> ~Precedes(b, a, OrderTerms(order))
    BY <1>1, TermsDecide, Zenon
  <2> QED
    BY <2>1, <2>2, Zenon
<1>2. CASE a[KeyIndex] = b[KeyIndex]
  <2>1. a = b
    BY <1>2, Zenon
  <2>2. ~Precedes(a, a, order)
    BY PrecedesOnce, Zenon
  <2>3. a[KeyIndex] \in StoredValues(KeyIndex) /\ KeyIndex \in DOMAIN Fields
    BY KeyPosition, Zenon DEF IsRow
  <2>4. ~Sorts(a[KeyIndex], a[KeyIndex])
    BY <2>3, SortsOnce, Zenon
  <2> QED
    BY <2>1, <2>2, <2>4, Zenon DEF Before
<1> QED
  BY <1>1, <1>2, Zenon

\* The engine has one order to return the rows in, and it is the promised one.
LEMMA ArrangementIs ==
    ASSUME NEW rows, IsFiniteSet(rows), \A a \in rows : IsRow(a),
           \A a, b \in rows : a[KeyIndex] = b[KeyIndex] => a = b,
           NEW order, IsOrder(order), NEW S, order \in Seq(S),
           NEW s \in Arrangements(rows, OrderTerms(order))
    PROVE  s = CHOOSE u \in [1 .. Cardinality(rows) -> rows] :
                  \A i, j \in DOMAIN u : i < j => Before(u[i], u[j], order)
<1> DEFINE n == Cardinality(rows)
           W == {w \in rows \X rows : Before(w[1], w[2], order)}
           Good(u) == \A i, j \in DOMAIN u : i < j => Before(u[i], u[j], order)
<1>1. \A a, b \in rows : <<a, b>> \in W <=> Before(a, b, order)
  BY Zenon
<1> HIDE DEF W
<1>2. \A a, b \in rows : ~(<<a, b>> \in W /\ <<b, a>> \in W)
  BY <1>1, BeforeOnce, Zenon
<1>3. ASSUME NEW u \in [1 .. n -> rows], Good(u)
      PROVE  Rises(u, rows, W)
  <2>1. DOMAIN u = 1 .. n /\ \A i \in 1 .. n : u[i] \in rows
    BY <1>3, Zenon
  <2> QED
    BY <1>1, <1>3, <2>1, Zenon DEF Rises
<1>4. s \in [1 .. n -> rows] /\ Good(s)
  <2>1. /\ s \in [1 .. n -> rows]
        /\ \A i, j \in DOMAIN s : i < j => s[i] # s[j] /\ ~Precedes(s[j], s[i], OrderTerms(order))
    BY Zenon DEF Arrangements
  <2>2. ASSUME NEW i \in DOMAIN s, NEW j \in DOMAIN s, i < j
        PROVE  Before(s[i], s[j], order)
    <3>1. s[i] \in rows /\ s[j] \in rows /\ s[i] # s[j] /\ ~Precedes(s[j], s[i], OrderTerms(order))
      BY <2>1, <2>2, Zenon
    <3>2. s[i][KeyIndex] # s[j][KeyIndex] /\ IsRow(s[i]) /\ IsRow(s[j])
      BY <3>1, Zenon
    <3>3. Precedes(s[i], s[j], OrderTerms(order))
      BY <3>1, <3>2, TermsDecide, Zenon
    <3> QED
      BY <3>2, <3>3, TermsSay, Zenon
  <2> QED
    BY <2>1, <2>2, Zenon
<1> DEFINE t == CHOOSE u \in [1 .. n -> rows] : Good(u)
<1> HIDE DEF Good
<1>5. t \in [1 .. n -> rows] /\ Good(t)
  BY <1>4, Zenon
<1> HIDE DEF t
<1>6. s = t
  BY <1>2, <1>3, <1>4, <1>5, OneList, Zenon
<1> QED
  BY <1>6, Zenon DEF t, Good


-----------------------------------------------------------------------------
(* Queries                                                                 *)

\* The plans that take and exists make.
TakePlan(draft, limit) ==
    [kind |-> "take",
     ok |-> /\ limit \in 1 .. MAX_QUERY_LIMIT
            /\ Where(draft.predicate).ok /\ OrderAccepted(draft.order),
     sql |-> draft.predicate, values |-> Append(Where(draft.predicate).values, limit),
     order |-> OrderTerms(draft.order),
     source |-> draft, limit |-> limit]
ExistsPlan(draft) ==
    [kind |-> "exists", ok |-> draft.order = <<>> /\ Where(draft.predicate).ok,
     sql |-> draft.predicate, values |-> Where(draft.predicate).values, order |-> <<>>,
     source |-> draft, limit |-> 1]

\* A plan is what a call made of a draft.
PlanBuilt ==
    plan # None =>
        \E draft \in Drafts : \/ plan = ExistsPlan(draft)
                              \/ \E limit \in Limits : plan = TakePlan(draft, limit)

\* The table is a finite set of rows with values that its columns may hold.
TableTyped == IsFiniteSet(table) /\ \A row \in table : IsRow(row)

\* A predicate is compiled exactly when it keeps the limits.
LEMMA WhereExact ==
    ASSUME NEW predicate \in Predicates \union {None}
    PROVE  /\ Where(predicate).ok \in BOOLEAN
           /\ Where(predicate).ok <=>
                 (predicate # None => /\ Nodes[predicate] <= MAX_PREDICATE_NODES
                                      /\ Depth[predicate] <= MAX_PREDICATE_DEPTH
                                      /\ LeavesAccepted[predicate])
           /\ Where(predicate).values \in Seq({p.value : p \in Predicates})
<1>1. CASE predicate = None
  <2>1. Where(predicate) = Compiled(0, <<>>)
    BY <1>1, Zenon DEF Where
  <2>2. Compiled(0, <<>>).ok = TRUE /\ Compiled(0, <<>>).values = <<>>
    BY Zenon DEF Compiled
  <2>3. <<>> \in Seq({p.value : p \in Predicates})
    BY EmptySeq, Zenon
  <2> QED
    BY <1>1, <2>1, <2>2, <2>3, Zenon
<1>2. CASE predicate # None
  <2> DEFINE c == compile_predicate[predicate][1][0]
  <2>1. Where(predicate) = c /\ predicate \in Predicates
    BY <1>2, Zenon DEF Where
  <2>2. Exact(c, predicate, 1, 0)
    BY <2>1, CompileExact, Zenon
  <2>3. Nodes[predicate] \in Nat /\ Depth[predicate] \in Nat
    BY <2>1, NodesIs, DepthIs, Zenon
  <2>4. MAX_PREDICATE_DEPTH \in Nat
    BY LimitsAssumption, Zenon
  <2>5. /\ 1 + Depth[predicate] <= MAX_PREDICATE_DEPTH + 1 <=> Depth[predicate] <= MAX_PREDICATE_DEPTH
        /\ 0 + Nodes[predicate] = Nodes[predicate]
    BY <2>3, <2>4
  <2> HIDE DEF c
  <2>6. c.ok \in BOOLEAN /\ c.values \in Seq({p.value : p \in Predicates})
    BY <2>2, Zenon DEF Exact, Results
  <2>7. c.ok <=> /\ Nodes[predicate] <= MAX_PREDICATE_NODES
                 /\ Depth[predicate] <= MAX_PREDICATE_DEPTH
                 /\ LeavesAccepted[predicate]
    BY <2>2, <2>5, Zenon DEF Exact, Fits
  <2> QED
    BY <1>2, <2>1, <2>6, <2>7, Zenon
<1> QED
  BY <1>1, <1>2, Zenon

\* The engine selects the rows that the predicate means, when the statement's
\* parameters begin with those of the WHERE clause.
LEMMA HoldsMeans ==
    ASSUME NEW predicate \in Predicates \union {None}, Where(predicate).ok,
           NEW parameters, Receives(parameters, 0, Where(predicate).values), NEW row
    PROVE  Holds(predicate, parameters, row) <=>
              predicate = None \/ Meaning(row)[predicate] = 2
<1>1. CASE predicate = None
  BY <1>1, Zenon DEF Holds
<1>2. CASE predicate # None
  <2> DEFINE c == compile_predicate[predicate][1][0]
  <2>1. Where(predicate) = c /\ predicate \in Predicates
    BY <1>2, Zenon DEF Where
  <2>2. ToldOf(predicate, c, 0, parameters, row)
    <3>1. Told(predicate, parameters, row)
      BY <2>1, EvaluationMeans, Zenon
    <3>2. 0 \in Nat /\ 1 \in Nat
      BY Zenon
    <3> QED
      BY <3>1, <3>2, Zenon DEF Told
  <2>3. c.ok /\ Receives(parameters, 0, c.values)
    BY <2>1, Zenon
  <2>4. Evaluation(parameters, row)[predicate][0] =
           [truth |-> Meaning(row)[predicate], used |-> 0 + Len(c.values)]
    BY <2>2, <2>3, Zenon DEF ToldOf
  <2>5. Evaluation(parameters, row)[predicate][0].truth = Meaning(row)[predicate]
    BY <2>4
  <2> QED
    BY <1>2, <2>5, Zenon DEF Holds
<1> QED
  BY <1>1, <1>2, Zenon

\* A draft's predicate and order.
LEMMA DraftIs ==
    ASSUME NEW draft \in Drafts
    PROVE  /\ draft.predicate \in Predicates \union {None}
           /\ \E S : draft.order \in Seq(S)
BY DraftsAssumption, Zenon

\* What a plan of exists is made of.
LEMMA ExistsIs ==
    ASSUME NEW draft, plan = ExistsPlan(draft)
    PROVE  /\ plan.kind = "exists" /\ plan.sql = draft.predicate /\ plan.source = draft
           /\ plan.ok = (draft.order = <<>> /\ Where(draft.predicate).ok)
           /\ plan.values = Where(draft.predicate).values
BY Zenon DEF ExistsPlan

\* What a plan of take is made of.
LEMMA TakeIs ==
    ASSUME NEW draft, NEW limit, plan = TakePlan(draft, limit)
    PROVE  /\ plan.kind = "take" /\ plan.sql = draft.predicate /\ plan.source = draft
           /\ plan.ok = (/\ limit \in 1 .. MAX_QUERY_LIMIT
                         /\ Where(draft.predicate).ok /\ OrderAccepted(draft.order))
           /\ plan.values = Append(Where(draft.predicate).values, limit)
           /\ plan.order = OrderTerms(draft.order) /\ plan.limit = limit
BY Zenon DEF TakePlan

\* Plans keep the limits exactly.
LEMMA BuiltExact ==
    ASSUME PlanBuilt
    PROVE  LimitsExact
<1> SUFFICES ASSUME plan # None
             PROVE  LimitsExact
  BY Zenon DEF LimitsExact
<1>1. PICK draft \in Drafts : plan = ExistsPlan(draft) \/ \E limit \in Limits : plan = TakePlan(draft, limit)
  BY Zenon DEF PlanBuilt
<1>2. draft.predicate \in Predicates \union {None}
  BY DraftIs, Zenon
<1>3. Where(draft.predicate).ok <=>
         (draft.predicate # None => /\ Nodes[draft.predicate] <= MAX_PREDICATE_NODES
                                    /\ Depth[draft.predicate] <= MAX_PREDICATE_DEPTH
                                    /\ LeavesAccepted[draft.predicate])
  BY <1>2, WhereExact, Zenon
<1>4. CASE plan = ExistsPlan(draft)
  <2>1. /\ plan.kind = "exists" /\ plan.source = draft
        /\ plan.ok = (draft.order = <<>> /\ Where(draft.predicate).ok)
    BY <1>4, ExistsIs, Zenon
  <2> QED
    BY <1>3, <2>1, Zenon DEF LimitsExact
<1>5. CASE \E limit \in Limits : plan = TakePlan(draft, limit)
  <2>1. PICK limit \in Limits : plan = TakePlan(draft, limit)
    BY <1>5, Zenon
  <2>2. /\ plan.kind = "take" /\ plan.source = draft /\ plan.limit = limit
        /\ plan.ok = (/\ limit \in 1 .. MAX_QUERY_LIMIT
                      /\ Where(draft.predicate).ok /\ OrderAccepted(draft.order))
    BY <2>1, TakeIs, Zenon
  <2>3. plan.kind # "exists"
    BY <2>2, Zenon
  <2> QED
    BY <1>3, <2>2, <2>3, Zenon DEF LimitsExact
<1> QED
  BY <1>1, <1>4, <1>5, Zenon


\* What the statement of a plan receives begins with the values of its WHERE
\* clause; the limit of take is behind them.
LEMMA PlanReceives ==
    ASSUME NEW predicate \in Predicates \union {None}, NEW limit
    PROVE  LET given == Where(predicate).values
           IN /\ Receives(given, 0, given)
              /\ Receives(Append(given, limit), 0, given)
              /\ Append(given, limit)[Len(Append(given, limit))] = limit
<1> DEFINE given == Where(predicate).values
           S == {p.value : p \in Predicates}
           T == S \union {limit}
<1>1. given \in Seq(S)
  BY WhereExact, Zenon
<1> HIDE DEF given, S
<1>2. given \in Seq(T) /\ limit \in T
  BY <1>1, SeqMonotonic, Zenon
<1> HIDE DEF T
<1>3. /\ Len(Append(given, limit)) = Len(given) + 1
      /\ \A i \in 1 .. Len(given) : Append(given, limit)[i] = given[i]
      /\ Append(given, limit)[Len(given) + 1] = limit
  BY <1>2, AppendProperties
<1>4. Len(given) \in Nat
  BY <1>2, LenProperties, Zenon
<1>5. \A i \in 1 .. Len(given) : 0 + i = i
  BY <1>4
<1>6. Receives(given, 0, given) /\ Receives(Append(given, limit), 0, given)
  BY <1>3, <1>5, Zenon DEF Receives
<1> QED
  BY <1>3, <1>6, Zenon DEF given

\* The engine selects for a plan the rows its draft asks for.
LEMMA MatchingIs ==
    ASSUME PlanBuilt, plan # None, plan.ok
    PROVE  Matching = Asked(plan.source)
<1>1. PICK draft \in Drafts : plan = ExistsPlan(draft) \/ \E limit \in Limits : plan = TakePlan(draft, limit)
  BY Zenon DEF PlanBuilt
<1> DEFINE predicate == draft.predicate
<1>2. predicate \in Predicates \union {None}
  BY DraftIs, Zenon
<1>3. /\ plan.sql = predicate /\ plan.source = draft /\ Where(predicate).ok
      /\ Receives(plan.values, 0, Where(predicate).values)
  <2>1. CASE plan = ExistsPlan(draft)
    <3>1. /\ plan.sql = predicate /\ plan.source = draft /\ Where(predicate).ok
          /\ plan.values = Where(predicate).values
      BY <2>1, ExistsIs, Zenon
    <3>2. Receives(Where(predicate).values, 0, Where(predicate).values)
      BY <1>2, PlanReceives, Zenon
    <3> QED
      BY <3>1, <3>2, Zenon
  <2>2. CASE \E limit \in Limits : plan = TakePlan(draft, limit)
    <3>1. PICK limit \in Limits : plan = TakePlan(draft, limit)
      BY <2>2, Zenon
    <3>2. /\ plan.sql = predicate /\ plan.source = draft /\ Where(predicate).ok
          /\ plan.values = Append(Where(predicate).values, limit)
      BY <3>1, TakeIs, Zenon
    <3>3. Receives(Append(Where(predicate).values, limit), 0, Where(predicate).values)
      BY <1>2, PlanReceives, Zenon
    <3> QED
      BY <3>2, <3>3, Zenon
  <2> QED
    BY <1>1, <2>1, <2>2, Zenon
<1>4. ASSUME NEW row
      PROVE  Holds(plan.sql, plan.values, row) <=>
                plan.source.predicate = None \/ Meaning(row)[plan.source.predicate] = 2
  <2>1. Holds(predicate, plan.values, row) <=> predicate = None \/ Meaning(row)[predicate] = 2
    BY <1>2, <1>3, HoldsMeans, Zenon
  <2> QED
    BY <1>3, <2>1, Zenon
<1> QED
  BY <1>4, Zenon DEF Matching, Asked

\* The rows a caller is promised, of the rows asked for.
Listed(rows, order) ==
    CHOOSE s \in [1 .. Cardinality(rows) -> rows] :
        \A i, j \in DOMAIN s : i < j => Before(s[i], s[j], order)
First(s, limit) == SubSeq(s, 1, Least(Len(s), limit))

\* What AnswerMeans says, of an answer to a plan.
Right(a, p, asked) ==
    /\ a.kind = "exists" => a.found = (asked # {})
    /\ a.kind = "take" =>
         LET rows == First(Listed(asked, p.source.order), p.limit)
         IN /\ a.ok = (\A i \in DOMAIN rows : RowDecodes(rows[i]))
            /\ a.ok => a.records = [i \in DOMAIN rows |-> from_row(rows[i])]

\* AnswerMeans, in these terms.
LEMMA RightIs ==
    /\ AnswerMeans <=> Right(answer, plan, Asked(plan.source))
    /\ AnswerMeans' <=> Right(answer', plan', Asked(plan.source)')
<1>1. Promised(plan.source, plan.limit) = First(Listed(Asked(plan.source), plan.source.order), plan.limit)
  BY Zenon DEF Promised, First, Listed, Before
<1>2. Promised(plan.source, plan.limit)' = First(Listed(Asked(plan.source)', plan'.source.order), plan'.limit)
  BY Zenon DEF Promised, First, Listed, Before
<1> QED
  BY <1>1, <1>2, Zenon DEF AnswerMeans, Right

\* execute_query and execute_exists_query answer as promised.
LEMMA ExecuteMeans ==
    ASSUME PlanBuilt, TableTyped, KeysUnique, Execute
    PROVE  AnswerMeans'
<1> DEFINE asked == Asked(plan.source)
<1>1. plan # None /\ plan.ok /\ plan' = plan /\ table' = table
  BY Zenon DEF Execute, QueryStep
<1>2. Matching = asked
  BY <1>1, MatchingIs, Zenon
<1>3. Asked(plan.source)' = asked
  BY <1>1, Zenon DEF Asked
<1>4. asked \subseteq table
  BY Zenon DEF Asked
<1> HIDE DEF asked
<1>5. PICK draft \in Drafts : plan = ExistsPlan(draft) \/ \E limit \in Limits : plan = TakePlan(draft, limit)
  BY <1>1, Zenon DEF PlanBuilt
<1>6. CASE plan = ExistsPlan(draft)
  <2>1. plan.kind = "exists"
    BY <1>6, ExistsIs, Zenon
  <2>2. answer' = [kind |-> "exists", found |-> asked # {}]
    BY <1>2, <2>1, Zenon DEF Execute
  <2>3. answer'.kind = "exists" /\ answer'.found = (asked # {})
    BY <2>2, Zenon
  <2>4. answer'.kind # "take"
    BY <2>3, Zenon
  <2>5. Right(answer', plan, asked)
    BY <2>3, <2>4, Zenon DEF Right
  <2> QED
    BY <1>1, <1>3, <2>5, RightIs, Zenon
<1>7. CASE \E limit \in Limits : plan = TakePlan(draft, limit)
  <2>1. PICK limit \in Limits : plan = TakePlan(draft, limit)
    BY <1>7, Zenon
  <2>2. /\ plan.kind = "take" /\ plan.source = draft /\ OrderAccepted(draft.order)
        /\ plan.values = Append(Where(draft.predicate).values, limit)
        /\ plan.order = OrderTerms(draft.order) /\ plan.limit = limit
    BY <1>1, <2>1, TakeIs, Zenon
  <2>3. draft.predicate \in Predicates \union {None}
    BY DraftIs, Zenon
  <2>4. plan.values[Len(plan.values)] = limit
    BY <2>2, <2>3, PlanReceives, Zenon
  <2>5. PICK S : draft.order \in Seq(S)
    BY DraftIs, Zenon
  <2>6. IsOrder(draft.order)
    <3>1. Len(draft.order) \in Nat /\ DOMAIN draft.order = 1 .. Len(draft.order)
      BY <2>5, LenProperties, Zenon
    <3> QED
      BY <2>2, <3>1, Zenon DEF IsOrder, OrderAccepted
  <2>7. plan.kind # "exists"
    BY <2>2, Zenon
  <2>8. PICK s \in Arrangements(asked, OrderTerms(draft.order)) :
           LET rows == First(s, limit)
               ok == \A i \in DOMAIN rows : RowDecodes(rows[i])
           IN answer' = [kind |-> "take", ok |-> ok,
                         records |-> IF ok THEN [i \in DOMAIN rows |-> from_row(rows[i])] ELSE <<>>]
    <3>1. \E s \in Arrangements(Matching, plan.order) :
             LET rows == First(s, plan.values[Len(plan.values)])
                 ok == \A i \in DOMAIN rows : RowDecodes(rows[i])
             IN answer' = [kind |-> "take", ok |-> ok,
                           records |-> IF ok THEN [i \in DOMAIN rows |-> from_row(rows[i])] ELSE <<>>]
      BY <2>7, Zenon DEF Execute, First
    <3> QED
      BY <1>2, <2>2, <2>4, <3>1, Zenon
  <2>9. s = Listed(asked, draft.order)
    <3>1. IsFiniteSet(asked) /\ (\A a \in asked : IsRow(a))
      BY <1>4, FS_Subset, Zenon DEF TableTyped
    <3>2. \A a, b \in asked : a[KeyIndex] = b[KeyIndex] => a = b
      BY <1>4, Zenon DEF KeysUnique
    <3> QED
      BY <2>5, <2>6, <3>1, <3>2, ArrangementIs, Zenon DEF Listed
  <2> DEFINE rows == First(Listed(asked, plan.source.order), plan.limit)
             ok == \A i \in DOMAIN rows : RowDecodes(rows[i])
  <2>10. answer' = [kind |-> "take", ok |-> ok,
                    records |-> IF ok THEN [i \in DOMAIN rows |-> from_row(rows[i])] ELSE <<>>]
    BY <2>2, <2>8, <2>9, Zenon
  <2>11. /\ answer'.kind = "take" /\ answer'.ok = ok
         /\ answer'.records = IF ok THEN [i \in DOMAIN rows |-> from_row(rows[i])] ELSE <<>>
    <3> HIDE DEF rows, ok
    <3> QED
      BY <2>10, Zenon
  <2>12. answer'.kind # "exists"
    BY <2>11, Zenon
  <2>13. Right(answer', plan, asked)
    BY <2>11, <2>12, Zenon DEF Right
  <2> QED
    BY <1>1, <1>3, <2>13, RightIs, Zenon
<1> QED
  BY <1>5, <1>6, <1>7, Zenon


\* The key of a row that the table admits is not NULL.
LEMMA AllowedIsRow ==
    ASSUME NEW row, RowAllowed(row), \A i \in DOMAIN Fields : row[i] \in StoredValues(i)
    PROVE  IsRow(row)
BY KeyIs, KeyPosition, Zenon DEF RowAllowed, Nullable, KeyType, IsRow

\* A record that the table admits.
LEMMA RecordIsRow ==
    ASSUME NEW r \in Records, RecordEncodes(r), RowAllowed(Row(r))
    PROVE  IsRow(Row(r))
<1>1. \A i \in DOMAIN Fields : Row(r)[i] \in StoredValues(i)
  BY Zenon DEF StoredValues, Row
<1> QED
  BY <1>1, AllowedIsRow, Zenon

\* A call that adds at most one row, which the table admits.
LEMMA OneMore ==
    ASSUME TableTyped, NEW row, table' \subseteq table \union {row}, row \in table' => row \in table \/ IsRow(row)
    PROVE  TableTyped'
<1>1. IsFiniteSet(table \union {row})
  BY FS_AddElement, Zenon DEF TableTyped
<1>2. IsFiniteSet(table')
  BY <1>1, FS_Subset, Zenon
<1>3. \A a \in table' : IsRow(a)
  BY Zenon DEF TableTyped
<1> QED
  BY <1>2, <1>3, Zenon DEF TableTyped

\* The calls on records keep the table one of rows.
LEMMA RecordsTyped ==
    ASSUME TableTyped, RecordNext
    PROVE  TableTyped'
<1>1. ASSUME NEW r \in Records, Insert(r)
      PROVE  TableTyped'
  <2>1. \/ table' = table
        \/ RecordEncodes(r) /\ RowAllowed(Row(r)) /\ table' = table \union {Row(r)}
    BY <1>1, Zenon DEF Insert, Row
  <2> QED
    BY <2>1, RecordIsRow, OneMore, Zenon DEF TableTyped
<1>2. ASSUME NEW r \in Records, Update(r)
      PROVE  TableTyped'
  <2> DEFINE p == Bound(update_values(r))
             old == RowsWithKey(p[Len(p)])
             new == {Assigned(row, p) : row \in old}
  <2>1. \/ table' = table
        \/ /\ RecordEncodes(r) /\ \A row \in new : RowAllowed(row)
           /\ table' = (table \ old) \union new
    BY <1>2, Zenon DEF Update
  <2>2. \A row \in old : Assigned(row, p) = Row(r)
    BY UpdateBindsColumns, Zenon DEF RowsWithKey
  <2>3. \A row \in new : row = Row(r)
    BY <2>2, Zenon
  <2> HIDE DEF new, old
  <2>4. \/ table' = table
        \/ table' \subseteq table \union {Row(r)} /\ (Row(r) \in table' => Row(r) \in table \/ IsRow(Row(r)))
    BY <2>1, <2>3, RecordIsRow, Zenon
  <2> QED
    BY <2>4, OneMore, Zenon DEF TableTyped
<1>3. ASSUME table' \subseteq table
      PROVE  TableTyped'
  BY <1>3, FS_Subset, Zenon DEF TableTyped
<1>4. ASSUME NEW k, Delete(k) \/ Get(k)
      PROVE  TableTyped'
  <2>1. table' \subseteq table
    BY <1>4, Zenon DEF Delete, Get
  <2> QED
    BY <1>3, <2>1, Zenon
<1>5. ASSUME NEW row \in RawRows, RawReplace(row)
      PROVE  TableTyped'
  <2>1. \A i \in DOMAIN Fields : row[i] \in StoredValues(i)
    BY <1>5, Zenon DEF StoredValues
  <2>2. IsRow(row) /\ table' \subseteq table \union {row}
    BY <1>5, <2>1, AllowedIsRow, Zenon DEF RawReplace
  <2> QED
    BY <2>2, OneMore, Zenon
<1> QED
  BY <1>1, <1>2, <1>4, <1>5, Zenon DEF RecordNext

\* The inductive invariant of queries: an answer is right because the plan is
\* that of its draft and the keys of the table are distinct and not NULL.
QueryInv == IInv /\ TableTyped /\ PlanBuilt /\ AnswerMeans

\* A call that answers no query.
LEMMA NoQuery ==
    ASSUME answer'.kind \notin {"exists", "take"}
    PROVE  AnswerMeans'
BY Zenon DEF AnswerMeans

\* Every step of the typed interface is a call on records or reads them.
LEMMA NextReads ==
    ASSUME Next
    PROVE  RecordNext \/ QueryStep
BY Zenon DEF Next, Exists, Take, Drop, Execute

\* The invariant holds at the start and is kept by every step.
LEMMA QueryInvariant ==
    /\ Init => QueryInv
    /\ QueryInv /\ [Next]_vars => QueryInv'
<1>1. ASSUME Init
      PROVE  QueryInv
  <2>1. RecordInit /\ plan = None
    BY <1>1, Zenon DEF Init
  <2>2. IInv
    BY <2>1, RecordStart, Zenon
  <2>3. TableTyped /\ PlanBuilt
    BY <2>1, FS_EmptySet, Zenon DEF RecordInit, TableTyped, PlanBuilt
  <2>4. answer.kind = "none"
    BY <2>1, Zenon DEF RecordInit, NoAnswer
  <2>5. AnswerMeans
    BY <2>4, Zenon DEF AnswerMeans
  <2> QED
    BY <2>2, <2>3, <2>5, Zenon DEF QueryInv
<1>2. ASSUME QueryInv, [Next]_vars
      PROVE  QueryInv'
  <2>0. IInv /\ KeysUnique /\ TableTyped /\ PlanBuilt /\ AnswerMeans
    BY <1>2, Zenon DEF QueryInv, IInv
  <2>1. CASE RecordNext /\ UNCHANGED plan
    <3>1. IInv' /\ TableTyped'
      BY <2>0, <2>1, RecordStep, RecordsTyped, Zenon
    <3>2. PlanBuilt'
      BY <2>0, <2>1, Zenon DEF PlanBuilt
    <3>3. answer'.kind \in {"none", "get"}
      <4>1. answer' = NoAnswer \/ \E k : Get(k)
        BY <2>1, Zenon DEF RecordNext, Insert, Update, Delete, RawReplace
      <4>2. ASSUME NEW k, Get(k)
            PROVE  answer'.kind = "get"
        BY <4>2, Zenon DEF Get
      <4>3. ASSUME answer' = NoAnswer
            PROVE  answer'.kind = "none"
        BY <4>3, Zenon DEF NoAnswer
      <4> QED
        BY <4>1, <4>2, <4>3, Zenon
    <3>4. answer'.kind \notin {"exists", "take"}
      BY <3>3, Zenon
    <3> QED
      BY <3>1, <3>2, <3>4, NoQuery, Zenon DEF QueryInv
  <2>2. ASSUME QueryStep
        PROVE  IInv' /\ TableTyped'
    BY <2>0, <2>2, RecordStep, Zenon DEF QueryStep, TableTyped
  <2>3. ASSUME answer' = NoAnswer
        PROVE  AnswerMeans'
    <3>1. answer'.kind = "none"
      BY <2>3, Zenon DEF NoAnswer
    <3>2. answer'.kind \notin {"exists", "take"}
      BY <3>1, Zenon
    <3> QED
      BY <3>2, NoQuery, Zenon
  <2>4. ASSUME NEW draft \in Drafts, Exists(draft)
        PROVE  QueryInv'
    <3>1. plan' = ExistsPlan(draft) /\ answer' = NoAnswer /\ QueryStep
      BY <2>4, Zenon DEF Exists, ExistsPlan
    <3>2. PlanBuilt'
      BY <3>1, Zenon DEF PlanBuilt
    <3> QED
      BY <2>2, <2>3, <3>1, <3>2, Zenon DEF QueryInv
  <2>5. ASSUME NEW draft \in Drafts, NEW limit \in Limits, Take(draft, limit)
        PROVE  QueryInv'
    <3>1. plan' = TakePlan(draft, limit) /\ answer' = NoAnswer /\ QueryStep
      BY <2>5, Zenon DEF Take, TakePlan
    <3>2. PlanBuilt'
      BY <3>1, Zenon DEF PlanBuilt
    <3> QED
      BY <2>2, <2>3, <3>1, <3>2, Zenon DEF QueryInv
  <2>6. CASE Drop
    <3>1. plan' = None /\ answer' = NoAnswer /\ QueryStep
      BY <2>6, Zenon DEF Drop
    <3>2. PlanBuilt'
      BY <3>1, Zenon DEF PlanBuilt
    <3> QED
      BY <2>2, <2>3, <3>1, <3>2, Zenon DEF QueryInv
  <2>7. CASE Execute
    <3>1. plan' = plan /\ QueryStep
      BY <2>7, Zenon DEF Execute
    <3>2. PlanBuilt'
      BY <2>0, <3>1, Zenon DEF PlanBuilt
    <3>3. AnswerMeans'
      BY <2>0, <2>7, ExecuteMeans, Zenon
    <3> QED
      BY <2>2, <3>1, <3>2, <3>3, Zenon DEF QueryInv
  <2>8. CASE UNCHANGED vars
    <3>1. table' = table /\ plan' = plan /\ answer' = answer /\ wrote' = wrote
      BY <2>8, Zenon DEF vars
    <3>2. IInv'
      BY <2>0, <3>1, RecordStep, Zenon DEF recordVars
    <3>3. TableTyped' /\ PlanBuilt'
      BY <2>0, <3>1, Zenon DEF TableTyped, PlanBuilt
    <3>4. AnswerMeans'
      <4>1. Asked(plan.source)' = Asked(plan.source)
        BY <3>1, Zenon DEF Asked
      <4> QED
        BY <2>0, <3>1, <4>1, RightIs, Zenon
    <3> QED
      BY <3>2, <3>3, <3>4, Zenon DEF QueryInv
  <2> QED
    BY <1>2, <2>1, <2>4, <2>5, <2>6, <2>7, <2>8, Zenon DEF Next
<1> QED
  BY <1>1, <1>2, Zenon

\* A query answers what its predicate tree means on the rows there are when it is
\* executed, in the one order its terms and the key determine: for every schema,
\* every finite tree, every order and limit, whatever was written since.
THEOREM QueriesMean == Spec => []AnswerMeans
<1>1. QueryInv => AnswerMeans
  BY Zenon DEF QueryInv
<1> QED
  BY <1>1, QueryInvariant, PTL DEF Spec

\* compile_query and compile_exists_query refuse a draft exactly when its tree
\* has too many nodes in all, is too deep or has an inadmissible part, or its
\* order or limit is inadmissible: for every tree and every value of the limits.
THEOREM LimitsAreExact == Spec => []LimitsExact
<1>1. QueryInv => LimitsExact
  BY BuiltExact, Zenon DEF QueryInv
<1> QED
  BY <1>1, QueryInvariant, PTL DEF Spec

\* Queries only read: with them, the records behave as they do without, and what
\* was written is read back.
THEOREM QueriesOnlyRead == Spec => RecordSpec /\ []ReadsBack
<1>1. Init => RecordInit
  BY Zenon DEF Init
<1>2. [Next]_vars => [RecordNext \/ QueryStep]_recordVars
  BY NextReads, Zenon DEF vars, recordVars
<1>3. Spec => RecordSpec
  BY <1>1, <1>2, PTL DEF Spec, RecordSpec
<1> QED
  BY <1>3, RecordsReadBack, PTL

=============================================================================
