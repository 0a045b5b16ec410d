------------------------- MODULE CursorTraversalProofs -------------------------
(***************************************************************************)
(* Paging through a compiled report, for any plan the compiler accepts, any *)
(* data and any page size: a traversal stays within its result, and as long *)
(* as the order tells the groups apart its pages are those ResultReader     *)
(* promises.                                                                *)
(*                                                                          *)
(* The argument: the terms of the plan have integer values (TiesInv), so    *)
(* the order of the plan is a strict order, total on the rows of the        *)
(* report, and the k-th row delivered is the one with k - 1 rows before it, *)
(* whichever order an execution returned the rows in.                       *)
(***************************************************************************)
EXTENDS CursorTraversal, ObjectSQLCompilerProofs

-----------------------------------------------------------------------------
(***************************************************************************)
(* The values of a row depend on the plan alone: what CursorTraversal says  *)
(* of the current plan, for a plan that is given.                           *)
(***************************************************************************)
CellIn(srcs, row, alias, field) ==
    LET i == Position(srcs, alias)
    IN  CASE row[i] = NullRow -> 0
          [] row[i] # NullRow /\ field = "id" -> row[i]
          [] OTHER -> Content[srcs[i].object][row[i]][field]

ValueIn(srcs, row, tree) ==
    IF tree.node = "column" THEN CellIn(srcs, row, tree.op, tree.name)
    ELSE IF BucketOfColumn(tree) THEN CellIn(srcs, row, tree.args[1].op, tree.args[1].name) \div 2
    ELSE 0

TreeIn(projected, term) ==
    IF term.x.kind = "result" THEN ProjectedTree(projected, term.x.alias) ELSE term.tree

KeyIn(srcs, projected, terms, row) ==
    [i \in DOMAIN terms |-> ValueIn(srcs, row, TreeIn(projected, terms[i]))]

LEMMA ValuesAre ==
    /\ \A row, tree : TreeValue(row, tree) = ValueIn(sources, row, tree)
    /\ \A row, tree : TreeValue(row, tree)' = ValueIn(sources', row, tree)
  BY Zenon DEF TreeValue, Cell, ValueIn, CellIn

LEMMA KeysAre ==
    /\ \A row : GroupKey(row) = KeyIn(sources, projections, groupBy, row)
    /\ \A row : GroupKey(row)' = KeyIn(sources', projections', groupBy', row)
    /\ \A row : OrderKey(row) = KeyIn(sources, projections, orderBy, row)
    /\ \A row : OrderKey(row)' = KeyIn(sources', projections', orderBy', row)
  <1>1. /\ \A row, term : TermValue(row, term) = ValueIn(sources, row, TreeIn(projections, term))
        /\ \A row, term : TermValue(row, term)' = ValueIn(sources', row, TreeIn(projections', term))
    BY Zenon, ValuesAre DEF TermValue, OrderedTree, TreeIn
  <1> QED BY Zenon, <1>1 DEF GroupKey, OrderKey, KeyIn

\* The same plan orders rows alike.
LEMMA SameOrder ==
    ASSUME UNCHANGED <<sources, projections, groupBy, orderBy>>
    PROVE  /\ \A row : GroupKey(row)' = GroupKey(row)
           /\ \A row : OrderKey(row)' = OrderKey(row)
           /\ \A r, q : Precedes(r, q)' <=> Precedes(r, q)
           /\ JoinedRows' = JoinedRows
           /\ SingleRow' = SingleRow
  <1>1. /\ \A row : GroupKey(row)' = GroupKey(row)
        /\ \A row : OrderKey(row)' = OrderKey(row)
    BY KeysAre
  <1>2. \A r, q : Precedes(r, q)' <=> Precedes(r, q)
    BY <1>1 DEF Precedes
  <1>3. JoinedRows' = JoinedRows /\ SingleRow' = SingleRow
    BY DEF JoinedRows, SingleRow
  <1> QED BY <1>1, <1>2, <1>3

-----------------------------------------------------------------------------
(***************************************************************************)
(* The rows of a report and what has been delivered of them.                *)
(***************************************************************************)
RowsApart == groupBy # <<>> => \A r, q \in rows : GroupKey(r) = GroupKey(q) => r = q

ReadingInv ==
    /\ reading \in {"closed", "open", "whole"}
    /\ delivered \in Seq(rows)
    /\ reading = "closed" => rows = {} /\ delivered = <<>>
    /\ reading # "closed" =>
           /\ phase = "accepted"
           /\ rows # {} /\ IsFiniteSet(rows) /\ rows \subseteq JoinedRows
           /\ SingleRow => \A r, q \in rows : r = q
           /\ RowsApart
    /\ reading = "open" => Len(delivered) < Total
    /\ reading = "whole" => Len(delivered) = Total

LEMMA ResultIs ==
    ASSUME NEW joined, IsFiniteSet(joined), joined # {},
           NEW result, result = ResultOf(joined)
    PROVE  /\ result # {} /\ IsFiniteSet(result) /\ result \subseteq joined
           /\ SingleRow => \A r, q \in result : r = q
           /\ groupBy # <<>> => \A r, q \in result : GroupKey(r) = GroupKey(q) => r = q
  <1>1. CASE SingleRow
    <2>1. groupBy = <<>> /\ result = {CHOOSE row \in joined : TRUE}
      BY <1>1 DEF ResultOf, SingleRow
    <2>2. PICK r \in joined : result = {r}
      BY <2>1
    <2> QED BY <2>1, <2>2, FS_Singleton
  <1>2. CASE ~SingleRow /\ groupBy = <<>>
    BY <1>2 DEF ResultOf
  <1>3. CASE ~SingleRow /\ groupBy # <<>>
    <2> DEFINE keys == {GroupKey(r) : r \in joined}
               first(key) == CHOOSE row \in joined : GroupKey(row) = key
    <2>1. result = {first(key) : key \in keys}
      BY <1>3 DEF ResultOf
    <2>2. \A key \in keys : first(key) \in joined /\ GroupKey(first(key)) = key
      OBVIOUS
    <2>3. IsFiniteSet(result)
      <3>1. result \subseteq joined
        BY <2>1, <2>2
      <3> QED BY <3>1, FS_Subset
    <2>4. keys # {}
      OBVIOUS
    <2> HIDE DEF keys, first
    <2> QED BY <1>3, <2>1, <2>2, <2>3, <2>4
  <1> QED BY <1>1, <1>2, <1>3

LEMMA LowerIs ==
    ASSUME NEW a \in Int, NEW b \in Int
    PROVE  /\ LowerOf(a, b) \in Int /\ LowerOf(a, b) <= a /\ LowerOf(a, b) <= b
           /\ (LowerOf(a, b) = a \/ LowerOf(a, b) = b)
  BY DEF LowerOf

\* A traversal is for at least one row, and for no more than there are.
LEMMA TotalIs ==
    ASSUME CompilerInv, ReadingInv, reading # "closed"
    PROVE  /\ Cardinality(rows) \in Nat /\ limit.rows \in 1..MaximumLimit
           /\ Total \in 1..Cardinality(rows) /\ Total <= limit.rows
  <1>1. limit.rows \in 1..MaximumLimit
    BY DEF CompilerInv, PlanFinished, LimitFinished, Complete, ReadingInv
  <1>2. Cardinality(rows) \in Nat /\ Cardinality(rows) # 0
    BY FS_CardinalityType, FS_EmptySet DEF ReadingInv
  <1>3. MaximumLimit \in Nat
    BY CompilerAssumption
  <1> DEFINE n == limit.rows
             m == Cardinality(rows)
  <1>4. n \in 1..MaximumLimit /\ m \in Nat /\ m # 0 /\ Total = LowerOf(n, m)
    BY <1>1, <1>2 DEF Total
  <1> HIDE DEF n, m
  <1>5. LowerOf(n, m) \in 1..m /\ LowerOf(n, m) <= n
    BY ONLY <1>3, <1>4 DEF LowerOf
  <1> QED BY <1>4, <1>5 DEF n, m

\* What is read does not change while a plan is read.
LEMMA ReadingUnchanged ==
    ASSUME ReadingInv, UNCHANGED traversalVars
    PROVE  ReadingInv'
  <1>1. UNCHANGED <<phase, sources, projections, groupBy, orderBy, limit, reading, rows, delivered>>
    BY DEF traversalVars, plan
  <1> QED BY <1>1, SameOrder DEF ReadingInv, RowsApart, Total

\* Nothing is compiled once a plan is accepted.
LEMMA AcceptedIsLast == ASSUME Next PROVE phase # "accepted"
  <1> USE DEF Refuse
  <1>1. ASSUME NEW object, NEW alias, NEW join, NEW tree, CompileJoin(object, alias, join, tree)
        PROVE  phase # "accepted"
    <2>1. phase = "from"
      BY Zenon, <1>1 DEF CompileJoin
    <2> QED BY <2>1
  <1>2. ASSUME NEW alias, NEW tree, CompileProjection(alias, tree) PROVE phase # "accepted"
    <2>1. phase = "select"
      BY Zenon, <1>2 DEF CompileProjection
    <2> QED BY <2>1
  <1>3. ASSUME NEW clause \in {"where", "having"}, NEW tree, CompileFilter(clause, tree)
        PROVE  phase # "accepted"
    <2>1. phase = clause
      BY Zenon, <1>3 DEF CompileFilter
    <2> QED BY <2>1
  <1>4. ASSUME NEW tree, CompileOrderByTerm(tree) PROVE phase # "accepted"
    <2>1. phase = "order"
      BY Zenon, <1>4 DEF CompileOrderByTerm
    <2> QED BY <2>1
  <1>5. ASSUME NEW tree, CompileGroupTerm(tree) PROVE phase # "accepted"
    BY <1>5 DEF CompileGroupTerm
  <1>6. ASSUME NEW clause, FinishSelect(clause) PROVE phase # "accepted"
    BY <1>6 DEF FinishSelect
  <1>7. ASSUME NEW object, NEW alias, CompileRoot(object, alias) PROVE phase # "accepted"
    BY <1>7 DEF CompileRoot
  <1>8. ASSUME NEW clause \in {"where", "having"}, SkipFilter(clause) PROVE phase # "accepted"
    BY <1>8 DEF SkipFilter
  <1>9. CASE \/ CompileMetadata \/ Parse \/ FinishSources \/ FinishProjections \/ FinishGroupBy
             \/ ValidateAmplification
    BY <1>9 DEF CompileMetadata, Parse, FinishSources, FinishProjections, FinishGroupBy,
       ValidateAmplification
  <1> QED BY <1>1, <1>2, <1>3, <1>4, <1>5, <1>6, <1>7, <1>8, <1>9 DEF Next

(***************************************************************************)
(* A page continues what has been delivered with the next rows of an        *)
(* execution.                                                               *)
(***************************************************************************)
LEMMA SliceIs ==
    ASSUME NEW S, NEW s \in Seq(S), NEW n \in Nat, NEW m \in Nat, n < m, m <= Len(s),
           NEW page, page = SubSeq(s, n + 1, m)
    PROVE  /\ page \in Seq(S) /\ Len(page) = m - n
           /\ page \in [1..(m - n) -> S]
           /\ \A k \in 1..(m - n) : page[k] = s[n + k]
  <1>1. /\ page \in Seq(S) /\ Len(page) = m - n /\ DOMAIN page = 1..(m - n)
        /\ \A k \in 1..(m - n) : page[k] = s[n + k]
    OBVIOUS
  <1>2. page \in [1..(m - n) -> S]
    <2>1. \A k \in DOMAIN page : page[k] \in S
      BY <1>1
    <2>2. page = [k \in DOMAIN page |-> page[k]]
      BY <1>1
    <2> QED BY <1>1, <2>1, <2>2
  <1> QED BY <1>1, <1>2

LEMMA PageIs ==
    ASSUME NEW S, NEW d \in Seq(S), NEW s \in Seq(S), NEW m \in Nat, Len(d) < m, m <= Len(s),
           NEW page, page = SubSeq(s, Len(d) + 1, m), NEW e, e = d \o page
    PROVE  /\ e \in Seq(S) /\ Len(e) = m
           /\ \A k \in 1..Len(d) : e[k] = d[k]
           /\ \A k \in (Len(d) + 1)..m : e[k] = s[k]
  <1>1. /\ page \in Seq(S) /\ Len(page) = m - Len(d)
        /\ \A k \in 1..(m - Len(d)) : page[k] = s[Len(d) + k]
    BY SliceIs
  <1>2. /\ e \in Seq(S) /\ Len(e) = Len(d) + Len(page)
        /\ \A k \in 1..Len(d) : e[k] = d[k]
        /\ \A k \in (Len(d) + 1)..(Len(d) + Len(page)) : e[k] = page[k - Len(d)]
    BY <1>1
  <1>3. \A k \in (Len(d) + 1)..m : e[k] = s[k]
    BY <1>1, <1>2
  <1> QED BY <1>1, <1>2, <1>3

LEMMA ExecutionIs ==
    ASSUME CompilerInv, ReadingInv, reading # "closed", NEW s \in Executions
    PROVE  /\ s \in Seq(rows) /\ Len(s) = Cardinality(rows)
           /\ DOMAIN s = 1..Cardinality(rows)
           /\ \A i, k \in DOMAIN s : s[i] = s[k] => i = k
           /\ \A r \in rows : \E i \in DOMAIN s : s[i] = r
           /\ \A i, k \in DOMAIN s : i < k => ~Precedes(s[k], s[i])
  <1>1. Cardinality(rows) \in Nat
    BY TotalIs
  <1>2. /\ s \in Bijection(1..Cardinality(rows), rows)
        /\ \A i, k \in DOMAIN s : i < k => ~Precedes(s[k], s[i])
    BY DEF Executions
  <1>3. /\ s \in [1..Cardinality(rows) -> rows]
        /\ \A i, k \in DOMAIN s : s[i] = s[k] => i = k
        /\ \A r \in rows : \E i \in DOMAIN s : s[i] = r
    BY <1>2 DEF Bijection, Injection, Surjection, IsInjective
  <1>4. s \in Seq(rows) /\ Len(s) = Cardinality(rows) /\ DOMAIN s = 1..Cardinality(rows)
    BY <1>1, <1>3
  <1> QED BY <1>2, <1>3, <1>4

\* The end of the next page.
PageEnd == LowerOf(Len(delivered) + PageSize, Total)

LEMMA PageEnds ==
    ASSUME CompilerInv, ReadingInv, reading = "open"
    PROVE  /\ Len(delivered) \in Nat /\ Len(delivered) < PageEnd
           /\ PageEnd \in 1..Total /\ PageEnd <= Len(delivered) + PageSize
           /\ (PageEnd = Total \/ PageEnd = Len(delivered) + PageSize)
           /\ Total \in 1..Cardinality(rows) /\ Cardinality(rows) \in Nat
  <1>1. /\ Len(delivered) \in Nat /\ Len(delivered) < Total
        /\ Total \in 1..Cardinality(rows) /\ Cardinality(rows) \in Nat
    BY TotalIs DEF ReadingInv
  <1>2. PageSize \in Nat \ {0}
    BY TraversalAssumption
  <1> DEFINE n == Len(delivered)
             total == Total
             bound == Cardinality(rows)
  <1>3. n \in Nat /\ n < total /\ total \in 1..bound /\ bound \in Nat
    BY <1>1
  <1>4. PageEnd = LowerOf(n + PageSize, total)
    BY DEF PageEnd
  <1> HIDE DEF n, total, bound
  <1>5. /\ n < LowerOf(n + PageSize, total) /\ LowerOf(n + PageSize, total) \in 1..total
        /\ LowerOf(n + PageSize, total) <= n + PageSize
        /\ (LowerOf(n + PageSize, total) = total \/ LowerOf(n + PageSize, total) = n + PageSize)
    BY ONLY <1>2, <1>3 DEF LowerOf
  <1> QED BY <1>3, <1>4, <1>5 DEF n, total, bound

\* A page delivered, with the execution it came from.
LEMMA PageRead ==
    ASSUME CompilerInv, ReadingInv, ReadPage
    PROVE  \E s \in Executions :
              /\ delivered' = delivered \o SubSeq(s, Len(delivered) + 1, PageEnd)
              /\ delivered' \in Seq(rows) /\ Len(delivered') = PageEnd
              /\ \A k \in 1..Len(delivered) : delivered'[k] = delivered[k]
              /\ \A k \in (Len(delivered) + 1)..PageEnd : delivered'[k] = s[k]
  <1>1. reading = "open"
    BY DEF ReadPage
  <1>2. PICK s \in Executions :
            delivered' = delivered \o SubSeq(s, Len(delivered) + 1, PageEnd)
    BY DEF ReadPage, PageEnd
  <1>3. s \in Seq(rows) /\ Len(s) = Cardinality(rows) /\ delivered \in Seq(rows)
    BY <1>1, ExecutionIs DEF ReadingInv
  <1>4. PageEnd \in Nat /\ Len(delivered) < PageEnd /\ PageEnd <= Len(s)
    BY <1>1, <1>3, PageEnds
  <1> DEFINE page == SubSeq(s, Len(delivered) + 1, PageEnd)
             m == PageEnd
             e == delivered'
  <1>5. page = SubSeq(s, Len(delivered) + 1, m) /\ e = delivered \o page
    BY <1>2
  <1>6. m \in Nat /\ Len(delivered) < m /\ m <= Len(s)
    BY <1>4
  <1> HIDE DEF page, m, e
  <1>7. /\ e \in Seq(rows) /\ Len(e) = m
        /\ \A k \in 1..Len(delivered) : e[k] = delivered[k]
        /\ \A k \in (Len(delivered) + 1)..m : e[k] = s[k]
    BY ONLY <1>3, <1>5, <1>6, PageIs
  <1> QED BY <1>2, <1>7 DEF m, e

LEMMA ReadPageReads ==
    ASSUME CompilerInv, ReadingInv, ReadPage
    PROVE  ReadingInv'
  <1>1. /\ reading = "open" /\ UNCHANGED vars /\ UNCHANGED rows
        /\ reading' = IF Len(delivered') < Total THEN "open" ELSE "whole"
    BY DEF ReadPage
  <1>2. UNCHANGED <<phase, sources, projections, groupBy, orderBy, limit>>
    BY <1>1 DEF vars
  <1>3. Total' = Total
    BY <1>1, <1>2 DEF Total
  <1>4. delivered' \in Seq(rows) /\ Len(delivered') = PageEnd
    BY PageRead
  <1>5. reading' = "open" => Len(delivered') < Total
    BY <1>1
  <1>6. reading' = "whole" => Len(delivered') = Total
    <2>1. PageEnd \in 1..Total /\ Total \in Nat
      BY <1>1, PageEnds
    <2> QED BY <1>1, <1>4, <2>1
  <1>7. reading' \in {"open", "whole"}
    BY <1>1
  <1> QED BY <1>1, <1>2, <1>3, <1>4, <1>5, <1>6, <1>7, SameOrder DEF ReadingInv, RowsApart

LEMMA BeginReads ==
    ASSUME CompilerInv, ReadingInv,
           NEW joined, joined \subseteq JoinedRows, IsFiniteSet(joined), joined # {},
           Begin(joined)
    PROVE  ReadingInv'
  <1>1. /\ phase = "accepted" /\ rows' = ResultOf(joined) /\ reading' = "open"
        /\ reading = "closed" /\ UNCHANGED vars /\ UNCHANGED delivered
    BY DEF Begin
  <1>2. UNCHANGED <<phase, sources, projections, groupBy, orderBy, limit>>
    BY <1>1 DEF vars
  <1>3. /\ rows' # {} /\ IsFiniteSet(rows') /\ rows' \subseteq joined
        /\ SingleRow => \A r, q \in rows' : r = q
        /\ groupBy # <<>> => \A r, q \in rows' : GroupKey(r) = GroupKey(q) => r = q
    BY <1>1, ResultIs
  <1>4. delivered' \in Seq(rows') /\ Len(delivered') = 0
    BY <1>1 DEF ReadingInv
  <1>5. limit.rows \in 1..MaximumLimit
    BY <1>1 DEF CompilerInv, PlanFinished, LimitFinished, Complete
  <1>6. 0 < Total'
    <2> DEFINE n == limit.rows
               m == Cardinality(rows')
    <2>1. n \in 1..MaximumLimit /\ MaximumLimit \in Nat /\ m \in Nat /\ m # 0
      BY <1>3, <1>5, CompilerAssumption, FS_CardinalityType, FS_EmptySet
    <2>2. Total' = LowerOf(n, m)
      BY <1>2 DEF Total
    <2> HIDE DEF n, m
    <2>3. 0 < LowerOf(n, m)
      BY ONLY <2>1 DEF LowerOf
    <2> QED BY <2>2, <2>3
  <1>7. rows' \subseteq JoinedRows'
    BY <1>2, <1>3, SameOrder
  <1>8. /\ SingleRow' => \A r, q \in rows' : r = q
        /\ RowsApart'
    BY <1>2, <1>3, SameOrder DEF RowsApart
  <1>9. phase' = "accepted" /\ reading' = "open"
    BY <1>1, <1>2
  <1> QED BY ONLY <1>3, <1>4, <1>6, <1>7, <1>8, <1>9 DEF ReadingInv

LEMMA ReadingStep ==
    ASSUME CompilerInv, ReadingInv, [TraversalNext]_traversalVars
    PROVE  ReadingInv'
  <1>1. CASE CompileReport
    <2>1. /\ reading = "closed" /\ UNCHANGED <<reading, rows, delivered>>
      BY <1>1, AcceptedIsLast DEF CompileReport, ReadingInv
    <2> QED BY <2>1 DEF ReadingInv
  <1>2. ASSUME NEW joined \in {set \in SUBSET JoinedRows : IsFiniteSet(set)},
               Cardinality(joined) \in 1..MaxRows, Begin(joined)
        PROVE  ReadingInv'
    <2>1. joined # {}
      BY <1>2, FS_EmptySet
    <2> QED BY <1>2, <2>1, BeginReads
  <1>3. CASE ReadPage
    BY <1>3, ReadPageReads
  <1>4. CASE UNCHANGED traversalVars
    BY <1>4, ReadingUnchanged
  <1> QED BY <1>1, <1>2, <1>3, <1>4 DEF TraversalNext

LEMMA CompilationStep == [TraversalNext]_traversalVars => [Next]_vars
  BY DEF TraversalNext, CompileReport, Begin, ReadPage, traversalVars, vars, plan

LEMMA TraversalInvHolds == TraversalSpec => [](CompilerInv /\ ReadingInv)
  <1>1. TraversalInit => CompilerInv /\ ReadingInv
    BY CompilerStarts DEF TraversalInit, ReadingInv
  <1>2. CompilerInv /\ ReadingInv /\ [TraversalNext]_traversalVars => CompilerInv' /\ ReadingInv'
    BY CompilationStep, CompilerStep, ReadingStep
  <1> QED BY <1>1, <1>2, PTL DEF TraversalSpec

(***************************************************************************)
(* A traversal delivers rows of its result only, no more than the limit of  *)
(* the plan (object_sql_validation.go 386-403), and something before it     *)
(* ends: for any plan, data, page size and order of execution.              *)
(***************************************************************************)
THEOREM TraversalsAlwaysTyped == TraversalSpec => []TraversalTypeOK
  <1>1. CompilerInv /\ ReadingInv => TraversalTypeOK
    <2> SUFFICES ASSUME CompilerInv, ReadingInv PROVE TraversalTypeOK
      OBVIOUS
    <2>1. Elements(delivered) \subseteq rows
      BY DEF ReadingInv, Elements
    <2>2. Len(delivered) <= limit.rows
      <3>1. CASE reading = "closed"
        <4>1. Len(delivered) = 0
          BY <3>1 DEF ReadingInv
        <4>2. limit.rows \in Nat
          BY CompilerAssumption DEF CompilerInv, ControlInv
        <4> QED BY <4>1, <4>2
      <3>2. CASE reading # "closed"
        <4>1. /\ Len(delivered) \in Nat /\ Len(delivered) <= Total
          <5>1. reading = "open" \/ reading = "whole"
            BY <3>2 DEF ReadingInv
          <5>2. Total \in Nat
            BY <3>2, TotalIs
          <5> QED BY <5>1, <5>2 DEF ReadingInv
        <4> QED BY <3>2, <4>1, TotalIs
      <3> QED BY <3>1, <3>2
    <2>3. reading = "whole" => delivered # <<>>
      BY TotalIs DEF ReadingInv
    <2> QED BY <2>1, <2>2, <2>3 DEF TraversalTypeOK, ReadingInv
  <1> QED BY <1>1, TraversalInvHolds, PTL

-----------------------------------------------------------------------------
(***************************************************************************)
(* A compiled term and the tree it came from: the columns whose values tell *)
(* rows apart are among those the term mentions.                            *)
(***************************************************************************)
ColumnOf(tree) == [alias |-> tree.op, field |-> tree.name]

Tied(x, tree) ==
    /\ tree.node = "column" => ColumnOf(tree) \in x.refs
    /\ BucketOfColumn(tree) => ColumnOf(tree.args[1]) \in x.refs
    /\ x.kind = "field" => tree.node = "column" /\ tree.op = x.alias /\ tree.name = x.field

LEMMA ColumnIs ==
    ASSUME NEW context, NEW alias, NEW key, NEW y, y = CompileColumn(context, alias, key), Valid(y)
    PROVE  y.alias = alias /\ y.field = key /\ [alias |-> alias, field |-> key] \in y.refs
  <1> DEFINE object == context.aliases[alias]
             type == FieldType(FieldOf(object, key))
             ref == [alias |-> alias, field |-> key]
             x == [Blank EXCEPT !.kind = "field", !.alias = alias, !.field = key, !.refs = {ref}]
  <1>1. alias \in DOMAIN context.aliases /\ key \in ColumnsOf(object)
    BY Zenon, InvalidIs DEF CompileColumn
  <1>2. y = Require(type.type # "", TypedLike(x, type))
    BY Zenon, <1>1 DEF CompileColumn
  <1>3. DOMAIN x = Attributes /\ x.alias = alias /\ x.field = key /\ x.refs = {ref}
    BY DEF Blank, Attributes
  <1> HIDE DEF x, type, ref
  <1>4. y = TypedLike(x, type)
    BY <1>2, Requires
  <1>5. SameButType(y, x)
    BY <1>3, <1>4, TypedAlike
  <1> QED BY <1>3, <1>5 DEF SameButType, ref

LEMMA BucketIs ==
    ASSUME NEW context, NEW grain, NEW args, NEW y, y = CompileDateBucket(context, grain, args),
           Valid(y)
    PROVE  \A i \in DOMAIN args : args[i].refs \subseteq y.refs
  <1> DEFINE b == [Blank EXCEPT !.kind = "function", !.name = "date_bucket", !.value = grain]
             x == Over(b, args)
             z == TypedAs(x, "datetime", 0, 0)
  <1>1. y = z
    <2>1. \E c : y = Require(c, z)
      BY DEF CompileDateBucket
    <2> HIDE DEF z
    <2> QED BY <2>1, Requires
  <1>2. DOMAIN b = Attributes
    BY DEF Blank, Attributes
  <1> HIDE DEF b
  <1>3. /\ DOMAIN x = Attributes
        /\ x.refs = b.refs \cup UNION {args[i].refs : i \in DOMAIN args}
    BY <1>2, OverIs
  <1> HIDE DEF x
  <1>4. SameButType(z, x)
    BY <1>3, Typed
  <1>5. y.refs = b.refs \cup UNION {args[i].refs : i \in DOMAIN args}
    BY <1>1, <1>3, <1>4 DEF SameButType
  <1> QED BY <1>5

LEMMA ColumnNode ==
    ASSUME NEW context, NEW e, NEW args, NEW y, NodeArm(context, e, args, y), e.node = "column"
    PROVE  y = CompileColumn(context, e.op, e.name)
  BY DEF NodeArm

LEMMA BucketNode ==
    ASSUME NEW context, NEW e, NEW args, NEW y, NodeArm(context, e, args, y),
           e.node = "date_bucket"
    PROVE  y = CompileDateBucket(context, e.op, args)
  BY DEF NodeArm

\* The root of a compiled tree, over its compiled operands.
LEMMA RootIs ==
    ASSUME NEW context, IsScope(context), NEW trees, NEW depth, IsForest(trees, depth),
           NEW tree \in trees, NEW x, x = CompileExpression(context, trees, tree), Valid(x)
    PROVE  \E args : /\ DOMAIN args = DOMAIN tree.args
                     /\ \A i \in DOMAIN args :
                            /\ tree.args[i] \in trees
                            /\ args[i] = CompileExpression(context, trees, tree.args[i])
                            /\ Valid(args[i])
                     /\ NodeArm(context, tree, args, x)
                     /\ Kinded(tree, x)
  <1>1. PICK f : /\ Unfolds(context, f, trees)
                 /\ \A t : CompileExpression(context, trees, t) = f[t]
    BY CompiledDef
  <1> DEFINE n == Len(tree.args)
             args == [i \in DOMAIN tree.args |-> f[tree.args[i]]]
  <1>2. tree.args \in Seq(trees) /\ HasOperands(tree.node, n)
    BY DEF IsForest
  <1>3. n \in Nat /\ DOMAIN tree.args = 1..n /\ \A i \in 1..n : tree.args[i] \in trees
    BY <1>2
  <1>4. IsOperands(args, n) /\ \A i \in 1..n : args[i] = f[tree.args[i]]
    <2> DEFINE R == {f[tree.args[i]] : i \in 1..n}
    <2>1. args \in Seq(R) /\ Len(args) = n
      BY ONLY <1>3
    <2> QED BY <1>3, <2>1 DEF IsOperands
  <1>5. x = CompileNode(context, tree, args)
    BY <1>1 DEF Unfolds, Step
  <1> HIDE DEF args
  <1>6. NodeArm(context, tree, args, x) /\ \A i \in DOMAIN args : Valid(args[i])
    BY <1>5, NodeArms
  <1>7. \A i \in 1..n : args[i] = CompileExpression(context, trees, tree.args[i])
    BY <1>1, <1>4
  <1>8. \A i \in 1..n : Valid(args[i]) => Sound(context, args[i])
    BY <1>3, <1>7, CompiledExpressionsAreSound
  <1> HIDE DEF n
  <1>9. Kinded(tree, x)
    BY <1>2, <1>3, <1>4, <1>5, <1>8, NodeSound
  <1>10. DOMAIN args = 1..n
    BY <1>4 DEF IsOperands
  <1> QED BY <1>3, <1>6, <1>7, <1>9, <1>10

LEMMA CompiledIsTied ==
    ASSUME NEW context, IsScope(context), NEW trees, NEW depth, IsForest(trees, depth),
           NEW tree \in trees, NEW x, x = CompileExpression(context, trees, tree), Valid(x)
    PROVE  Tied(x, tree) /\ x.kind # "result"
  <1>1. PICK args : /\ DOMAIN args = DOMAIN tree.args
                    /\ \A i \in DOMAIN args :
                           /\ tree.args[i] \in trees
                           /\ args[i] = CompileExpression(context, trees, tree.args[i])
                           /\ Valid(args[i])
                    /\ NodeArm(context, tree, args, x)
                    /\ Kinded(tree, x)
    BY RootIs
  <1>2. ASSUME NEW e \in trees, e.node = "column", NEW y,
               y = CompileExpression(context, trees, e), Valid(y)
        PROVE  y.alias = e.op /\ y.field = e.name /\ ColumnOf(e) \in y.refs
    <2>1. \E operands : NodeArm(context, e, operands, y)
      BY <1>2, RootIs
    <2>2. y = CompileColumn(context, e.op, e.name)
      BY <1>2, <2>1, ColumnNode
    <2> QED BY <1>2, <2>2, ColumnIs DEF ColumnOf
  <1>3. ASSUME BucketOfColumn(tree) PROVE ColumnOf(tree.args[1]) \in x.refs
    <2>1. x = CompileDateBucket(context, tree.op, args)
      BY <1>1, <1>3, BucketNode DEF BucketOfColumn
    <2>2. 1 \in DOMAIN args
      <3>1. Len(args) = 1
        BY Zenon, <2>1, InvalidIs DEF CompileDateBucket, Require
      <3>2. DOMAIN args = 1..Len(tree.args) /\ Len(tree.args) \in Nat
        BY <1>1 DEF IsForest
      <3> QED BY <3>1, <3>2
    <2>3. ColumnOf(tree.args[1]) \in args[1].refs
      BY <1>1, <1>2, <1>3, <2>2 DEF BucketOfColumn
    <2>4. args[1].refs \subseteq x.refs
      BY <2>1, <2>2, BucketIs
    <2> QED BY <2>3, <2>4
  <1> QED BY <1>1, <1>2, <1>3 DEF Tied, Kinded

-----------------------------------------------------------------------------
(***************************************************************************)
(* The invariant of the terms: those of the projections and the groups are  *)
(* compiled from their tree, and so are those of the order but for the ones *)
(* that stand for a projection.                                             *)
(***************************************************************************)
TermTied(t) == t.x.kind # "result" /\ Tied(t.x, t.tree)

StandsFor(projected, t) ==
    /\ t.x.kind = "result" /\ t.tree.node = "column" /\ t.tree.op = ""
    /\ \E p \in Elements(projected) : p.alias = t.x.alias

OrderTied(projected, t) == TermTied(t) \/ StandsFor(projected, t)

TiesInv ==
    /\ \A s \in Elements(sources) : s.alias # ""
    /\ \A p \in Elements(projections) : TermTied(p)
    /\ \A t \in Elements(groupBy) : TermTied(t)
    /\ \A t \in Elements(orderBy) : OrderTied(projections, t)

LEMMA ElementsOf ==
    ASSUME NEW s, IsSequence(s), NEW e, NEW t, t = Append(s, e)
    PROVE  Elements(t) = Elements(s) \cup {e}
  <1>1. /\ Len(s) \in Nat /\ DOMAIN s = 1..Len(s) /\ DOMAIN t = 1..(Len(s) + 1)
        /\ \A i \in 1..Len(s) : t[i] = s[i]
        /\ t[Len(s) + 1] = e
    BY ONLY IsSequence(s), t = Append(s, e), Extended
  <1>2. \A i \in 1..(Len(s) + 1) : i \in 1..Len(s) \/ i = Len(s) + 1
    BY ONLY <1>1
  <1>3. 1..Len(s) \subseteq 1..(Len(s) + 1) /\ Len(s) + 1 \in 1..(Len(s) + 1)
    BY ONLY <1>1
  <1> QED BY <1>1, <1>2, <1>3 DEF Elements

LEMMA MoreProjections ==
    ASSUME NEW projected, NEW more, Elements(projected) \subseteq Elements(more),
           NEW t, OrderTied(projected, t)
    PROVE  OrderTied(more, t)
  BY DEF OrderTied, StandsFor

LEMMA IdTermTied == ASSUME NEW alias PROVE TermTied(IdTerm(alias))
  <1> DEFINE t == IdTerm(alias)
  <1>1. /\ t.x.kind = "field" /\ t.x.alias = alias /\ t.x.field = "id"
        /\ t.x.refs = {[alias |-> alias, field |-> "id"]}
    BY IdTermIs
  <1>2. t.tree.node = "column" /\ t.tree.op = alias /\ t.tree.name = "id"
    BY DEF IdTerm, Term, IdTree
  <1> HIDE DEF t
  <1>3. TermTied(t)
    BY <1>1, <1>2 DEF TermTied, Tied, ColumnOf, BucketOfColumn
  <1> QED BY <1>3 DEF t

LEMMA CompiledTermTied ==
    ASSUME DeclarationInv, BindingInv, phase \notin {"metadata", "refused"},
           NEW tree \in Trees, NEW x, x = Compiled(sources, tree), Valid(x)
    PROVE  Tied(x, tree) /\ x.kind # "result"
  <1>1. /\ ValidDeclarations /\ OneSourceEach(sources)
        /\ \A i \in DOMAIN sources : sources[i].object \in Objects
    BY DEF DeclarationInv, BindingInv, SourcesBound, SourceBound
  <1>2. IsScope(Scope(sources))
    BY <1>1, ScopesAre
  <1>3. IsForest(Trees, Depth)
    BY CompilerAssumption
  <1>4. x = CompileExpression(Scope(sources), Trees, tree)
    BY DEF Compiled
  <1> QED BY <1>2, <1>3, <1>4, CompiledIsTied

LEMMA TiesUnchanged ==
    ASSUME TiesInv, UNCHANGED <<sources, projections, groupBy, orderBy>>
    PROVE  TiesInv'
  BY DEF TiesInv

LEMMA RootTies ==
    ASSUME TiesInv, NEW object, NEW alias, CompileRoot(object, alias), phase' # "refused"
    PROVE  TiesInv'
  <1> DEFINE s == Source(object, alias, "", "", Blank)
  <1>1. /\ sources' = <<s>> /\ alias # "" /\ UNCHANGED <<projections, groupBy, orderBy>>
    BY DEF CompileRoot, Refuse, BindableTable
  <1>2. s.alias = alias
    BY DEF Source
  <1> HIDE DEF s
  <1>3. Elements(sources') = {s}
    <2>1. DOMAIN <<s>> = {1} /\ <<s>>[1] = s
      OBVIOUS
    <2>2. Elements(<<s>>) = {s}
      BY <2>1 DEF Elements
    <2> QED BY <1>1, <2>2
  <1> QED BY <1>1, <1>2, <1>3 DEF TiesInv

LEMMA JoinTies ==
    ASSUME DeclarationInv, TiesInv, NEW object, NEW alias, NEW join, NEW tree,
           CompileJoin(object, alias, join, tree), phase' # "refused"
    PROVE  TiesInv'
  <1> DEFINE on == Compiled(Append(sources, Source(object, alias, join, "", Blank)), tree)
             inferred == InferJoinCardinality(
                             Append(sources, Source(object, alias, join, "", Blank)),
                             alias, on.eqs)
             s == Source(object, alias, join, inferred, on)
  <1>1. /\ sources' = Append(sources, s) /\ BindableTable(object, alias)
        /\ UNCHANGED <<projections, groupBy, orderBy>>
    BY Zenon DEF CompileJoin, Refuse
  <1>2. s.alias = alias
    BY DEF Source
  <1>3. alias # ""
    BY <1>1 DEF BindableTable
  <1> HIDE DEF s
  <1>4. Elements(sources') = Elements(sources) \cup {s}
    BY <1>1, ElementsOf DEF DeclarationInv, SourcesInv
  <1> QED BY <1>1, <1>2, <1>3, <1>4 DEF TiesInv

LEMMA ProjectionTies ==
    ASSUME DeclarationInv, BindingInv, TiesInv, NEW alias, NEW tree \in SelectTrees,
           CompileProjection(alias, tree), phase' # "refused"
    PROVE  TiesInv'
  <1>1. PICK x : /\ x = Compiled(sources, tree) /\ Valid(x) /\ phase = "select"
                 /\ projections' = Append(projections, [alias |-> alias, x |-> x, tree |-> tree])
                 /\ UNCHANGED <<sources, groupBy, orderBy>>
    BY Projected
  <1> DEFINE p == [alias |-> alias, x |-> x, tree |-> tree]
  <1>2. p.x = x /\ p.tree = tree /\ projections' = Append(projections, p)
    BY <1>1
  <1> HIDE DEF p
  <1>3. tree \in Trees
    BY CompilerAssumption
  <1>4. TermTied(p)
    BY <1>1, <1>2, <1>3, CompiledTermTied DEF TermTied
  <1>5. Elements(projections') = Elements(projections) \cup {p}
    BY <1>2, ElementsOf DEF DeclarationInv, ResultsInv
  <1>6. \A t : OrderTied(projections, t) => OrderTied(projections', t)
    BY <1>5, MoreProjections
  <1> QED BY <1>1, <1>4, <1>5, <1>6 DEF TiesInv

LEMMA GroupTies ==
    ASSUME DeclarationInv, BindingInv, TiesInv, NEW tree \in GroupTrees,
           CompileGroupTerm(tree), phase' # "refused"
    PROVE  TiesInv'
  <1> DEFINE x == Compiled(sources, tree)
             t == Term(x, tree)
  <1>1. /\ Valid(x) /\ phase = "group" /\ groupBy' = Append(groupBy, t)
        /\ UNCHANGED <<sources, projections, orderBy>>
    BY Zenon DEF CompileGroupTerm, Refuse
  <1>2. tree \in Trees
    BY CompilerAssumption
  <1>3. t.x = x /\ t.tree = tree
    BY DEF Term
  <1>4. Tied(x, tree) /\ x.kind # "result"
    BY <1>1, <1>2, CompiledTermTied
  <1> HIDE DEF x, t
  <1>5. Elements(groupBy') = Elements(groupBy) \cup {t}
    BY <1>1, ElementsOf DEF BindingInv
  <1> QED BY <1>1, <1>3, <1>4, <1>5 DEF TiesInv, TermTied

LEMMA OrderTies ==
    ASSUME DeclarationInv, BindingInv, TiesInv, NEW tree \in OrderTrees,
           CompileOrderByTerm(tree), phase' # "refused"
    PROVE  TiesInv'
  <1> DEFINE x == CompileOrderTerm(Scope(sources), ProjectionByAlias, Trees, tree)
             t == Term(x, tree)
             named == tree.node = "column" /\ tree.op = "" /\ tree.name \in DOMAIN ProjectionByAlias
  <1>1. /\ Valid(x) /\ phase = "order" /\ orderBy' = Append(orderBy, t)
        /\ UNCHANGED <<sources, projections, groupBy>>
    BY Zenon DEF CompileOrderByTerm, Refuse
  <1>2. t.x = x /\ t.tree = tree
    BY DEF Term
  <1>3. OrderTied(projections, t)
    <2>1. CASE named
      <3> DEFINE b == [Blank EXCEPT !.kind = "result", !.alias = tree.name]
                 p == ProjectionByAlias[tree.name]
      <3>1. x = TypedLike(b, p)
        BY <2>1 DEF CompileOrderTerm
      <3>2. DOMAIN b = Attributes /\ b.kind = "result" /\ b.alias = tree.name
        BY DEF Blank, Attributes
      <3>3. \E q \in Elements(projections) : q.alias = tree.name
        BY <2>1 DEF ProjectionByAlias
      <3> HIDE DEF b, p, x
      <3>4. x.kind = "result" /\ x.alias = tree.name
        BY <3>1, <3>2, TypedAlike DEF SameButType
      <3> HIDE DEF t
      <3> QED BY <1>2, <2>1, <3>3, <3>4 DEF OrderTied, StandsFor
    <2>2. CASE ~named
      <3>1. x = Compiled(sources, tree)
        BY <2>2 DEF CompileOrderTerm, Compiled
      <3>2. tree \in Trees
        BY CompilerAssumption
      <3> HIDE DEF x, t
      <3>3. Tied(x, tree) /\ x.kind # "result"
        BY <1>1, <3>1, <3>2, CompiledTermTied
      <3> QED BY <1>2, <3>3 DEF OrderTied, TermTied
    <2> QED BY <2>1, <2>2
  <1> HIDE DEF x, t
  <1>4. Elements(orderBy') = Elements(orderBy) \cup {t}
    BY <1>1, ElementsOf DEF BindingInv
  <1> QED BY <1>1, <1>3, <1>4 DEF TiesInv

LEMMA FilledTies ==
    ASSUME DeclarationInv, BindingInv, TiesInv, NEW clause, FinishSelect(clause),
           phase' # "refused"
    PROVE  TiesInv'
  <1>1. /\ orderBy' = StableOrder /\ DOMAIN sources' = DOMAIN sources
        /\ \A i \in DOMAIN sources : sources'[i].alias = sources[i].alias
        /\ UNCHANGED <<projections, groupBy>>
    BY Filled
  <1>2. IsSequence(sources)
    BY DEF DeclarationInv, SourcesInv
  <1>3. IsSequence(orderBy) /\ IsSequence(TieCandidates)
    BY <1>2, TiesMention DEF BindingInv
  <1>4. Elements(StableOrder) \subseteq Elements(orderBy) \cup Elements(TieCandidates)
    BY <1>3, StableOrderIs
  <1>5. \A t \in Elements(TieCandidates) : TermTied(t)
    <2>1. CASE groupBy # <<>>
      BY <2>1 DEF TieCandidates, TiesInv
    <2>2. CASE groupBy = <<>> /\ SingleRow
      BY <2>2 DEF TieCandidates, Elements
    <2>3. CASE groupBy = <<>> /\ ~SingleRow
      <3> DEFINE ties == [i \in DOMAIN sources |-> IdTerm(sources[i].alias)]
      <3>1. TieCandidates = ties
        BY <2>3 DEF TieCandidates
      <3>2. \A t \in Elements(ties) : \E alias : t = IdTerm(alias)
        BY DEF Elements
      <3> HIDE DEF ties
      <3> QED BY <3>1, <3>2, IdTermTied
    <2> QED BY <2>1, <2>2, <2>3
  <1>6. \A s \in Elements(sources') : s.alias # ""
    BY <1>1 DEF TiesInv, Elements
  <1>7. \A t \in Elements(orderBy') : OrderTied(projections, t)
    BY <1>1, <1>4, <1>5 DEF TiesInv, OrderTied
  <1> QED BY <1>1, <1>6, <1>7 DEF TiesInv

LEMMA TiesStep ==
    ASSUME DeclarationInv, BindingInv, TiesInv, [Next]_vars
    PROVE  TiesInv'
  <1> USE DEF Refuse, plan
  <1>1. ASSUME NEW object, NEW alias, CompileRoot(object, alias) PROVE TiesInv'
    BY <1>1, RootTies, TiesUnchanged DEF CompileRoot
  <1>2. ASSUME NEW object, NEW alias, NEW join, NEW tree, CompileJoin(object, alias, join, tree)
        PROVE  TiesInv'
    BY <1>2, JoinTies, TiesUnchanged DEF CompileJoin
  <1>3. ASSUME NEW alias, NEW tree \in SelectTrees, CompileProjection(alias, tree)
        PROVE  TiesInv'
    BY <1>3, ProjectionTies, TiesUnchanged DEF CompileProjection
  <1>4. ASSUME NEW clause, NEW tree, CompileFilter(clause, tree) PROVE TiesInv'
    <2>1. UNCHANGED <<sources, projections, groupBy, orderBy>>
      BY Zenon, <1>4 DEF CompileFilter
    <2> QED BY <2>1, TiesUnchanged
  <1>5. ASSUME NEW clause, SkipFilter(clause) PROVE TiesInv'
    BY <1>5, TiesUnchanged DEF SkipFilter
  <1>6. ASSUME NEW tree \in GroupTrees, CompileGroupTerm(tree) PROVE TiesInv'
    BY <1>6, GroupTies, TiesUnchanged DEF CompileGroupTerm
  <1>7. ASSUME NEW tree \in OrderTrees, CompileOrderByTerm(tree) PROVE TiesInv'
    BY <1>7, OrderTies, TiesUnchanged DEF CompileOrderByTerm
  <1>8. ASSUME NEW clause, FinishSelect(clause) PROVE TiesInv'
    BY <1>8, FilledTies, TiesUnchanged DEF FinishSelect
  <1>9. CASE \/ CompileMetadata \/ Parse \/ FinishSources \/ FinishProjections \/ FinishGroupBy
             \/ ValidateAmplification \/ UNCHANGED vars
    BY <1>9, TiesUnchanged DEF CompileMetadata, Parse, FinishSources, FinishProjections,
       FinishGroupBy, ValidateAmplification, vars
  <1> QED BY <1>1, <1>2, <1>3, <1>4, <1>5, <1>6, <1>7, <1>8, <1>9 DEF Next

-----------------------------------------------------------------------------
(***************************************************************************)
(* Sequences of numbers of one length, compared at the first difference.    *)
(***************************************************************************)
LexLess(n, a, b) == \E i \in 1..n : a[i] < b[i] /\ \A k \in 1..(i - 1) : a[k] = b[k]

LEMMA LexIsStrict ==
    ASSUME NEW n \in Nat, NEW a, \A i \in 1..n : a[i] \in Int
    PROVE  ~LexLess(n, a, a)
  BY DEF LexLess

LEMMA LexIsTransitive ==
    ASSUME NEW n \in Nat, NEW a, NEW b, NEW c,
           \A i \in 1..n : a[i] \in Int /\ b[i] \in Int /\ c[i] \in Int,
           LexLess(n, a, b), LexLess(n, b, c)
    PROVE  LexLess(n, a, c)
  <1>1. PICK i \in 1..n : a[i] < b[i] /\ \A k \in 1..(i - 1) : a[k] = b[k]
    BY DEF LexLess
  <1>2. PICK j \in 1..n : b[j] < c[j] /\ \A k \in 1..(j - 1) : b[k] = c[k]
    BY DEF LexLess
  <1>3. CASE i < j
    <2>1. a[i] < c[i]
      BY <1>1, <1>2, <1>3
    <2>2. \A k \in 1..(i - 1) : a[k] = c[k]
      BY <1>1, <1>2, <1>3
    <2> QED BY <2>1, <2>2 DEF LexLess
  <1>4. CASE j <= i
    <2>1. a[j] < c[j]
      BY <1>1, <1>2, <1>4
    <2>2. \A k \in 1..(j - 1) : a[k] = c[k]
      BY <1>1, <1>2, <1>4
    <2> QED BY <2>1, <2>2 DEF LexLess
  <1> QED BY <1>3, <1>4

LEMMA LexIsTotal ==
    ASSUME NEW n \in Nat, NEW a, NEW b, \A i \in 1..n : a[i] \in Int /\ b[i] \in Int,
           NEW i \in 1..n, a[i] # b[i]
    PROVE  LexLess(n, a, b) \/ LexLess(n, b, a)
  <1> DEFINE Differ == {k \in 1..n : a[k] # b[k]}
  <1>1. Differ \subseteq Nat /\ Differ # {}
    OBVIOUS
  <1>2. PICK j \in Differ : \A k \in Differ : j <= k
    <2> HIDE DEF Differ
    <2> QED BY <1>1, Least
  <1>3. \A k \in 1..(j - 1) : a[k] = b[k]
    BY <1>2
  <1>4. a[j] < b[j] \/ b[j] < a[j]
    BY <1>2
  <1> QED BY <1>2, <1>3, <1>4 DEF LexLess

-----------------------------------------------------------------------------
(***************************************************************************)
(* The order of a plan, on the rows of its report.                          *)
(***************************************************************************)
LEMMA CellIs ==
    ASSUME BindingInv, NEW row \in JoinedRows, NEW i \in DOMAIN sources,
           NEW field \in ColumnsOf(sources[i].object)
    PROVE  /\ Cell(row, sources[i].alias, field) \in Int
           /\ field = "id" =>
                  Cell(row, sources[i].alias, field) = IF row[i] = NullRow THEN 0 ELSE row[i]
  <1> DEFINE object == sources[i].object
             c == Cell(row, sources[i].alias, field)
  <1>1. Position(sources, sources[i].alias) = i /\ object \in Objects
    BY LookUp DEF BindingInv, SourcesBound, SourceBound
  <1>2. row[i] \in RowIds[object] \/ row[i] = NullRow
    BY DEF JoinedRows
  <1>3. c = CASE row[i] = NullRow -> 0
              [] row[i] # NullRow /\ field = "id" -> row[i]
              [] OTHER -> Content[object][row[i]][field]
    BY Zenon, <1>1 DEF Cell
  <1>4. /\ row[i] = NullRow => c = 0
        /\ row[i] # NullRow /\ field = "id" => c = row[i]
        /\ row[i] # NullRow /\ field # "id" => c = Content[object][row[i]][field]
    <2> HIDE DEF c
    <2> QED BY Zenon, <1>3
  <1>5. /\ \A r \in RowIds[object] : r \in Nat
        /\ \A r \in RowIds[object] : \A f \in ColumnsOf(object) \ {"id"} : Content[object][r][f] \in Int
    BY <1>1, TraversalAssumption
  <1> HIDE DEF c, object
  <1>6. c \in Int
    BY <1>2, <1>4, <1>5 DEF object
  <1> QED BY <1>4, <1>6 DEF c

\* A column the plan mentions has a number in every row.
LEMMA MentionedCell ==
    ASSUME BindingInv, NEW row \in JoinedRows, NEW x, Mentions(sources, x),
           NEW column, ColumnOf(column) \in x.refs
    PROVE  Cell(row, column.op, column.name) \in Int
  <1> DEFINE ref == ColumnOf(column)
  <1>1. ref.alias = column.op /\ ref.field = column.name
    BY DEF ColumnOf
  <1> HIDE DEF ref
  <1>2. PICK i \in DOMAIN sources : Delivers(sources[i], ref)
    BY MentionedIs DEF BindingInv, SourcesBound, ref
  <1> QED BY <1>1, <1>2, CellIs DEF Delivers

LEMMA TreeIs ==
    ASSUME BindingInv, NEW row \in JoinedRows, NEW x, Mentions(sources, x),
           NEW tree, Tied(x, tree)
    PROVE  TreeValue(row, tree) \in Int
  <1>1. CASE tree.node = "column"
    BY <1>1, MentionedCell DEF TreeValue, Tied
  <1>2. CASE tree.node # "column" /\ BucketOfColumn(tree)
    <2> DEFINE cell == Cell(row, tree.args[1].op, tree.args[1].name)
    <2>1. cell \in Int
      BY <1>2, MentionedCell DEF Tied
    <2>2. TreeValue(row, tree) = cell \div 2
      BY <1>2 DEF TreeValue
    <2> HIDE DEF cell
    <2> QED BY <2>1, <2>2
  <1>3. CASE tree.node # "column" /\ ~BucketOfColumn(tree)
    BY <1>3 DEF TreeValue
  <1> QED BY <1>1, <1>2, <1>3

LEMMA TermIs ==
    ASSUME BindingInv, TiesInv, NEW row \in JoinedRows,
           NEW t \in Elements(orderBy) \cup Elements(groupBy)
    PROVE  TermValue(row, t) \in Int
  <1>1. CASE TermTied(t)
    <2>1. Mentions(sources, t.x)
      BY DEF BindingInv, TermsMention, Elements
    <2>2. OrderedTree(t) = t.tree
      BY <1>1 DEF OrderedTree, TermTied
    <2> QED BY <1>1, <2>1, <2>2, TreeIs DEF TermValue, TermTied
  <1>2. CASE StandsFor(projections, t)
    <2> DEFINE p == CHOOSE q \in Elements(projections) : q.alias = t.x.alias
    <2>1. p \in Elements(projections)
      BY <1>2 DEF StandsFor
    <2>2. OrderedTree(t) = p.tree
      BY <1>2 DEF OrderedTree, StandsFor, ProjectedTree
    <2> HIDE DEF p
    <2>3. Tied(p.x, p.tree) /\ Mentions(sources, p.x)
      BY <2>1 DEF TiesInv, TermTied, BindingInv, TermsMention, Elements
    <2> QED BY <2>2, <2>3, TreeIs DEF TermValue
  <1> QED BY <1>1, <1>2 DEF TiesInv, OrderTied

LEMMA OrderIs ==
    ASSUME BindingInv, TiesInv
    PROVE  /\ Len(orderBy) \in Nat /\ DOMAIN orderBy = 1..Len(orderBy)
           /\ \A row \in JoinedRows, i \in 1..Len(orderBy) :
                  OrderKey(row)[i] = TermValue(row, orderBy[i]) /\ OrderKey(row)[i] \in Int
           /\ \A r, q : Precedes(r, q) <=> LexLess(Len(orderBy), OrderKey(r), OrderKey(q))
  <1>1. Len(orderBy) \in Nat /\ DOMAIN orderBy = 1..Len(orderBy)
    BY DEF BindingInv, IsSequence
  <1>2. ASSUME NEW row \in JoinedRows, NEW i \in 1..Len(orderBy)
        PROVE  OrderKey(row)[i] = TermValue(row, orderBy[i]) /\ OrderKey(row)[i] \in Int
    <2>1. OrderKey(row)[i] = TermValue(row, orderBy[i])
      BY <1>1 DEF OrderKey
    <2>2. orderBy[i] \in Elements(orderBy)
      BY <1>1 DEF Elements
    <2> QED BY <2>1, <2>2, TermIs
  <1>3. \A r, q : Precedes(r, q) <=> LexLess(Len(orderBy), OrderKey(r), OrderKey(q))
    BY <1>1 DEF Precedes, LexLess
  <1> QED BY <1>1, <1>2, <1>3

LEMMA OrderIsStrict ==
    ASSUME BindingInv, TiesInv
    PROVE  /\ \A r \in JoinedRows : ~Precedes(r, r)
           /\ \A r, q, p \in JoinedRows : Precedes(r, q) /\ Precedes(q, p) => Precedes(r, p)
  <1>1. ASSUME NEW r \in JoinedRows PROVE ~Precedes(r, r)
    BY OrderIs, LexIsStrict
  <1>2. ASSUME NEW r \in JoinedRows, NEW q \in JoinedRows, NEW p \in JoinedRows,
               Precedes(r, q), Precedes(q, p)
        PROVE  Precedes(r, p)
    <2> DEFINE n == Len(orderBy)
               a == OrderKey(r)
               b == OrderKey(q)
               c == OrderKey(p)
    <2>1. /\ n \in Nat /\ LexLess(n, a, b) /\ LexLess(n, b, c)
          /\ \A i \in 1..n : a[i] \in Int /\ b[i] \in Int /\ c[i] \in Int
      BY <1>2, OrderIs
    <2> HIDE DEF n, a, b, c
    <2>2. LexLess(n, a, c)
      BY <2>1, LexIsTransitive
    <2> QED BY <2>2, OrderIs DEF n, a, c
  <1> QED BY <1>1, <1>2

\* A term of the order with the tree of a group has the value of the group.
LEMMA SameTree ==
    ASSUME BindingInv, TiesInv, NEW g \in Elements(groupBy), NEW t \in Elements(orderBy),
           t.tree = g.tree
    PROVE  \A row : TermValue(row, t) = TermValue(row, g)
  <1>1. TermTied(g) /\ Mentions(sources, g.x)
    BY DEF TiesInv, BindingInv, TermsMention, Elements
  <1>2. ~StandsFor(projections, t)
    <2> SUFFICES ASSUME g.tree.node = "column", g.tree.op = "" PROVE FALSE
      BY DEF StandsFor
    <2> DEFINE ref == ColumnOf(g.tree)
    <2>1. ref \in g.x.refs /\ ref.alias = ""
      BY <1>1 DEF TermTied, Tied, ColumnOf
    <2> HIDE DEF ref
    <2>2. PICK i \in DOMAIN sources : Delivers(sources[i], ref)
      BY <1>1, <2>1, MentionedIs DEF BindingInv, SourcesBound
    <2> QED BY <2>1, <2>2 DEF Delivers, TiesInv, Elements
  <1>3. TermTied(t)
    BY <1>2 DEF TiesInv, OrderTied
  <1>4. OrderedTree(t) = g.tree /\ OrderedTree(g) = g.tree
    BY <1>1, <1>3 DEF OrderedTree, TermTied
  <1> QED BY <1>4 DEF TermValue

\* The tie term of a source tells its rows apart.
LEMMA IdsApart ==
    ASSUME BindingInv, TiesInv, NEW r \in JoinedRows, NEW q \in JoinedRows,
           NEW i \in DOMAIN sources, r[i] # q[i],
           NEW t \in Elements(orderBy),
           t.x.kind = "field", t.x.alias = sources[i].alias, t.x.field = "id"
    PROVE  TermValue(r, t) # TermValue(q, t)
  <1> DEFINE object == sources[i].object
             value(row) == Cell(row, sources[i].alias, "id")
  <1>1. TermTied(t)
    BY DEF TiesInv, OrderTied, StandsFor
  <1>2. /\ OrderedTree(t) = t.tree /\ t.tree.node = "column"
        /\ t.tree.op = sources[i].alias /\ t.tree.name = "id"
    BY <1>1 DEF OrderedTree, TermTied, Tied
  <1>3. TermValue(r, t) = value(r) /\ TermValue(q, t) = value(q)
    BY <1>2 DEF TermValue, TreeValue
  <1>4. "id" \in ColumnsOf(object) /\ object \in Objects
    BY EnvelopeIs DEF ColumnsOf, BindingInv, SourcesBound, SourceBound
  <1>5. /\ value(r) = IF r[i] = NullRow THEN 0 ELSE r[i]
        /\ value(q) = IF q[i] = NullRow THEN 0 ELSE q[i]
    BY <1>4, CellIs
  <1>6. /\ r[i] \in RowIds[object] \/ r[i] = NullRow
        /\ q[i] \in RowIds[object] \/ q[i] = NullRow
    BY DEF JoinedRows
  <1>7. RowIds[object] \subseteq Nat \ {0}
    BY <1>4, TraversalAssumption
  <1> HIDE DEF value, object
  <1>8. value(r) # value(q)
    BY <1>5, <1>6, <1>7
  <1> QED BY <1>3, <1>8

LEMMA OrderIsTotal ==
    ASSUME CompilerInv, TiesInv, ReadingInv, reading # "closed", GroupedOrderIsTotal,
           NEW r \in rows, NEW q \in rows, r # q
    PROVE  Precedes(r, q) \/ Precedes(q, r)
  <1>1. BindingInv /\ Complete /\ r \in JoinedRows /\ q \in JoinedRows
    BY DEF CompilerInv, ReadingInv, Complete
  <1>2. \E t \in Elements(orderBy) : TermValue(r, t) # TermValue(q, t)
    <2>1. ~SingleRow
      BY DEF ReadingInv
    <2>2. CASE groupBy = <<>>
      <3>1. PICK i \in DOMAIN sources : r[i] # q[i]
        <4>1. /\ r = [i \in DOMAIN sources |-> r[i]]
              /\ q = [i \in DOMAIN sources |-> q[i]]
          BY <1>1 DEF JoinedRows
        <4> QED BY <4>1
      <3>2. sources[i] \in Elements(sources)
        BY DEF Elements
      <3>3. PICK t \in Elements(orderBy) :
                t.x.kind = "field" /\ t.x.alias = sources[i].alias /\ t.x.field = "id"
        BY <1>1, <2>1, <2>2, <3>2 DEF CompilerInv, PlanFinished, UngroupedOrderIsTotal
      <3> QED BY <1>1, <3>1, <3>3, IdsApart
    <2>3. CASE groupBy # <<>>
      <3>1. GroupKey(r) # GroupKey(q)
        BY <2>3 DEF ReadingInv, RowsApart
      <3>2. PICK i \in DOMAIN groupBy : TermValue(r, groupBy[i]) # TermValue(q, groupBy[i])
        BY <3>1 DEF GroupKey
      <3>3. groupBy[i] \in Elements(groupBy)
        BY DEF Elements
      <3>4. PICK t \in Elements(orderBy) : t.tree = groupBy[i].tree
        BY <1>1, <3>3 DEF GroupedOrderIsTotal
      <3> QED BY <1>1, <3>2, <3>3, <3>4, SameTree
    <2> QED BY <2>2, <2>3
  <1>3. PICK i \in 1..Len(orderBy) : TermValue(r, orderBy[i]) # TermValue(q, orderBy[i])
    BY <1>1, <1>2, OrderIs DEF Elements
  <1> DEFINE n == Len(orderBy)
             a == OrderKey(r)
             b == OrderKey(q)
  <1>4. /\ n \in Nat /\ i \in 1..n /\ a[i] # b[i]
        /\ \A k \in 1..n : a[k] \in Int /\ b[k] \in Int
    BY <1>1, <1>3, OrderIs
  <1> HIDE DEF n, a, b
  <1>5. LexLess(n, a, b) \/ LexLess(n, b, a)
    BY <1>4, LexIsTotal
  <1> QED BY <1>1, <1>5, OrderIs DEF n, a, b

-----------------------------------------------------------------------------
(***************************************************************************)
(* The rank of a row: how many rows come before it.  Every execution        *)
(* returns the rows by rank.                                                *)
(***************************************************************************)
Before(row) == {q \in rows : Precedes(q, row)}

PrecedesIn(srcs, projected, terms, r, q) ==
    \E i \in DOMAIN terms :
        /\ KeyIn(srcs, projected, terms, r)[i] < KeyIn(srcs, projected, terms, q)[i]
        /\ \A k \in 1..(i - 1) :
               KeyIn(srcs, projected, terms, r)[k] = KeyIn(srcs, projected, terms, q)[k]

RankIn(all, srcs, projected, terms, row) ==
    Cardinality({q \in all : PrecedesIn(srcs, projected, terms, q, row)})

Rank(row) == RankIn(rows, sources, projections, orderBy, row)

LEMMA RankIs == \A row : Rank(row) = Cardinality(Before(row))
  <1>1. \A r, q : Precedes(r, q) <=> PrecedesIn(sources, projections, orderBy, r, q)
    BY KeysAre DEF Precedes, PrecedesIn
  <1>2. \A row : Before(row) = {q \in rows : PrecedesIn(sources, projections, orderBy, q, row)}
    BY <1>1 DEF Before
  <1> QED BY <1>2 DEF Rank, RankIn

LEMMA ExecutionRanks ==
    ASSUME CompilerInv, TiesInv, ReadingInv, reading # "closed", GroupedOrderIsTotal,
           NEW s \in Executions, NEW k \in 1..Cardinality(rows)
    PROVE  Rank(s[k]) = k - 1
  <1>1. /\ s \in Seq(rows) /\ DOMAIN s = 1..Cardinality(rows) /\ Cardinality(rows) \in Nat
        /\ \A i, j \in DOMAIN s : s[i] = s[j] => i = j
        /\ \A r \in rows : \E i \in DOMAIN s : s[i] = r
        /\ \A i, j \in DOMAIN s : i < j => ~Precedes(s[j], s[i])
    BY ExecutionIs, TotalIs
  <1>2. \A i \in DOMAIN s : s[i] \in rows /\ s[i] \in JoinedRows
    BY <1>1 DEF ReadingInv
  <1>3. BindingInv
    BY DEF CompilerInv
  <1>4. ASSUME NEW i \in DOMAIN s PROVE Precedes(s[i], s[k]) <=> i < k
    <2>1. CASE i < k
      <3>1. s[i] # s[k] /\ ~Precedes(s[k], s[i])
        BY <1>1, <2>1
      <3> QED BY <1>1, <1>2, <2>1, <3>1, OrderIsTotal
    <2>2. CASE i = k
      BY <1>1, <1>2, <1>3, <2>2, OrderIsStrict
    <2>3. CASE k < i
      BY <1>1, <2>3
    <2>4. i < k \/ i = k \/ k < i
      BY <1>1
    <2> QED BY <1>1, <2>1, <2>2, <2>3, <2>4
  <1> DEFINE D == 1..(k - 1)
             f == [i \in D |-> s[i]]
             B == Before(s[k])
  <1>5. \A i \in DOMAIN s : i < k <=> i \in D
    BY <1>1
  <1>6. D \subseteq DOMAIN s
    BY <1>1
  <1> HIDE DEF D
  <1>7. B = {s[i] : i \in D}
    BY <1>1, <1>2, <1>4, <1>5, <1>6 DEF Before
  <1> HIDE DEF B
  <1>8. f \in [D -> B] /\ \A i \in D : f[i] = s[i]
    BY <1>7
  <1>9. \A i, j \in D : f[i] = f[j] => i = j
    BY <1>1, <1>6, <1>8
  <1>10. \A b \in B : \E i \in D : f[i] = b
    BY <1>7, <1>8
  <1> HIDE DEF f
  <1>11. f \in Bijection(D, B)
    BY <1>8, <1>9, <1>10 DEF Bijection, Injection, Surjection, IsInjective
  <1>12. ExistsBijection(D, B)
    BY <1>11 DEF ExistsBijection
  <1>13. IsFiniteSet(D) /\ Cardinality(D) = k - 1
    <2>1. k \in Int /\ k >= 1
      BY <1>1
    <2>2. IsFiniteSet(1..(k - 1)) /\ Cardinality(1..(k - 1)) = IF 1 > k - 1 THEN 0 ELSE k - 1 - 1 + 1
      BY <2>1, FS_Interval
    <2> QED BY <2>1, <2>2 DEF D
  <1>14. Cardinality(B) = k - 1
    BY <1>12, <1>13, FS_Bijection
  <1> QED BY <1>14, RankIs DEF B

\* Some row comes first, whether or not the order is total.
LEMMA FirstRow ==
    ASSUME BindingInv, TiesInv, NEW R, R # {}, IsFiniteSet(R), R \subseteq JoinedRows
    PROVE  \E r \in R : {q \in R : Precedes(q, r)} = {}
  <1> DEFINE before(r) == {q \in R : Precedes(q, r)}
             Ranks == {Cardinality(before(r)) : r \in R}
  <1>1. \A r \in R : IsFiniteSet(before(r)) /\ Cardinality(before(r)) \in Nat
    BY FS_Subset, FS_CardinalityType
  <1>2. Ranks \subseteq Nat /\ Ranks # {}
    BY <1>1
  <1>3. PICK n \in Ranks : \A m \in Ranks : n <= m
    <2> HIDE DEF Ranks
    <2> QED BY <1>2, Least
  <1>4. PICK r \in R : n = Cardinality(before(r))
    OBVIOUS
  <1>5. ASSUME NEW q \in before(r) PROVE FALSE
    <2>1. q \in R /\ Precedes(q, r) /\ q \in JoinedRows /\ r \in JoinedRows
      OBVIOUS
    <2>2. before(q) \subseteq before(r) /\ q \notin before(q)
      BY <2>1, OrderIsStrict
    <2>3. n <= Cardinality(before(q))
      BY <1>3, <2>1
    <2> HIDE DEF before
    <2>4. /\ Cardinality(before(q)) <= Cardinality(before(r))
          /\ Cardinality(before(r)) = Cardinality(before(q)) => before(r) = before(q)
      BY <1>1, <2>2, FS_Subset
    <2>5. before(r) = before(q)
      BY <1>1, <1>4, <2>1, <2>3, <2>4
    <2> QED BY <1>5, <2>2, <2>5
  <1> QED BY <1>5

-----------------------------------------------------------------------------
(***************************************************************************)
(* The pages of a traversal, as ResultReader sees them.                     *)
(***************************************************************************)
RanksInv ==
    reading # "closed" /\ GroupedOrderIsTotal =>
        \A k \in 1..Len(delivered) : Rank(delivered[k]) = k - 1

LEMMA LimitedAre == LimitedRows = {row \in rows : Rank(row) < limit.rows}
  BY RankIs DEF LimitedRows, Before

\* Ranks and the rows of a traversal stay while the plan and its rows do.
LEMMA SameRanks ==
    ASSUME UNCHANGED vars, UNCHANGED rows
    PROVE  /\ \A k : Rank(delivered[k])' = Rank(delivered'[k])
           /\ LimitedRows' = LimitedRows
           /\ GroupedOrderIsTotal' <=> GroupedOrderIsTotal
  <1>1. UNCHANGED <<phase, sources, projections, groupBy, orderBy, limit>>
    BY DEF vars
  <1>2. \A k : Rank(delivered[k])' = Rank(delivered'[k])
    BY <1>1 DEF Rank
  <1>3. \A r, q : Precedes(r, q)' <=> Precedes(r, q)
    BY <1>1, SameOrder
  <1>4. LimitedRows' = LimitedRows
    BY <1>1, <1>3 DEF LimitedRows
  <1>5. GroupedOrderIsTotal' <=> GroupedOrderIsTotal
    BY <1>1 DEF GroupedOrderIsTotal, Complete
  <1> QED BY <1>2, <1>4, <1>5

LEMMA RanksStep ==
    ASSUME CompilerInv, TiesInv, ReadingInv, RanksInv, [TraversalNext]_traversalVars
    PROVE  RanksInv'
  <1>1. CASE CompileReport
    <2>1. reading = "closed" /\ UNCHANGED reading
      BY <1>1, AcceptedIsLast DEF CompileReport, ReadingInv
    <2> QED BY <2>1 DEF RanksInv
  <1>2. ASSUME NEW joined, Begin(joined) PROVE RanksInv'
    <2>1. Len(delivered') = 0
      BY <1>2 DEF Begin, ReadingInv
    <2> QED BY <2>1 DEF RanksInv
  <1>3. CASE ReadPage
    <2>1. reading = "open" /\ UNCHANGED vars /\ UNCHANGED rows
      BY <1>3 DEF ReadPage
    <2>2. SUFFICES ASSUME GroupedOrderIsTotal, NEW k \in 1..Len(delivered')
                   PROVE  Rank(delivered'[k]) = k - 1
      BY <2>1, SameRanks DEF RanksInv
    <2>3. PICK s \in Executions :
              /\ Len(delivered') = PageEnd
              /\ \A i \in 1..Len(delivered) : delivered'[i] = delivered[i]
              /\ \A i \in (Len(delivered) + 1)..PageEnd : delivered'[i] = s[i]
      BY <1>3, PageRead
    <2>4. /\ Len(delivered) \in Nat /\ PageEnd \in 1..Total
          /\ Total \in 1..Cardinality(rows) /\ Cardinality(rows) \in Nat
      BY <2>1, PageEnds
    <2>5. CASE k \in 1..Len(delivered)
      BY <2>1, <2>2, <2>3, <2>5 DEF RanksInv
    <2>6. CASE k \in (Len(delivered) + 1)..PageEnd
      <3>1. k \in 1..Cardinality(rows)
        BY <2>4, <2>6
      <3> QED BY <2>1, <2>2, <2>3, <2>6, <3>1, ExecutionRanks
    <2> QED BY <2>3, <2>4, <2>5, <2>6
  <1>4. CASE UNCHANGED traversalVars
    <2>1. UNCHANGED vars /\ UNCHANGED <<reading, rows, delivered>>
      BY <1>4 DEF traversalVars, vars, plan
    <2> QED BY <2>1, SameRanks DEF RanksInv
  <1> QED BY <1>1, <1>2, <1>3, <1>4 DEF TraversalNext

ReaderVars == <<reading # "closed", IF reading = "closed" THEN {} ELSE LimitedRows, delivered>>

LEMMA ReaderVarsAre == Reader!vars = ReaderVars /\ Reader!vars' = ReaderVars'
  BY DEF Reader!vars, ReaderVars

LEMMA BeginOpens ==
    ASSUME CompilerInv, TiesInv, ReadingInv,
           NEW joined, joined \subseteq JoinedRows, IsFiniteSet(joined), joined # {},
           Begin(joined)
    PROVE  Reader!Open
  <1>1. /\ reading = "closed" /\ reading' = "open" /\ UNCHANGED vars /\ UNCHANGED delivered
        /\ phase = "accepted"
    BY DEF Begin
  <1>2. UNCHANGED <<sources, projections, groupBy, orderBy, limit>>
    BY <1>1 DEF vars
  <1>3. rows' # {} /\ IsFiniteSet(rows') /\ rows' \subseteq JoinedRows
    BY ResultIs DEF Begin
  <1>4. PICK r \in rows' : {q \in rows' : Precedes(q, r)} = {}
    BY <1>3, FirstRow DEF CompilerInv
  <1>5. {q \in rows' : Precedes(q, r)'} = {}
    BY <1>2, <1>4, SameOrder
  <1>6. limit.rows \in 1..MaximumLimit /\ MaximumLimit \in Nat
    BY <1>1, CompilerAssumption DEF CompilerInv, PlanFinished, LimitFinished, Complete
  <1>7. Cardinality({q \in rows' : Precedes(q, r)'}) < limit.rows'
    BY <1>2, <1>5, <1>6, FS_EmptySet
  <1>8. LimitedRows' # {}
    BY <1>4, <1>7 DEF LimitedRows
  <1> QED BY <1>1, <1>8 DEF Reader!Open

LEMMA PageDelivers ==
    ASSUME CompilerInv, TiesInv, ReadingInv, RanksInv, GroupedOrderIsTotal, ReadPage
    PROVE  Reader!Deliver
  <1> DEFINE n == Len(delivered)
             m == PageEnd
  <1>1. /\ reading = "open" /\ reading' \in {"open", "whole"}
        /\ UNCHANGED vars /\ UNCHANGED rows
    BY DEF ReadPage
  <1>2. PICK s \in Executions : delivered' = delivered \o SubSeq(s, Len(delivered) + 1, PageEnd)
    BY PageRead
  <1> DEFINE page == SubSeq(s, Len(delivered) + 1, PageEnd)
  <1>3. /\ n \in Nat /\ n < m /\ m \in Nat /\ m <= n + PageSize /\ m <= Total
        /\ Total <= Cardinality(rows) /\ Total <= limit.rows
        /\ Total \in Nat /\ Cardinality(rows) \in Nat /\ limit.rows \in Nat
        /\ PageSize \in Nat
    BY <1>1, PageEnds, TotalIs, CompilerAssumption, TraversalAssumption
  <1>4. /\ s \in Seq(rows) /\ Len(s) = Cardinality(rows) /\ DOMAIN s = 1..Cardinality(rows)
        /\ \A i, k \in DOMAIN s : s[i] = s[k] => i = k
    BY <1>1, ExecutionIs
  <1>5. delivered \in Seq(rows)
    BY DEF ReadingInv
  <1>6. page = SubSeq(s, Len(delivered) + 1, m) /\ delivered' = delivered \o page
    BY <1>2
  <1> HIDE DEF page, m
  <1>7. page \in [1..(m - n) -> rows] /\ \A k \in 1..(m - n) : page[k] = s[n + k]
    <2>1. n \in Nat /\ m \in Nat /\ n < m /\ m <= Len(s) /\ s \in Seq(rows)
      BY <1>3, <1>4
    <2>2. page = SubSeq(s, n + 1, m)
      BY <1>6
    <2> HIDE DEF n
    <2>3. page \in [1..(m - n) -> rows]
      BY ONLY <2>1, <2>2, SliceIs
    <2>4. \A k \in 1..(m - n) : page[k] = s[n + k]
      BY ONLY <2>1, <2>2, SliceIs
    <2> QED BY <2>3, <2>4
  <1> DEFINE size == m - n
  <1>8. size \in 1..PageSize
    BY ONLY <1>3
  <1>9. \A k \in 1..size : n + k \in 1..Cardinality(rows) /\ n + k - 1 < limit.rows
    BY ONLY <1>3
  <1>10. \A k \in 1..size : page[k] = s[n + k] /\ page[k] \in rows
    BY <1>7
  <1>11. \A k \in 1..size : Rank(page[k]) = n + k - 1
    BY <1>1, <1>9, <1>10, ExecutionRanks
  <1>12. \A k \in 1..size : page[k] \in LimitedRows
    BY <1>9, <1>10, <1>11, LimitedAre
  <1>13. \A k \in 1..size : page[k] \notin Reader!Delivered
    <2> SUFFICES ASSUME NEW k \in 1..size, NEW i \in DOMAIN delivered, page[k] = delivered[i]
                 PROVE  FALSE
      BY DEF Reader!Delivered
    <2>1. i \in 1..n
      BY <1>5
    <2>2. Rank(delivered[i]) = i - 1
      BY <1>1, <2>1 DEF RanksInv
    <2>3. i - 1 = n + k - 1
      BY <1>11, <2>2
    <2> QED BY ONLY <1>3, <2>1, <2>3, k \in 1..size
  <1>14. \A i, k \in 1..size : page[i] = page[k] => i = k
    <2> SUFFICES ASSUME NEW i \in 1..size, NEW k \in 1..size, page[i] = page[k] PROVE i = k
      OBVIOUS
    <2>1. n + i = n + k
      BY <1>4, <1>9, <1>10
    <2> QED BY ONLY <1>3, <2>1, i \in 1..size, k \in 1..size
  <1>15. page \in [1..size -> LimitedRows \ Reader!Delivered]
    BY <1>7, <1>12, <1>13
  <1>16. LimitedRows' = LimitedRows
    BY <1>1, SameRanks
  <1> HIDE DEF size
  <1>17. \E d \in 1..PageSize :
            \E p \in [1..d -> LimitedRows \ Reader!Delivered] :
               /\ \A i, k \in 1..d : p[i] = p[k] => i = k
               /\ delivered' = delivered \o p
    BY <1>6, <1>8, <1>14, <1>15
  <1> QED BY <1>1, <1>16, <1>17 DEF Reader!Deliver

\* A step of the traversal, seen by ResultReader.
LEMMA StepIsRead ==
    ASSUME CompilerInv, TiesInv, ReadingInv, RanksInv, GroupedOrderIsTotal, TraversalNext
    PROVE  [Reader!Next]_(Reader!vars)
  <1>1. CASE CompileReport
    <2>1. reading = "closed" /\ UNCHANGED <<reading, delivered>>
      BY <1>1, AcceptedIsLast DEF CompileReport, ReadingInv
    <2>2. UNCHANGED ReaderVars
      BY <2>1 DEF ReaderVars
    <2> QED BY <2>2, ReaderVarsAre
  <1>2. ASSUME NEW joined \in {set \in SUBSET JoinedRows : IsFiniteSet(set)},
               Cardinality(joined) \in 1..MaxRows, Begin(joined)
        PROVE  Reader!Next
    <2>1. joined # {}
      BY <1>2, FS_EmptySet
    <2> QED BY <1>2, <2>1, BeginOpens DEF Reader!Next
  <1>3. CASE ReadPage
    BY <1>3, PageDelivers DEF Reader!Next
  <1> QED BY <1>1, <1>2, <1>3 DEF TraversalNext

TraversalInv == CompilerInv /\ TiesInv /\ ReadingInv /\ RanksInv

LEMMA TraversalInvAlways == TraversalSpec => []TraversalInv
  <1>1. TraversalInit => TraversalInv
    <2> SUFFICES ASSUME TraversalInit PROVE TraversalInv
      OBVIOUS
    <2>1. Init /\ reading = "closed" /\ rows = {} /\ delivered = <<>>
      BY DEF TraversalInit
    <2>2. TiesInv
      BY <2>1 DEF Init, TiesInv, Elements
    <2> QED BY <2>1, <2>2, CompilerStarts DEF TraversalInv, ReadingInv, RanksInv
  <1>2. TraversalInv /\ [TraversalNext]_traversalVars => TraversalInv'
    <2> SUFFICES ASSUME TraversalInv, [TraversalNext]_traversalVars PROVE TraversalInv'
      OBVIOUS
    <2>1. CompilerInv /\ TiesInv /\ ReadingInv /\ RanksInv /\ [Next]_vars
      BY CompilationStep DEF TraversalInv
    <2>2. CompilerInv' /\ ReadingInv' /\ RanksInv'
      BY <2>1, CompilerStep, ReadingStep, RanksStep
    <2>3. TiesInv'
      BY <2>1, TiesStep DEF CompilerInv
    <2> QED BY <2>2, <2>3 DEF TraversalInv
  <1> QED BY <1>1, <1>2, PTL DEF TraversalSpec

(***************************************************************************)
(* Whatever ORDER BY the author wrote, the pages of an accepted plan        *)
(* deliver each row of its result once (object_sql_validation.go 407-430):  *)
(* every step of a traversal is one of ResultReader as long as the order of *)
(* the plan holds its groups apart, for any statement, data, page size and  *)
(* order of execution.  An ungrouped plan has no groups to hold apart.      *)
(***************************************************************************)
THEOREM PagesFollowReader ==
    TraversalSpec =>
        Reader!Init /\ [][GroupedOrderIsTotal => [Reader!Next]_(Reader!vars)]_traversalVars
  <1>1. TraversalInit => Reader!Init
    BY DEF TraversalInit, Reader!Init
  <1>2. TraversalInv /\ [TraversalNext]_traversalVars
            => [GroupedOrderIsTotal => [Reader!Next]_(Reader!vars)]_traversalVars
    BY StepIsRead DEF TraversalInv
  <1> QED BY <1>1, <1>2, TraversalInvAlways, PTL DEF TraversalSpec

=============================================================================
