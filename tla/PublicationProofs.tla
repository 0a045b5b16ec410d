--------------------------- MODULE PublicationProofs ---------------------------
(***************************************************************************)
(* What is published is what was validated, for any declarations, any       *)
(* metadata and any statement.                                              *)
(***************************************************************************)
EXTENDS Publication, ObjectSQLCompilerProofs

-----------------------------------------------------------------------------
(***************************************************************************)
(* Each entry once.                                                         *)
(***************************************************************************)
Listed(listed, entry) == IF entry \in Elements(listed) THEN listed ELSE Append(listed, entry)

LEMMA EachOnceDef ==
    ASSUME NEW list, NEW n \in Nat, n = Len(list)
    PROVE  \E f : /\ f = [k \in 0..n |-> IF k = 0 THEN <<>> ELSE Listed(f[k - 1], list[k])]
                  /\ EachOnce(list) = f[n]
  <1> DEFINE Lists(f, m) == f = [k \in 0..m |-> IF k = 0 THEN <<>> ELSE Listed(f[k - 1], list[k])]
             S == {k \in 0..n : \E f : Lists(f, k)}
  <1>1. 0 \in S
    <2>1. Lists([k \in 0..0 |-> <<>>], 0)
      OBVIOUS
    <2>2. \E f : Lists(f, 0)
      <3> HIDE DEF Lists
      <3> QED BY <2>1
    <2> QED BY <2>2
  <1>2. ASSUME NEW m \in 0..(n - 1), m \in S PROVE m + 1 \in S
    <2>1. PICK f : Lists(f, m)
      BY <1>2
    <2> DEFINE g == [k \in 0..(m + 1) |-> IF k = m + 1 THEN Listed(f[m], list[m + 1]) ELSE f[k]]
    <2>2. Lists(g, m + 1)
      <3> SUFFICES ASSUME NEW k \in 0..(m + 1)
                   PROVE  g[k] = IF k = 0 THEN <<>> ELSE Listed(g[k - 1], list[k])
        OBVIOUS
      <3>1. CASE k = m + 1
        BY <3>1
      <3>2. CASE k # m + 1
        BY <2>1, <3>2
      <3> QED BY <3>1, <3>2
    <2>3. \E h : Lists(h, m + 1)
      <3> HIDE DEF Lists, g
      <3> QED BY <2>2
    <2> QED BY <2>3
  <1>3. n \in S
    <2> HIDE DEF S
    <2>1. \A k \in 0..n : k \in S
      BY <1>1, <1>2, UpTo
    <2> QED BY <2>1
  <1>4. PICK f : Lists(f, n)
    BY <1>3
  <1> DEFINE g == CHOOSE h : Lists(h, n)
  <1>5. Lists(g, n)
    BY <1>4
  <1>6. EachOnce(list) = g[n]
    BY DEF EachOnce, Listed
  <1> HIDE DEF g
  <1> QED BY <1>5, <1>6 DEF Listed

LEMMA EachOnceIs ==
    ASSUME NEW list, NEW n \in Nat, n = Len(list), DOMAIN list = 1..n
    PROVE  /\ IsSequence(EachOnce(list))
           /\ Distinct(EachOnce(list))
           /\ Elements(EachOnce(list)) = Elements(list)
  <1>1. PICK f : /\ f = [k \in 0..n |-> IF k = 0 THEN <<>> ELSE Listed(f[k - 1], list[k])]
                 /\ EachOnce(list) = f[n]
    BY EachOnceDef
  <1>2. f[0] = <<>> /\ \A k \in 0..(n - 1) : f[k + 1] = Listed(f[k], list[k + 1])
    <2>1. ASSUME NEW k \in 0..(n - 1) PROVE f[k + 1] = Listed(f[k], list[k + 1])
      <3>1. k + 1 \in 0..n /\ k + 1 # 0 /\ (k + 1) - 1 = k
        OBVIOUS
      <3> QED BY ONLY <1>1, <3>1
    <2>2. f[0] = <<>>
      BY ONLY <1>1, n \in Nat
    <2> QED BY <2>1, <2>2
  <1> DEFINE Good(k) == /\ IsSequence(f[k]) /\ Distinct(f[k])
                        /\ Elements(f[k]) = {list[i] : i \in 1..k}
             S == {k \in 0..n : Good(k)}
  <1>3. 0 \in S
    <2>1. IsSequence(<<>>) /\ Elements(<<>>) = {} /\ Distinct(<<>>)
      BY DEF IsSequence, Elements, Distinct
    <2>2. {list[i] : i \in 1..0} = {}
      OBVIOUS
    <2> QED BY <1>2, <2>1, <2>2
  <1>4. ASSUME NEW m \in 0..(n - 1), m \in S PROVE m + 1 \in S
    <2> DEFINE s == f[m]
               e == list[m + 1]
               t == f[m + 1]
    <2>1. Good(m) /\ t = Listed(s, e)
      BY <1>2, <1>4
    <2>2. {list[i] : i \in 1..(m + 1)} = {list[i] : i \in 1..m} \cup {e}
      OBVIOUS
    <2> HIDE DEF s, e, t
    <2>3. CASE e \in Elements(s)
      <3>1. t = s
        BY <2>1, <2>3 DEF Listed
      <3> QED BY <2>1, <2>2, <2>3, <3>1 DEF s, e, t
    <2>4. CASE e \notin Elements(s)
      <3>1. t = Append(s, e)
        BY <2>1, <2>4 DEF Listed
      <3>2. /\ IsSequence(t) /\ Len(s) \in Nat /\ DOMAIN s = 1..Len(s)
            /\ DOMAIN t = 1..(Len(s) + 1)
            /\ \A i \in 1..Len(s) : t[i] = s[i]
            /\ t[Len(s) + 1] = e
        BY <2>1, <3>1, Extended DEF s
      <3>3. Elements(t) = Elements(s) \cup {e}
        BY <3>2 DEF Elements
      <3>4. Distinct(t)
        <4>1. Distinct(s)
          BY <2>1 DEF s
        <4>2. \A i \in 1..Len(s) : s[i] # e
          BY <2>4, <3>2 DEF Elements
        <4>3. \A i \in DOMAIN t : i \in 1..Len(s) \/ i = Len(s) + 1
          BY <3>2
        <4> QED BY <3>2, <4>1, <4>2, <4>3 DEF Distinct
      <3> QED BY <2>1, <2>2, <3>2, <3>3, <3>4 DEF s, e, t
    <2> QED BY <2>3, <2>4
  <1>5. n \in S
    <2> HIDE DEF S
    <2>1. \A k \in 0..n : k \in S
      BY <1>3, <1>4, UpTo
    <2> QED BY <2>1
  <1>6. Elements(list) = {list[i] : i \in 1..n}
    BY DEF Elements
  <1> QED BY <1>1, <1>5, <1>6

-----------------------------------------------------------------------------
(***************************************************************************)
(* The plan as a function of the statement: what a compilation in the scope *)
(* of the declarations q makes of the clauses st, of which n are tables, m  *)
(* projections, g terms of GROUP BY and o of ORDER BY.                      *)
(***************************************************************************)
Registered(st, n) == [k \in 1..n |-> Source(st[k].object, st[k].alias, st[k].join, "", Blank)]

ScopeRead(q, st, n) == ScopeOf(q, ObjectsByAlias(Registered(st, n)))

Reading(q, st, n, tree) == CompileExpression(ScopeRead(q, st, n), Trees, tree)

OnRead(q, st, i) == IF i = 1 THEN Blank ELSE Reading(q, st, i, st[i].tree)

CardinalityRead(q, st, i) ==
    IF i = 1 THEN ""
    ELSE InferJoinCardinality(Registered(st, i), st[i].alias, OnRead(q, st, i).eqs)

SourceRead(q, st, i) ==
    Source(st[i].object, st[i].alias, st[i].join, CardinalityRead(q, st, i), OnRead(q, st, i))

SourcesRead(q, st, n) == [i \in 1..n |-> SourceRead(q, st, i)]

ProjectionRead(q, st, n, c) ==
    [alias |-> c.alias, x |-> Reading(q, st, n, c.tree), tree |-> c.tree]

ProjectionsRead(q, st, n, m) == [i \in 1..m |-> ProjectionRead(q, st, n, st[n + 1 + i])]

FilterRead(q, st, n, clause, c) ==
    IF c.clause = clause THEN Reading(q, st, n, c.tree) ELSE Blank

FiltersRead(q, st, n, m, g) ==
    [where  |-> FilterRead(q, st, n, "where", st[n + m + 3]),
     having |-> FilterRead(q, st, n, "having", st[n + m + g + 5])]

GroupsRead(q, st, n, m, g) ==
    [i \in 1..g |-> Term(Reading(q, st, n, st[n + m + 3 + i].tree), st[n + m + 3 + i].tree)]

Named(ps) ==
    [alias \in {p.alias : p \in Elements(ps)} |->
        (CHOOSE p \in Elements(ps) : p.alias = alias).x]

Ordering(q, st, n, m, tree) ==
    CompileOrderTerm(ScopeRead(q, st, n), Named(ProjectionsRead(q, st, n, m)), Trees, tree)

OrdersRead(q, st, n, m, g, o) ==
    [i \in 1..o |-> Term(Ordering(q, st, n, m, st[n + m + g + 5 + i].tree),
                         st[n + m + g + 5 + i].tree)]

LimitRead(c, o) ==
    [rows |-> LimitRows(c.tree), explicit |-> c.tree.given, ordered |-> o # 0]

(***************************************************************************)
(* The end of a SELECT, of any clauses.                                     *)
(***************************************************************************)
Ties(srcs, ps, groups) ==
    IF groups # <<>> THEN groups
    ELSE IF groups = <<>> /\ \E p \in Elements(ps) : p.x.measures # {} THEN <<>>
    ELSE [i \in DOMAIN srcs |-> IdTerm(srcs[i].alias)]

Stable(ties, orders) ==
    LET appended[n \in 0..Len(ties)] ==
            IF n = 0 THEN orders
            ELSE LET term == ties[n]
                 IN  IF OrderContains(appended[n - 1], term.x) THEN appended[n - 1]
                     ELSE Append(appended[n - 1], term)
    IN  appended[Len(ties)]

Mentioned(srcs, ps, clauses, groups, order) ==
    UNION ({s.on.refs : s \in Elements(srcs)}
           \cup {p.x.refs : p \in Elements(ps)}
           \cup {clauses.where.refs, clauses.having.refs}
           \cup {t.x.refs : t \in Elements(groups)}
           \cup {t.x.refs : t \in Elements(order)})

FilledSources(srcs, refs) ==
    [i \in DOMAIN srcs |->
        [srcs[i] EXCEPT !.fields = {r.field : r \in {ref \in refs : ref.alias = srcs[i].alias}}]]

FinishedPlan(srcs, ps, results, clauses, groups, orders, lim) ==
    LET order == Stable(Ties(srcs, ps, groups), orders)
    IN  <<FilledSources(srcs, Mentioned(srcs, ps, clauses, groups, order)),
          ps, results, clauses, groups, order, lim>>

PlanRead(q, st, n, m, g, o, results) ==
    FinishedPlan(SourcesRead(q, st, n), ProjectionsRead(q, st, n, m), results,
                 FiltersRead(q, st, n, m, g), GroupsRead(q, st, n, m, g),
                 OrdersRead(q, st, n, m, g, o), LimitRead(st[n + m + g + o + 6], o))

LEMMA StableOrderOf == StableOrder = Stable(Ties(sources, projections, groupBy), orderBy)
  <1>1. TieCandidates = Ties(sources, projections, groupBy)
    BY DEF TieCandidates, Ties, SingleRow
  <1> QED BY Zenon, <1>1 DEF StableOrder, Stable

LEMMA ReferencesOf ==
    ASSUME NEW order
    PROVE  References(order) = Mentioned(sources, projections, filters, groupBy, order)
  BY Zenon DEF References, Mentioned

LEMMA FilledOf ==
    ASSUME NEW order
    PROVE  [i \in DOMAIN sources |->
               [sources[i] EXCEPT !.fields = SourceFields(sources[i], order)]]
               = FilledSources(sources,
                               Mentioned(sources, projections, filters, groupBy, order))
  BY Zenon, ReferencesOf DEF SourceFields, FilledSources

-----------------------------------------------------------------------------
(***************************************************************************)
(* What a compilation that goes on has found the clauses to be.             *)
(***************************************************************************)
TableFits(q, st, i) ==
    /\ st[i].clause = "table"
    /\ st[i].object \in Objects /\ st[i].alias # ""
    /\ \A k \in 1..(i - 1) : st[k].alias # st[i].alias
    /\ i = 1 => st[i].join = ""
    /\ i # 1 => /\ st[i].join \in {"inner", "left"}
                /\ Valid(OnRead(q, st, i))
                /\ CardinalityRead(q, st, i) # ""

TablesFit(q, st, n) == \A i \in 1..n : TableFits(q, st, i)

ProjectionFits(q, st, n, i) ==
    /\ st[n + 1 + i].clause = "select" /\ st[n + 1 + i].alias # ""
    /\ \A k \in 1..(i - 1) : st[n + 1 + k].alias # st[n + 1 + i].alias
    /\ Valid(Reading(q, st, n, st[n + 1 + i].tree))

ProjectionsFit(q, st, n, m) == \A i \in 1..m : ProjectionFits(q, st, n, i)

FilterFits(q, st, n, clause, c) ==
    \/ c.clause = "end"
    \/ c.clause = clause /\ Valid(Reading(q, st, n, c.tree))

GroupsFit(q, st, n, m, g) ==
    \A i \in 1..g : /\ st[n + m + 3 + i].clause = "group"
                    /\ Valid(Reading(q, st, n, st[n + m + 3 + i].tree))

OrdersFit(q, st, n, m, g, o) ==
    \A i \in 1..o : /\ st[n + m + g + 5 + i].clause = "order"
                    /\ Valid(Ordering(q, st, n, m, st[n + m + g + 5 + i].tree))

LimitFits(c) == c.clause = "limit" /\ (c.tree.given => c.tree.rows \in 1..MaximumLimit)

(***************************************************************************)
(* Up to the end of each clause.                                            *)
(***************************************************************************)
FromFits(q, st, n) ==
    /\ n \in Nat \ {0} /\ n - 1 <= MaximumJoins
    /\ TablesFit(q, st, n)
    /\ st[n + 1].clause = "end"

SelectFits(q, st, n, m) ==
    /\ FromFits(q, st, n)
    /\ m \in Nat \ {0} /\ m <= MaximumColumns
    /\ ProjectionsFit(q, st, n, m)
    /\ st[n + m + 2].clause = "end"

WhereFits(q, st, n, m) ==
    SelectFits(q, st, n, m) /\ FilterFits(q, st, n, "where", st[n + m + 3])

GroupFits(q, st, n, m, g) ==
    /\ WhereFits(q, st, n, m)
    /\ g \in Nat
    /\ GroupsFit(q, st, n, m, g)
    /\ st[n + m + g + 4].clause = "end"

HavingFits(q, st, n, m, g) ==
    GroupFits(q, st, n, m, g) /\ FilterFits(q, st, n, "having", st[n + m + g + 5])

StatementFits(q, st, n, m, g, o) ==
    /\ HavingFits(q, st, n, m, g)
    /\ o \in Nat
    /\ OrdersFit(q, st, n, m, g, o)
    /\ LimitFits(st[n + m + g + o + 6])

(***************************************************************************)
(* What is read of a statement does not depend on what follows, nor on      *)
(* declarations other than parameters and time zone.                        *)
(***************************************************************************)
SameScopes(q, p) == \A objects : ScopeOf(q, objects) = ScopeOf(p, objects)

Agree(st, other, k) == k \in Nat /\ \A i \in 1..k : st[i] = other[i]

LEMMA SameReading ==
    ASSUME NEW q, NEW p, SameScopes(q, p), NEW st, NEW other, NEW k, Agree(st, other, k),
           NEW n \in Nat, n <= k
    PROVE  /\ Registered(st, n) = Registered(other, n)
           /\ \A tree : Reading(q, st, n, tree) = Reading(p, other, n, tree)
  <1>1. \A i \in 1..n : st[i] = other[i]
    BY DEF Agree
  <1>2. Registered(st, n) = Registered(other, n)
    BY <1>1 DEF Registered
  <1>3. ScopeRead(q, st, n) = ScopeRead(p, other, n)
    BY <1>2 DEF ScopeRead, SameScopes
  <1> QED BY <1>2, <1>3 DEF Reading

LEMMA SameTables ==
    ASSUME NEW q, NEW p, SameScopes(q, p), NEW st, NEW other, NEW k, Agree(st, other, k),
           NEW n \in Nat, n <= k
    PROVE  /\ SourcesRead(q, st, n) = SourcesRead(p, other, n)
           /\ TablesFit(q, st, n) => TablesFit(p, other, n)
  <1>0. \A i \in 1..n : st[i] = other[i]
    BY DEF Agree
  <1>1. ASSUME NEW i \in 1..n
        PROVE  /\ st[i] = other[i] /\ \A j \in 1..(i - 1) : st[j] = other[j]
               /\ OnRead(q, st, i) = OnRead(p, other, i)
               /\ CardinalityRead(q, st, i) = CardinalityRead(p, other, i)
    <2>1. i \in Nat /\ i <= k /\ \A j \in 1..i : st[j] = other[j]
      BY DEF Agree
    <2>2. /\ Registered(st, i) = Registered(other, i)
          /\ \A tree : Reading(q, st, i, tree) = Reading(p, other, i, tree)
      BY <2>1, SameReading
    <2>3. OnRead(q, st, i) = OnRead(p, other, i)
      BY <2>1, <2>2 DEF OnRead
    <2>4. CardinalityRead(q, st, i) = CardinalityRead(p, other, i)
      BY Zenon, <2>2, <2>3, i \in 1..n, <1>0 DEF CardinalityRead
    <2> QED BY <2>1, <2>3, <2>4
  <1>2. SourcesRead(q, st, n) = SourcesRead(p, other, n)
    <2>1. \A i \in 1..n : SourceRead(q, st, i) = SourceRead(p, other, i)
      BY Zenon, <1>1 DEF SourceRead
    <2> QED BY <2>1 DEF SourcesRead
  <1>3. ASSUME NEW i \in 1..n, TableFits(q, st, i) PROVE TableFits(p, other, i)
    BY <1>1, <1>3 DEF TableFits
  <1> QED BY <1>2, <1>3 DEF TablesFit

LEMMA SameProjections ==
    ASSUME NEW q, NEW p, SameScopes(q, p), NEW st, NEW other, NEW k, Agree(st, other, k),
           NEW n \in Nat, NEW m \in Nat, n + 1 + m <= k
    PROVE  /\ ProjectionsRead(q, st, n, m) = ProjectionsRead(p, other, n, m)
           /\ ProjectionsFit(q, st, n, m) => ProjectionsFit(p, other, n, m)
           /\ \A tree : Ordering(q, st, n, m, tree) = Ordering(p, other, n, m, tree)
  <1>1. /\ Registered(st, n) = Registered(other, n)
        /\ \A tree : Reading(q, st, n, tree) = Reading(p, other, n, tree)
    <2>1. k \in Nat
      BY DEF Agree
    <2> QED BY <2>1, SameReading
  <1>2. \A i \in 1..m : st[n + 1 + i] = other[n + 1 + i]
    BY DEF Agree
  <1>3. ProjectionsRead(q, st, n, m) = ProjectionsRead(p, other, n, m)
    BY <1>1, <1>2 DEF ProjectionsRead, ProjectionRead
  <1>4. ASSUME NEW i \in 1..m, ProjectionFits(q, st, n, i) PROVE ProjectionFits(p, other, n, i)
    <2>1. \A j \in 1..(i - 1) : st[n + 1 + j] = other[n + 1 + j]
      BY <1>2
    <2> QED BY <1>1, <1>2, <1>4, <2>1 DEF ProjectionFits
  <1>5. ScopeRead(q, st, n) = ScopeRead(p, other, n)
    BY <1>1 DEF ScopeRead, SameScopes
  <1>6. ASSUME NEW tree PROVE Ordering(q, st, n, m, tree) = Ordering(p, other, n, m, tree)
    BY <1>3, <1>5 DEF Ordering
  <1> QED BY <1>3, <1>4, <1>6 DEF ProjectionsFit

LEMMA SameGroups ==
    ASSUME NEW q, NEW p, SameScopes(q, p), NEW st, NEW other, NEW k, Agree(st, other, k),
           NEW n \in Nat, NEW m \in Nat, NEW g \in Nat, n + m + 3 + g <= k
    PROVE  /\ GroupsRead(q, st, n, m, g) = GroupsRead(p, other, n, m, g)
           /\ GroupsFit(q, st, n, m, g) => GroupsFit(p, other, n, m, g)
  <1>1. \A tree : Reading(q, st, n, tree) = Reading(p, other, n, tree)
    <2>1. k \in Nat
      BY DEF Agree
    <2> QED BY <2>1, SameReading
  <1>2. \A i \in 1..g : st[n + m + 3 + i] = other[n + m + 3 + i]
    BY DEF Agree
  <1> QED BY <1>1, <1>2 DEF GroupsRead, GroupsFit

LEMMA SameOrders ==
    ASSUME NEW q, NEW p, SameScopes(q, p), NEW st, NEW other, NEW k, Agree(st, other, k),
           NEW n \in Nat, NEW m \in Nat, NEW g \in Nat, NEW o \in Nat, n + m + g + 5 + o <= k
    PROVE  /\ OrdersRead(q, st, n, m, g, o) = OrdersRead(p, other, n, m, g, o)
           /\ OrdersFit(q, st, n, m, g, o) => OrdersFit(p, other, n, m, g, o)
  <1>1. \A tree : Ordering(q, st, n, m, tree) = Ordering(p, other, n, m, tree)
    <2>1. k \in Nat
      BY DEF Agree
    <2> QED BY <2>1, SameProjections
  <1>2. \A i \in 1..o : st[n + m + g + 5 + i] = other[n + m + g + 5 + i]
    BY DEF Agree
  <1> QED BY <1>1, <1>2 DEF OrdersRead, OrdersFit

LEMMA SameFilter ==
    ASSUME NEW q, NEW p, SameScopes(q, p), NEW st, NEW other, NEW k, Agree(st, other, k),
           NEW n \in Nat, n <= k, NEW clause, NEW c
    PROVE  /\ FilterRead(q, st, n, clause, c) = FilterRead(p, other, n, clause, c)
           /\ FilterFits(q, st, n, clause, c) => FilterFits(p, other, n, clause, c)
  BY SameReading DEF FilterRead, FilterFits

\* Up to the end of each clause.
LEMMA SameStatement ==
    ASSUME NEW q, NEW p, SameScopes(q, p), NEW st, NEW other, NEW k, Agree(st, other, k),
           NEW n, NEW m, NEW g, NEW o
    PROVE  /\ FromFits(q, st, n) /\ n + 1 <= k => FromFits(p, other, n)
           /\ SelectFits(q, st, n, m) /\ n + m + 2 <= k => SelectFits(p, other, n, m)
           /\ WhereFits(q, st, n, m) /\ n + m + 3 <= k => WhereFits(p, other, n, m)
           /\ GroupFits(q, st, n, m, g) /\ n + m + g + 4 <= k => GroupFits(p, other, n, m, g)
           /\ HavingFits(q, st, n, m, g) /\ n + m + g + 5 <= k => HavingFits(p, other, n, m, g)
           /\ StatementFits(q, st, n, m, g, o) /\ n + m + g + o + 6 <= k =>
                  StatementFits(p, other, n, m, g, o)
  <1>0. k \in Nat /\ \A i \in 1..k : st[i] = other[i]
    BY DEF Agree
  <1>1. ASSUME FromFits(q, st, n), n + 1 <= k PROVE FromFits(p, other, n)
    <2>1. n \in Nat /\ n <= k /\ n + 1 \in 1..k
      BY <1>0, <1>1 DEF FromFits
    <2>2. TablesFit(p, other, n)
      BY <1>1, <2>1, SameTables DEF FromFits
    <2> QED BY <1>0, <1>1, <2>1, <2>2 DEF FromFits
  <1>2. ASSUME SelectFits(q, st, n, m), n + m + 2 <= k PROVE SelectFits(p, other, n, m)
    <2>1. n \in Nat /\ m \in Nat /\ n + 1 + m <= k /\ n + 1 <= k /\ n + m + 2 \in 1..k
      BY <1>0, <1>2 DEF SelectFits, FromFits
    <2>2. ProjectionsFit(p, other, n, m)
      BY <1>2, <2>1, SameProjections DEF SelectFits
    <2> QED BY <1>0, <1>1, <1>2, <2>1, <2>2 DEF SelectFits
  <1>3. ASSUME WhereFits(q, st, n, m), n + m + 3 <= k PROVE WhereFits(p, other, n, m)
    <2>1. n \in Nat /\ m \in Nat /\ n <= k /\ n + m + 2 <= k /\ n + m + 3 \in 1..k
      BY <1>0, <1>3 DEF WhereFits, SelectFits, FromFits
    <2>2. st[n + m + 3] = other[n + m + 3]
      BY <1>0, <2>1
    <2>3. FilterFits(p, other, n, "where", st[n + m + 3])
      BY <1>3, <2>1, SameFilter DEF WhereFits
    <2> QED BY <1>2, <1>3, <2>1, <2>2, <2>3 DEF WhereFits
  <1>4. ASSUME GroupFits(q, st, n, m, g), n + m + g + 4 <= k PROVE GroupFits(p, other, n, m, g)
    <2>1. /\ n \in Nat /\ m \in Nat /\ g \in Nat /\ n + m + 3 + g <= k /\ n + m + 3 <= k
          /\ n + m + g + 4 \in 1..k
      BY <1>0, <1>4 DEF GroupFits, WhereFits, SelectFits, FromFits
    <2>2. GroupsFit(p, other, n, m, g)
      BY <1>4, <2>1, SameGroups DEF GroupFits
    <2> QED BY <1>0, <1>3, <1>4, <2>1, <2>2 DEF GroupFits
  <1>5. ASSUME HavingFits(q, st, n, m, g), n + m + g + 5 <= k PROVE HavingFits(p, other, n, m, g)
    <2>1. /\ n \in Nat /\ m \in Nat /\ g \in Nat /\ n <= k /\ n + m + g + 4 <= k
          /\ n + m + g + 5 \in 1..k
      BY <1>0, <1>5 DEF HavingFits, GroupFits, WhereFits, SelectFits, FromFits
    <2>2. st[n + m + g + 5] = other[n + m + g + 5]
      BY <1>0, <2>1
    <2>3. FilterFits(p, other, n, "having", st[n + m + g + 5])
      BY <1>5, <2>1, SameFilter DEF HavingFits
    <2> QED BY <1>4, <1>5, <2>1, <2>2, <2>3 DEF HavingFits
  <1>6. ASSUME StatementFits(q, st, n, m, g, o), n + m + g + o + 6 <= k
        PROVE  StatementFits(p, other, n, m, g, o)
    <2>1. /\ n \in Nat /\ m \in Nat /\ g \in Nat /\ o \in Nat
          /\ n + m + g + 5 <= k /\ n + m + g + 5 + o <= k /\ n + m + g + o + 6 \in 1..k
      BY <1>0, <1>6 DEF StatementFits, HavingFits, GroupFits, WhereFits, SelectFits, FromFits
    <2>2. OrdersFit(p, other, n, m, g, o)
      BY <1>6, <2>1, SameOrders DEF StatementFits
    <2>3. st[n + m + g + o + 6] = other[n + m + g + o + 6]
      BY <1>0, <2>1
    <2> QED BY <1>5, <1>6, <2>1, <2>2, <2>3 DEF StatementFits
  <1> QED BY <1>1, <1>2, <1>3, <1>4, <1>5, <1>6

LEMMA SamePlan ==
    ASSUME NEW q, NEW p, SameScopes(q, p), NEW st, NEW other, NEW k, Agree(st, other, k),
           NEW n \in Nat, NEW m \in Nat, NEW g \in Nat, NEW o \in Nat, n + m + g + o + 6 <= k,
           NEW results
    PROVE  PlanRead(q, st, n, m, g, o, results) = PlanRead(p, other, n, m, g, o, results)
  <1>0. k \in Nat /\ \A i \in 1..k : st[i] = other[i]
    BY DEF Agree
  <1>1. /\ n <= k /\ n + 1 + m <= k /\ n + m + 3 + g <= k /\ n + m + g + 5 + o <= k
        /\ n + m + 3 \in 1..k /\ n + m + g + 5 \in 1..k /\ n + m + g + o + 6 \in 1..k
    BY <1>0
  <1>2. SourcesRead(q, st, n) = SourcesRead(p, other, n)
    BY <1>1, SameTables
  <1>3. ProjectionsRead(q, st, n, m) = ProjectionsRead(p, other, n, m)
    BY <1>1, SameProjections
  <1>4. GroupsRead(q, st, n, m, g) = GroupsRead(p, other, n, m, g)
    BY <1>1, SameGroups
  <1>5. OrdersRead(q, st, n, m, g, o) = OrdersRead(p, other, n, m, g, o)
    BY <1>1, SameOrders
  <1>6. /\ st[n + m + 3] = other[n + m + 3] /\ st[n + m + g + 5] = other[n + m + g + 5]
        /\ st[n + m + g + o + 6] = other[n + m + g + o + 6]
    BY <1>0, <1>1
  <1>7. FiltersRead(q, st, n, m, g) = FiltersRead(p, other, n, m, g)
    <2>1. \A clause, c : FilterRead(q, st, n, clause, c) = FilterRead(p, other, n, clause, c)
      BY <1>1, SameFilter
    <2> QED BY <1>6, <2>1 DEF FiltersRead
  <1> QED BY <1>2, <1>3, <1>4, <1>5, <1>6, <1>7 DEF PlanRead

\* The sources of the tables read so far.
LEMMA ObjectsAlike ==
    ASSUME NEW srcs, NEW others, OneSourceEach(srcs), Alike(srcs, others)
    PROVE  ObjectsByAlias(srcs) = ObjectsByAlias(others)
  <1>1. SourceAliases(srcs) = SourceAliases(others)
    BY DEF SourceAliases, Alike
  <1>2. \A a \in SourceAliases(srcs) :
            srcs[Position(srcs, a)].object = others[Position(others, a)].object
    BY AlikePlaces
  <1> QED BY <1>1, <1>2 DEF ObjectsByAlias

LEMMA TablesAre ==
    ASSUME NEW q, NEW st, NEW n \in Nat, TablesFit(q, st, n), NEW srcs, srcs = SourcesRead(q, st, n)
    PROVE  /\ IsSequence(srcs) /\ Len(srcs) = n /\ DOMAIN srcs = 1..n
           /\ \A i \in 1..n : /\ srcs[i].alias = st[i].alias
                              /\ srcs[i].object = st[i].object /\ st[i].object \in Objects
           /\ OneSourceEach(srcs)
           /\ ObjectsByAlias(srcs) = ObjectsByAlias(Registered(st, n))
  <1>1. DOMAIN srcs = 1..n /\ \A i \in 1..n : srcs[i] = SourceRead(q, st, i)
    BY DEF SourcesRead
  <1>2. \A i \in 1..n : /\ srcs[i].alias = st[i].alias
                        /\ srcs[i].object = st[i].object /\ st[i].object \in Objects
    <2>1. \A i \in 1..n : srcs[i].alias = st[i].alias /\ srcs[i].object = st[i].object
      BY <1>1 DEF SourceRead, Source
    <2>2. \A i \in 1..n : st[i].object \in Objects
      BY DEF TablesFit, TableFits
    <2> QED BY <2>1, <2>2
  <1>3. IsSequence(srcs) /\ Len(srcs) = n
    <2> DEFINE S == Elements(srcs)
    <2>1. srcs = [i \in 1..n |-> SourceRead(q, st, i)] /\ \A i \in 1..n : SourceRead(q, st, i) \in S
      BY <1>1 DEF SourcesRead, Elements
    <2> HIDE DEF S
    <2>2. srcs \in Seq(S) /\ Len(srcs) = n
      BY ONLY <2>1, n \in Nat
    <2> QED BY <2>2 DEF S, IsSequence
  <1>4. OneSourceEach(srcs)
    <2> SUFFICES ASSUME NEW i \in 1..n, NEW k \in 1..n, st[i].alias = st[k].alias PROVE i = k
      BY <1>1, <1>2 DEF OneSourceEach
    <2>1. /\ \A j \in 1..(i - 1) : st[j].alias # st[i].alias
          /\ \A j \in 1..(k - 1) : st[j].alias # st[k].alias
      BY DEF TablesFit, TableFits
    <2> QED BY <2>1
  <1>5. Alike(srcs, Registered(st, n))
    BY <1>1, <1>2 DEF Alike, Registered, Source
  <1> QED BY <1>1, <1>2, <1>3, <1>4, <1>5, ObjectsAlike

LEMMA ReadingIs ==
    ASSUME NEW n \in Nat, TablesFit(schema, statement, n),
           sources = SourcesRead(schema, statement, n)
    PROVE  /\ Scope(sources) = ScopeRead(schema, statement, n)
           /\ \A tree : Compiled(sources, tree) = Reading(schema, statement, n, tree)
  <1>1. ObjectsByAlias(sources) = ObjectsByAlias(Registered(statement, n))
    BY TablesAre
  <1>2. Scope(sources) = ScopeRead(schema, statement, n)
    BY <1>1 DEF Scope, ScopeRead
  <1> QED BY <1>2 DEF Compiled, Reading

-----------------------------------------------------------------------------
(***************************************************************************)
(* The invariant: in every phase the plan so far is what the clauses read   *)
(* so far say, whoever reads them, and the clauses have an order that tells *)
(* where each begins.                                                       *)
(***************************************************************************)
Unfiltered == [where |-> Blank, having |-> Blank]
Unlimited(o) == [rows |-> 0, explicit |-> FALSE, ordered |-> o # 0]

ReadFrom(n) ==
    /\ n \in Nat /\ position = n
    /\ TablesFit(schema, statement, n)
    /\ sources = SourcesRead(schema, statement, n)
    /\ projections = <<>> /\ filters = Unfiltered /\ groupBy = <<>>
    /\ orderBy = <<>> /\ limit = Unlimited(0)

ReadSelect(n, m) ==
    /\ n \in Nat /\ m \in Nat /\ position = n + 1 + m
    /\ FromFits(schema, statement, n) /\ ProjectionsFit(schema, statement, n, m)
    /\ m <= MaximumColumns
    /\ sources = SourcesRead(schema, statement, n)
    /\ projections = ProjectionsRead(schema, statement, n, m)
    /\ filters = Unfiltered /\ groupBy = <<>>
    /\ orderBy = <<>> /\ limit = Unlimited(0)

ReadWhere(n, m) ==
    /\ n \in Nat /\ m \in Nat /\ position = n + m + 2
    /\ SelectFits(schema, statement, n, m)
    /\ sources = SourcesRead(schema, statement, n)
    /\ projections = ProjectionsRead(schema, statement, n, m)
    /\ filters = Unfiltered /\ groupBy = <<>>
    /\ orderBy = <<>> /\ limit = Unlimited(0)

FilteredOnce(n, m) ==
    [where  |-> FilterRead(schema, statement, n, "where", statement[n + m + 3]),
     having |-> Blank]

ReadGroup(n, m, g) ==
    /\ n \in Nat /\ m \in Nat /\ g \in Nat /\ position = n + m + 3 + g
    /\ WhereFits(schema, statement, n, m) /\ GroupsFit(schema, statement, n, m, g)
    /\ sources = SourcesRead(schema, statement, n)
    /\ projections = ProjectionsRead(schema, statement, n, m)
    /\ filters = FilteredOnce(n, m)
    /\ groupBy = GroupsRead(schema, statement, n, m, g)
    /\ orderBy = <<>> /\ limit = Unlimited(0)

ReadHaving(n, m, g) ==
    /\ n \in Nat /\ m \in Nat /\ g \in Nat /\ position = n + m + g + 4
    /\ GroupFits(schema, statement, n, m, g)
    /\ sources = SourcesRead(schema, statement, n)
    /\ projections = ProjectionsRead(schema, statement, n, m)
    /\ filters = FilteredOnce(n, m)
    /\ groupBy = GroupsRead(schema, statement, n, m, g)
    /\ orderBy = <<>> /\ limit = Unlimited(0)

ReadOrder(n, m, g, o) ==
    /\ n \in Nat /\ m \in Nat /\ g \in Nat /\ o \in Nat /\ position = n + m + g + 5 + o
    /\ HavingFits(schema, statement, n, m, g) /\ OrdersFit(schema, statement, n, m, g, o)
    /\ sources = SourcesRead(schema, statement, n)
    /\ projections = ProjectionsRead(schema, statement, n, m)
    /\ filters = FiltersRead(schema, statement, n, m, g)
    /\ groupBy = GroupsRead(schema, statement, n, m, g)
    /\ orderBy = OrdersRead(schema, statement, n, m, g, o)
    /\ limit = Unlimited(o)

ReadAll(n, m, g, o) ==
    /\ n \in Nat /\ m \in Nat /\ g \in Nat /\ o \in Nat /\ position = n + m + g + o + 6
    /\ StatementFits(schema, statement, n, m, g, o)
    /\ plan = PlanRead(schema, statement, n, m, g, o, resultSchema)

PhaseInv ==
    /\ phase \in {"metadata", "parse"} => ReadFrom(0)
    /\ phase = "from" => \E n : ReadFrom(n)
    /\ phase = "select" => \E n, m : ReadSelect(n, m)
    /\ phase = "where" => \E n, m : ReadWhere(n, m)
    /\ phase = "group" => \E n, m, g : ReadGroup(n, m, g)
    /\ phase = "having" => \E n, m, g : ReadHaving(n, m, g)
    /\ phase = "order" => \E n, m, g, o : ReadOrder(n, m, g, o)
    /\ Complete => \E n, m, g, o : ReadAll(n, m, g, o)

PositionInv ==
    /\ IsSequence(statement) /\ position \in 0..Len(statement)
    /\ published = <<>> => position = Len(statement)

LEMMA ReadsOn ==
    ASSUME PositionInv, NEW c, Reads(c), UNCHANGED published
    PROVE  /\ PositionInv'
           /\ position \in Nat /\ position' = position + 1
           /\ statement'[position + 1] = c
           /\ Agree(statement, statement', position)
  <1>1. CASE published = <<>>
    <2>1. /\ statement' = Append(statement, c) /\ position' = position + 1
          /\ IsSequence(statement) /\ position = Len(statement)
      BY <1>1 DEF Reads, PositionInv
    <2>2. /\ IsSequence(statement') /\ Len(statement) \in Nat
          /\ Len(statement') = Len(statement) + 1
          /\ \A i \in 1..Len(statement) : statement'[i] = statement[i]
          /\ statement'[Len(statement) + 1] = c
      BY <2>1, Extended
    <2> QED BY <2>1, <2>2 DEF PositionInv, Agree
  <1>2. CASE published # <<>>
    <2>1. /\ position < Len(statement) /\ statement[position + 1] = c
          /\ position' = position + 1 /\ statement' = statement
          /\ IsSequence(statement) /\ position \in 0..Len(statement)
      BY <1>2 DEF Reads, PositionInv
    <2>2. Len(statement) \in Nat
      BY <2>1 DEF IsSequence
    <2> QED BY <1>2, <2>1, <2>2 DEF PositionInv, Agree
  <1> QED BY <1>1, <1>2

LEMMA SameScopesOf == ASSUME UNCHANGED schema PROVE SameScopes(schema, schema')
  BY DEF SameScopes, ScopeOf, DeclaredParameters, Elements

\* One more table.
LEMMA TableRead ==
    ASSUME NEW n, ReadFrom(n), PositionInv, NEW c, Reads(c), UNCHANGED published, phase = "from",
           UNCHANGED <<phase, schema, projections, filters, groupBy, orderBy, limit>>,
           TableFits(schema, statement', n + 1),
           sources' = Append(sources, SourceRead(schema, statement', n + 1))
    PROVE  PhaseInv'
  <1>1. /\ n \in Nat /\ position = n /\ TablesFit(schema, statement, n)
        /\ sources = SourcesRead(schema, statement, n)
    BY DEF ReadFrom
  <1>2. Agree(statement, statement', n) /\ position' = n + 1
    BY <1>1, ReadsOn
  <1>3. SameScopes(schema, schema) /\ schema' = schema
    BY DEF SameScopes
  <1> DEFINE st == statement'
             q == schema
  <1> HIDE DEF st, q
  <1>4. SourcesRead(q, st, n) = sources /\ TablesFit(q, st, n)
    BY <1>1, <1>2, <1>3, SameTables DEF st, q
  <1>5. TablesFit(q, st, n + 1)
    <2>1. \A i \in 1..(n + 1) : i \in 1..n \/ i = n + 1
      BY <1>1
    <2> QED BY <1>4, <2>1 DEF TablesFit, st, q
  <1>6. sources' = SourcesRead(q, st, n + 1)
    <2>1. /\ IsSequence(sources) /\ Len(sources) = n
          /\ sources = [i \in 1..n |-> SourceRead(q, st, i)]
      BY <1>1, <1>4, TablesAre DEF SourcesRead
    <2> DEFINE e == SourceRead(q, st, n + 1)
               t == [i \in 1..(n + 1) |-> SourceRead(q, st, i)]
    <2>2. sources' = Append(sources, e)
      BY DEF st, q
    <2>3. DOMAIN sources' = 1..(n + 1) /\ \A i \in 1..n : sources'[i] = sources[i]
      BY <1>1, <2>1, <2>2, Extended
    <2>4. sources'[n + 1] = e
      BY <1>1, <2>1, <2>2, Extended
    <2>5. \A i \in 1..n : sources'[i] = SourceRead(q, st, i)
      BY <2>1, <2>3
    <2>6. \A i \in 1..(n + 1) : sources'[i] = SourceRead(q, st, i)
      <3>1. \A i \in 1..(n + 1) : i \in 1..n \/ i = n + 1
        BY <1>1
      <3> QED BY <2>4, <2>5, <3>1
    <2>7. sources' = [i \in DOMAIN sources' |-> sources'[i]]
      <3>1. sources' \in Seq(Elements(sources'))
        BY <2>1, <2>2, Extended DEF IsSequence
      <3> QED BY <3>1
    <2>8. sources' = t
      BY <2>3, <2>6, <2>7
    <2> QED BY <2>8 DEF SourcesRead
  <1>7. ReadFrom(n + 1)'
    BY <1>1, <1>2, <1>3, <1>5, <1>6 DEF ReadFrom, st, q, Unlimited
  <1>8. phase' = "from"
    OBVIOUS
  <1> QED BY <1>7, <1>8 DEF PhaseInv, Complete

LEMMA FirstTable ==
    ASSUME NEW object, NEW alias, CompileRoot(object, alias), phase' # "refused"
    PROVE  /\ phase = "from" /\ sources = <<>> /\ BindableTable(object, alias)
           /\ sources' = <<Source(object, alias, "", "", Blank)>>
           /\ UNCHANGED <<phase, schema, projections, filters, groupBy, orderBy, limit>>
  BY Zenon DEF CompileRoot, Refuse

LEMMA NoTable ==
    ASSUME NEW n, ReadFrom(n), sources = <<>>
    PROVE  n = 0
  <1>1. n \in Nat /\ TablesFit(schema, statement, n) /\ sources = SourcesRead(schema, statement, n)
    BY DEF ReadFrom
  <1>2. Len(sources) = n
    BY <1>1, TablesAre
  <1> QED BY <1>2

LEMMA OneEntry == ASSUME NEW e PROVE Append(<<>>, e) = <<e>>
  OBVIOUS

LEMMA FirstFits ==
    ASSUME NEW object, NEW alias, BindableTable(object, alias),
           NEW c, c.clause = "table", c.object = object, c.alias = alias, c.join = "",
           NEW st, st[1] = c
    PROVE  /\ TableFits(schema, st, 1)
           /\ SourceRead(schema, st, 1) = Source(object, alias, "", "", Blank)
  <1>1. st[1].clause = "table" /\ st[1].object = object /\ st[1].alias = alias /\ st[1].join = ""
    OBVIOUS
  <1>2. object \in Objects /\ alias # ""
    BY DEF BindableTable
  <1>3. \A k \in 1..(1 - 1) : st[k].alias # alias
    <2>1. \A k \in 1..(1 - 1) : FALSE
      BY ONLY TRUE
    <2> QED BY ONLY <2>1
  <1>4. TableFits(schema, st, 1)
    BY ONLY <1>1, <1>2, <1>3 DEF TableFits
  <1>5. OnRead(schema, st, 1) = Blank /\ CardinalityRead(schema, st, 1) = ""
    BY ONLY DEF OnRead, CardinalityRead
  <1> QED BY ONLY <1>1, <1>4, <1>5 DEF SourceRead

LEMMA RootRead ==
    ASSUME PhaseInv, PositionInv, NEW object, NEW alias, CompileRoot(object, alias),
           NEW c, c.clause = "table", c.object = object, c.alias = alias, c.join = "",
           Reads(c), UNCHANGED published, phase' # "refused"
    PROVE  PhaseInv'
  <1>1. /\ phase = "from" /\ sources = <<>> /\ BindableTable(object, alias)
        /\ sources' = <<Source(object, alias, "", "", Blank)>>
        /\ UNCHANGED <<phase, schema, projections, filters, groupBy, orderBy, limit>>
    BY FirstTable
  <1>2. PICK n : ReadFrom(n)
    BY <1>1 DEF PhaseInv
  <1>3. n = 0
    BY <1>1, <1>2, NoTable
  <1>4. statement'[1] = c
    <2>1. position = 0
      BY <1>2, <1>3 DEF ReadFrom
    <2>2. statement'[position + 1] = c
      BY ReadsOn
    <2> QED BY ONLY <2>1, <2>2
  <1>5. /\ TableFits(schema, statement', 1)
        /\ SourceRead(schema, statement', 1) = Source(object, alias, "", "", Blank)
    BY <1>1, <1>4, FirstFits
  <1>6. sources' = Append(sources, SourceRead(schema, statement', 1))
    BY ONLY <1>1, <1>5, OneEntry
  <1>7. n + 1 = 1
    BY ONLY <1>3
  <1>8. /\ TableFits(schema, statement', n + 1)
        /\ sources' = Append(sources, SourceRead(schema, statement', n + 1))
    BY ONLY <1>5, <1>6, <1>7
  <1> QED BY <1>1, <1>2, <1>8, TableRead

\* A source as it is while its ON is compiled.
Joined(object, alias, join) == Source(object, alias, join, "", Blank)

JoinedSources(object, alias, join) == Append(sources, Joined(object, alias, join))

JoinOn(object, alias, join, tree) == Compiled(JoinedSources(object, alias, join), tree)

\* The ON of a join is compiled as it is of the statement.
LEMMA JoinReading ==
    ASSUME ValidDeclarations, NEW n \in Nat \ {0}, TablesFit(schema, statement, n),
           sources = SourcesRead(schema, statement, n), Agree(statement, statement', n),
           NEW object, NEW alias, NEW join, NEW tree \in OnTrees, BindableTable(object, alias),
           statement'[n + 1] = Table(object, alias, join, tree)
    PROVE  /\ OnRead(schema, statement', n + 1) = JoinOn(object, alias, join, tree)
           /\ Valid(JoinOn(object, alias, join, tree)) =>
                  CardinalityRead(schema, statement', n + 1)
                      = InferJoinCardinality(JoinedSources(object, alias, join), alias,
                                             JoinOn(object, alias, join, tree).eqs)
  <1> DEFINE registered == JoinedSources(object, alias, join)
             on == JoinOn(object, alias, join, tree)
  <1>0. registered = Append(sources, Joined(object, alias, join)) /\ on = Compiled(registered, tree)
    BY DEF JoinedSources, JoinOn
  <1> HIDE DEF registered, on
  <1> DEFINE c == Table(object, alias, join, tree)
             r == Joined(object, alias, join)
             inferred == InferJoinCardinality(registered, alias, on.eqs)
             st == statement'
             tables == Registered(st, n + 1)
  <1>4. /\ IsSequence(sources) /\ Len(sources) = n /\ DOMAIN sources = 1..n
        /\ \A i \in 1..n : /\ sources[i].alias = statement[i].alias
                           /\ sources[i].object = statement[i].object
                           /\ statement[i].object \in Objects
        /\ OneSourceEach(sources)
    BY TablesAre
  <1>6. /\ c.clause = "table" /\ c.object = object /\ c.alias = alias /\ c.join = join
        /\ c.tree = tree /\ r.alias = alias /\ r.object = object
    BY DEF Table, Joined, Source
  <1>7. statement'[n + 1] = c /\ \A i \in 1..n : statement[i] = statement'[i]
    BY DEF Agree
  <1> HIDE DEF c, r, inferred
  <1>8. /\ object \in Objects /\ \A i \in 1..n : sources[i].alias # alias
    BY <1>4 DEF BindableTable, SourceAliases
  <1>9. /\ DOMAIN registered = 1..(n + 1) /\ registered[n + 1] = r
        /\ \A i \in 1..n : registered[i] = sources[i]
    BY <1>0, <1>4, Extended DEF r
  <1>10. OneSourceEach(registered)
    BY <1>0, <1>4, <1>6, <1>8, SourceAdded DEF r
  <1>11. \A i \in 1..(n + 1) : i \in 1..n \/ i = n + 1
    OBVIOUS
  <1>12. /\ DOMAIN tables = 1..(n + 1)
         /\ \A i \in 1..(n + 1) : tables[i].alias = st[i].alias /\ tables[i].object = st[i].object
    BY DEF Registered, Source
  <1> HIDE DEF tables
  <1>13. Alike(registered, tables)
    BY <1>4, <1>6, <1>7, <1>9, <1>11, <1>12 DEF Alike
  <1>14. on = Reading(schema, st, n + 1, tree)
    <2>1. ObjectsByAlias(registered) = ObjectsByAlias(tables)
      BY <1>10, <1>13, ObjectsAlike
    <2> QED BY <1>0, <2>1 DEF Compiled, Scope, Reading, ScopeRead, tables
  <1>16. OnRead(schema, st, n + 1) = on
    BY <1>6, <1>7, <1>14 DEF OnRead
  <1>17. ASSUME Valid(on) PROVE CardinalityRead(schema, st, n + 1) = inferred
    <2>1. \A i \in DOMAIN registered : registered[i].object \in Objects
      BY <1>4, <1>6, <1>8, <1>9, <1>11
    <2>2. tree \in Trees
      BY CompilerAssumption
    <2>3. Mentions(registered, on)
      BY <1>0, <1>10, <1>17, <2>1, <2>2, CompiledIs
    <2>4. Within(registered, on.eqs)
      BY <1>10, <2>3, EqsWithin
    <2>5. alias \in SourceAliases(registered)
      BY <1>6, <1>9 DEF SourceAliases
    <2>6. inferred = InferJoinCardinality(tables, alias, on.eqs)
      BY <1>10, <1>13, <2>4, <2>5, AlikeInference DEF inferred
    <2>7. n + 1 # 1 /\ st[n + 1].alias = alias
      BY <1>6, <1>7
    <2> QED BY Zenon, <1>16, <2>6, <2>7 DEF CardinalityRead, tables
  <1> QED BY <1>16, <1>17 DEF inferred, registered, on

LEMMA JoinRead ==
    ASSUME PhaseInv, PositionInv, ValidDeclarations, NEW object, NEW alias, NEW join,
           NEW tree \in OnTrees, CompileJoin(object, alias, join, tree),
           Reads(Table(object, alias, join, tree)), UNCHANGED published, phase' # "refused"
    PROVE  PhaseInv'
  <1> DEFINE c == Table(object, alias, join, tree)
             registered == Append(sources, Joined(object, alias, join))
             on == Compiled(registered, tree)
             inferred == InferJoinCardinality(registered, alias, on.eqs)
             st == statement'
  <1>1. /\ phase = "from" /\ Len(sources) \in 1..(MaxSources - 1)
        /\ join \in {"inner", "left"} /\ BindableTable(object, alias)
        /\ Valid(on) /\ inferred # ""
        /\ sources' = Append(sources, Source(object, alias, join, inferred, on))
        /\ UNCHANGED <<phase, schema, projections, filters, groupBy, orderBy, limit>>
    BY Zenon DEF CompileJoin, Refuse, Joined
  <1>2. PICK n : ReadFrom(n)
    BY <1>1 DEF PhaseInv
  <1>3. /\ n \in Nat /\ position = n /\ TablesFit(schema, statement, n)
        /\ sources = SourcesRead(schema, statement, n)
    BY <1>2 DEF ReadFrom
  <1>4. /\ Len(sources) = n /\ DOMAIN sources = 1..n
        /\ \A i \in 1..n : sources[i].alias = statement[i].alias
    BY <1>3, TablesAre
  <1>5. n # 0
    <2>1. Len(sources) \in 1..(MaxSources - 1) /\ MaxSources \in Nat
      BY <1>1, CompilerAssumption
    <2> QED BY ONLY <1>3, <1>4, <2>1
  <1>6. /\ c.clause = "table" /\ c.object = object /\ c.alias = alias /\ c.join = join
        /\ c.tree = tree
    BY DEF Table
  <1>7. st[n + 1] = c /\ Agree(statement, st, n)
    BY <1>3, ReadsOn
  <1>11. /\ registered = Append(sources, Joined(object, alias, join))
         /\ on = Compiled(registered, tree)
         /\ inferred = InferJoinCardinality(registered, alias, on.eqs)
    OBVIOUS
  <1> HIDE DEF on, inferred, registered
  <1>8. OnRead(schema, st, n + 1) = on /\ CardinalityRead(schema, st, n + 1) = inferred
    <2>1. /\ n \in Nat \ {0} /\ TablesFit(schema, statement, n)
          /\ sources = SourcesRead(schema, statement, n) /\ Agree(statement, statement', n)
          /\ BindableTable(object, alias) /\ Valid(on)
          /\ statement'[n + 1] = Table(object, alias, join, tree)
      BY <1>1, <1>3, <1>5, <1>7
    <2>3. /\ OnRead(schema, statement', n + 1) = JoinOn(object, alias, join, tree)
          /\ Valid(JoinOn(object, alias, join, tree)) =>
                 CardinalityRead(schema, statement', n + 1)
                     = InferJoinCardinality(JoinedSources(object, alias, join), alias,
                                            JoinOn(object, alias, join, tree).eqs)
      BY <2>1, JoinReading
    <2> QED BY <1>11, <2>1, <2>3 DEF JoinedSources, JoinOn
  <1> HIDE DEF c
  <1>9. TableFits(schema, st, n + 1)
    <2>1. \A k \in 1..((n + 1) - 1) : st[k].alias # alias
      <3>1. (n + 1) - 1 = n
        BY <1>3
      <3>2. \A k \in 1..n : st[k].alias = sources[k].alias
        BY <1>4, <1>7 DEF Agree
      <3>3. \A k \in 1..n : sources[k].alias # alias
        BY <1>1, <1>4 DEF BindableTable, SourceAliases
      <3> QED BY <3>1, <3>2, <3>3
    <2>2. n + 1 # 1
      BY <1>3, <1>5
    <2>3. object \in Objects /\ alias # ""
      BY <1>1 DEF BindableTable
    <2> QED BY <1>1, <1>6, <1>7, <1>8, <2>1, <2>2, <2>3 DEF TableFits
  <1>10. SourceRead(schema, st, n + 1) = Source(object, alias, join, inferred, on)
    BY <1>6, <1>7, <1>8 DEF SourceRead
  <1> QED BY <1>1, <1>2, <1>9, <1>10, TableRead DEF c

-----------------------------------------------------------------------------
(***************************************************************************)
(* Every clause that is read extends what has been read by one.             *)
(***************************************************************************)
LEMMA CountIs ==
    ASSUME NEW n \in Nat, NEW s, s = [i \in 1..n |-> s[i]]
    PROVE  IsSequence(s) /\ Len(s) = n /\ DOMAIN s = 1..n
  <1> DEFINE S == Elements(s)
  <1>1. \A i \in 1..n : s[i] \in S
    BY DEF Elements
  <1> HIDE DEF S
  <1>2. s \in Seq(S) /\ Len(s) = n
    BY ONLY <1>1, n \in Nat, s = [i \in 1..n |-> s[i]]
  <1> QED BY <1>2 DEF S, IsSequence

LEMMA OneMore ==
    ASSUME NEW n \in Nat, NEW t, t = [i \in 1..(n + 1) |-> t[i]],
           NEW s, s = [i \in 1..n |-> t[i]]
    PROVE  Append(s, t[n + 1]) = t
  <1> DEFINE S == {t[i] : i \in 1..(n + 1)}
  <1>1. \A i \in 1..(n + 1) : t[i] \in S
    OBVIOUS
  <1>2. n + 1 \in 1..(n + 1) /\ 1..n \subseteq 1..(n + 1)
    OBVIOUS
  <1> HIDE DEF S
  <1>3. s \in Seq(S) /\ Len(s) = n /\ t \in Seq(S) /\ Len(t) = n + 1
    <2>1. \A i \in 1..n : s[i] = t[i] /\ s[i] \in S
      BY ONLY <1>1, <1>2, n \in Nat, s = [i \in 1..n |-> t[i]]
    <2>2. s = [i \in 1..n |-> s[i]]
      BY ONLY <2>1, s = [i \in 1..n |-> t[i]]
    <2>3. s \in Seq(S) /\ Len(s) = n
      BY ONLY <2>1, <2>2, n \in Nat
    <2>4. t \in Seq(S) /\ Len(t) = n + 1
      BY ONLY <1>1, n \in Nat, t = [i \in 1..(n + 1) |-> t[i]]
    <2> QED BY <2>3, <2>4
  <1>4. Append(s, t[n + 1]) \in Seq(S) /\ Len(Append(s, t[n + 1])) = n + 1
    BY <1>1, <1>2, <1>3
  <1>5. \A i \in 1..(n + 1) : Append(s, t[n + 1])[i] = t[i]
    BY <1>3
  <1> QED BY <1>3, <1>4, <1>5

LEMMA Moves ==
    ASSUME PositionInv, NEW c, Reads(c), UNCHANGED <<published, schema>>
    PROVE  /\ PositionInv'
           /\ position \in Nat /\ position' = position + 1
           /\ statement'[position + 1] = c
           /\ Agree(statement, statement', position)
           /\ SameScopes(schema, schema')
  BY ReadsOn, SameScopesOf

LEMMA FromEnds ==
    ASSUME PhaseInv, PositionInv, FinishSources, NEW c, c.clause = "end",
           Reads(c), UNCHANGED published, phase' # "refused"
    PROVE  PhaseInv'
  <1>1. /\ phase = "from" /\ sources # <<>> /\ Len(sources) - 1 <= MaximumJoins
        /\ phase' = "select" /\ UNCHANGED <<schema, plan>>
    BY Zenon DEF FinishSources, Refuse
  <1>2. PICK n : ReadFrom(n)
    BY <1>1 DEF PhaseInv
  <1>3. /\ n \in Nat /\ position = n /\ TablesFit(schema, statement, n)
        /\ sources = SourcesRead(schema, statement, n)
    BY <1>2 DEF ReadFrom
  <1>4. Len(sources) = n
    BY <1>3, TablesAre
  <1>5. n # 0
    <2>1. SourcesRead(schema, statement, 0) = <<>>
      BY DEF SourcesRead
    <2> QED BY <1>1, <1>3, <2>1
  <1>6. /\ position' = n + 1 /\ statement'[n + 1].clause = "end"
        /\ Agree(statement, statement', n) /\ SameScopes(schema, schema')
    BY <1>1, <1>3, Moves
  <1>7. /\ TablesFit(schema', statement', n) /\ sources' = SourcesRead(schema', statement', n)
    BY <1>1, <1>3, <1>6, SameTables DEF plan
  <1>8. FromFits(schema', statement', n)
    BY <1>1, <1>3, <1>4, <1>5, <1>6, <1>7 DEF FromFits
  <1>9. /\ ProjectionsFit(schema', statement', n, 0)
        /\ ProjectionsRead(schema', statement', n, 0) = <<>>
    BY DEF ProjectionsFit, ProjectionsRead
  <1>10. 0 \in Nat /\ 0 <= MaximumColumns /\ n + 1 + 0 = n + 1
    BY <1>3, CompilerAssumption
  <1>11. ReadSelect(n, 0)'
    BY <1>1, <1>2, <1>3, <1>6, <1>7, <1>8, <1>9, <1>10 DEF ReadFrom, ReadSelect, plan, Unfiltered, Unlimited
  <1> QED BY <1>1, <1>11 DEF PhaseInv, Complete

LEMMA ReadingSame ==
    ASSUME NEW n \in Nat, TablesFit(schema, statement, n),
           sources = SourcesRead(schema, statement, n),
           SameScopes(schema, schema'), NEW k, Agree(statement, statement', k), n <= k
    PROVE  \A tree : Compiled(sources, tree) = Reading(schema', statement', n, tree)
  BY ReadingIs, SameReading

LEMMA ProjectionRecorded ==
    ASSUME PhaseInv, PositionInv, NEW alias, NEW tree, CompileProjection(alias, tree),
           NEW c, c.clause = "select", c.alias = alias, c.tree = tree,
           Reads(c), UNCHANGED published, phase' # "refused"
    PROVE  PhaseInv'
  <1> DEFINE x == Compiled(sources, tree)
             p == [alias |-> alias, x |-> x, tree |-> tree]
  <1>1. /\ phase = "select" /\ Len(projections) < MaximumColumns
        /\ alias # "" /\ alias \notin DOMAIN ProjectionByAlias /\ Valid(x)
        /\ projections' = Append(projections, p)
        /\ UNCHANGED <<phase, schema, sources, filters, groupBy, orderBy, limit>>
    BY Zenon DEF CompileProjection, Refuse
  <1>2. PICK n, m : ReadSelect(n, m)
    BY <1>1 DEF PhaseInv
  <1>3. /\ n \in Nat /\ m \in Nat /\ position = n + 1 + m
        /\ FromFits(schema, statement, n) /\ ProjectionsFit(schema, statement, n, m)
        /\ TablesFit(schema, statement, n)
        /\ sources = SourcesRead(schema, statement, n)
        /\ projections = ProjectionsRead(schema, statement, n, m)
    BY <1>2 DEF ReadSelect, FromFits
  <1>4. /\ position' = n + 1 + (m + 1) /\ statement'[n + 1 + (m + 1)] = c
        /\ Agree(statement, statement', n + 1 + m) /\ SameScopes(schema, schema')
    <2>1. position + 1 = n + 1 + (m + 1)
      BY <1>3
    <2> QED BY <1>1, <1>3, <2>1, Moves
  <1>5. x = Reading(schema', statement', n, tree)
    <2>1. n <= n + 1 + m
      BY <1>3
    <2> QED BY <1>3, <1>4, <2>1, ReadingSame
  <1> HIDE DEF x, p
  <1> DEFINE st == statement'
             q == schema'
  <1> HIDE DEF st, q
  <1>6. /\ FromFits(q, st, n) /\ ProjectionsFit(q, st, n, m)
        /\ sources' = SourcesRead(q, st, n)
        /\ projections = ProjectionsRead(q, st, n, m)
    <2>1. n + 1 <= n + 1 + m /\ n <= n + 1 + m
      BY <1>3
    <2>2. FromFits(q, st, n)
      BY <1>3, <1>4, <2>1, SameStatement DEF st, q
    <2>3. /\ ProjectionsFit(q, st, n, m)
          /\ projections = ProjectionsRead(q, st, n, m)
      <3> DEFINE k == n + 1 + m
      <3>1. n + 1 + m <= k
        BY <1>3
      <3>2. SameScopes(schema, q) /\ Agree(statement, st, k)
        BY <1>4 DEF st, q
      <3> HIDE DEF k
      <3>3. /\ ProjectionsRead(schema, statement, n, m) = ProjectionsRead(q, st, n, m)
            /\ ProjectionsFit(schema, statement, n, m) => ProjectionsFit(q, st, n, m)
        BY <1>3, <3>1, <3>2, SameProjections
      <3> QED BY <1>3, <3>3
    <2>4. sources' = SourcesRead(q, st, n)
      <3>1. SourcesRead(schema, statement, n) = SourcesRead(q, st, n)
        BY <1>3, <1>4, <2>1, SameTables DEF st, q
      <3> QED BY <1>1, <1>3, <3>1
    <2> QED BY <2>2, <2>3, <2>4
  <1>7. \A i \in 1..m : projections[i].alias = st[n + 1 + i].alias
    BY <1>6 DEF ProjectionsRead, ProjectionRead
  <1>8. \A i \in 1..m : st[n + 1 + i].alias # alias
    <2>1. DOMAIN projections = 1..m
      BY <1>6 DEF ProjectionsRead
    <2>2. \A i \in 1..m : projections[i].alias # alias
      <3>1. DOMAIN ProjectionByAlias = {p_1.alias : p_1 \in Elements(projections)}
        BY DEF ProjectionByAlias
      <3> QED BY <1>1, <2>1, <3>1 DEF Elements
    <2> QED BY <1>7, <2>2
  <1>9. ProjectionFits(q, st, n, m + 1)
    <2>1. (m + 1) - 1 = m
      BY <1>3
    <2> QED BY <1>1, <1>4, <1>5, <1>8, <2>1 DEF ProjectionFits, st, q
  <1>10. ProjectionsFit(q, st, n, m + 1)
    <2>1. \A i \in 1..(m + 1) : i \in 1..m \/ i = m + 1
      BY <1>3
    <2> QED BY <1>6, <1>9, <2>1 DEF ProjectionsFit
  <1>11. projections' = ProjectionsRead(q, st, n, m + 1)
    <2> DEFINE t == ProjectionsRead(q, st, n, m + 1)
    <2>1. t = [i \in 1..(m + 1) |-> t[i]]
      BY DEF ProjectionsRead
    <2>0. projections = [i \in 1..m |-> t[i]]
      <3>1. \A i \in 1..m : t[i] = ProjectionRead(q, st, n, st[n + 1 + i])
        BY <1>3 DEF ProjectionsRead
      <3>2. projections = [i \in 1..m |-> ProjectionRead(q, st, n, st[n + 1 + i])]
        BY <1>6 DEF ProjectionsRead
      <3> QED BY <3>1, <3>2
    <2>2. t[m + 1] = ProjectionRead(q, st, n, st[n + 1 + (m + 1)])
      BY <1>3 DEF ProjectionsRead
    <2>3. t[m + 1] = p
      BY <1>4, <1>5, <2>2 DEF ProjectionRead, st, q, p
    <2> HIDE DEF t
    <2>4. Append(projections, t[m + 1]) = t
      BY <1>3, <2>0, <2>1, OneMore
    <2> QED BY <1>1, <2>3, <2>4 DEF t
  <1>12. m + 1 \in Nat /\ m + 1 <= MaximumColumns
    <2>1. Len(projections) = m
      <3>1. projections = [i \in 1..m |-> projections[i]]
        BY <1>6 DEF ProjectionsRead
      <3> QED BY <1>3, <3>1, CountIs
    <2>2. Len(projections) < MaximumColumns /\ MaximumColumns \in Nat
      BY <1>1, CompilerAssumption
    <2> QED BY ONLY <1>3, <2>1, <2>2
  <1>13. ReadSelect(n, m + 1)'
    BY <1>1, <1>2, <1>3, <1>4, <1>6, <1>10, <1>11, <1>12 DEF ReadSelect, Unfiltered, Unlimited, st, q
  <1> QED BY <1>1, <1>13 DEF PhaseInv, Complete

LEMMA SelectEnds ==
    ASSUME PhaseInv, PositionInv, FinishProjections, NEW c, c.clause = "end",
           Reads(c), UNCHANGED published, phase' # "refused"
    PROVE  PhaseInv'
  <1>1. /\ phase = "select" /\ projections # <<>>
        /\ phase' = "where" /\ UNCHANGED <<schema, plan>>
    BY Zenon DEF FinishProjections, Refuse
  <1>2. PICK n, m : ReadSelect(n, m)
    BY <1>1 DEF PhaseInv
  <1>3. /\ n \in Nat /\ m \in Nat /\ position = n + 1 + m /\ m <= MaximumColumns
        /\ FromFits(schema, statement, n) /\ ProjectionsFit(schema, statement, n, m)
        /\ sources = SourcesRead(schema, statement, n)
        /\ projections = ProjectionsRead(schema, statement, n, m)
    BY <1>2 DEF ReadSelect
  <1>4. m # 0
    <2>1. ProjectionsRead(schema, statement, n, 0) = <<>>
      BY DEF ProjectionsRead
    <2> QED BY <1>1, <1>3, <2>1
  <1>5. /\ position' = n + m + 2 /\ statement'[n + m + 2] = c
        /\ Agree(statement, statement', n + 1 + m) /\ SameScopes(schema, schema')
    <2>1. position + 1 = n + m + 2
      BY <1>3
    <2> QED BY <1>1, <1>3, <2>1, Moves
  <1>6. n <= n + 1 + m /\ n + 1 <= n + 1 + m
    BY <1>3
  <1>7. /\ FromFits(schema', statement', n) /\ ProjectionsFit(schema', statement', n, m)
        /\ sources' = SourcesRead(schema', statement', n)
        /\ projections' = ProjectionsRead(schema', statement', n, m)
    BY <1>1, <1>3, <1>5, <1>6, SameStatement, SameProjections, SameTables DEF plan
  <1>8. ReadWhere(n, m)'
    BY <1>1, <1>2, <1>3, <1>4, <1>5, <1>7
       DEF ReadSelect, ReadWhere, SelectFits, plan, Unfiltered, Unlimited
  <1> QED BY <1>1, <1>8 DEF PhaseInv, Complete

\* What WHERE or HAVING does to the filters.
Filters(clause, c) ==
    \/ c.clause = "end" /\ UNCHANGED filters
    \/ /\ c.clause = clause /\ Valid(Compiled(sources, c.tree))
       /\ filters' = [filters EXCEPT ![clause] = Compiled(sources, c.tree)]

LEMMA FilterSteps ==
    ASSUME NEW clause \in {"where", "having"}, phase' # "refused",
           NEW c, \/ SkipFilter(clause) /\ c = End
                  \/ \E tree \in FilterTrees :
                        CompileFilter(clause, tree) /\ c = Expression(clause, "", tree)
    PROVE  /\ phase = clause /\ phase' = After(clause) /\ Filters(clause, c)
           /\ UNCHANGED <<schema, sources, projections, resultSchema, groupBy, orderBy, limit>>
  <1>1. CASE SkipFilter(clause) /\ c = End
    BY <1>1 DEF SkipFilter, Filters, End, Expression, plan
  <1>2. CASE \E tree \in FilterTrees :
                 CompileFilter(clause, tree) /\ c = Expression(clause, "", tree)
    <2>1. PICK tree \in FilterTrees :
                 CompileFilter(clause, tree) /\ c = Expression(clause, "", tree)
      BY <1>2
    <2>2. /\ phase = clause /\ Valid(Compiled(sources, tree))
          /\ filters' = [filters EXCEPT ![clause] = Compiled(sources, tree)]
          /\ phase' = After(clause)
          /\ UNCHANGED <<schema, sources, projections, resultSchema, groupBy, orderBy, limit>>
      BY Zenon, <2>1 DEF CompileFilter, Refuse
    <2>3. c.clause = clause /\ c.tree = tree
      BY <2>1 DEF Expression
    <2> QED BY <2>2, <2>3 DEF Filters
  <1> QED BY <1>1, <1>2

LEMMA WhereRead ==
    ASSUME PhaseInv, PositionInv, phase = "where", phase' = "group", NEW c, Filters("where", c),
           UNCHANGED <<schema, sources, projections, groupBy, orderBy, limit>>,
           Reads(c), UNCHANGED published
    PROVE  PhaseInv'
  <1>1. PICK n, m : ReadWhere(n, m)
    BY DEF PhaseInv
  <1>2. /\ n \in Nat /\ m \in Nat /\ position = n + m + 2
        /\ SelectFits(schema, statement, n, m) /\ TablesFit(schema, statement, n)
        /\ sources = SourcesRead(schema, statement, n)
        /\ projections = ProjectionsRead(schema, statement, n, m)
        /\ filters = [where |-> Blank, having |-> Blank]
    BY <1>1 DEF ReadWhere, SelectFits, FromFits, Unfiltered
  <1>3. /\ position' = n + m + 3 + 0 /\ statement'[n + m + 3] = c
        /\ Agree(statement, statement', n + m + 2) /\ SameScopes(schema, schema')
    <2>1. position + 1 = n + m + 3 /\ position + 1 = n + m + 3 + 0
      BY <1>2
    <2> QED BY <1>2, <2>1, Moves
  <1>4. n <= n + m + 2 /\ n + 1 + m <= n + m + 2 /\ n + m + 2 <= n + m + 2
    BY <1>2
  <1>5. SelectFits(schema', statement', n, m)
    BY <1>2, <1>3, <1>4, SameStatement
  <1>6. sources' = SourcesRead(schema', statement', n)
    BY <1>2, <1>3, <1>4, SameTables
  <1>7. projections' = ProjectionsRead(schema', statement', n, m)
    BY <1>2, <1>3, <1>4, SameProjections
  <1>8. \A tree : Compiled(sources, tree) = Reading(schema', statement', n, tree)
    BY <1>2, <1>3, <1>4, ReadingSame
  <1>9. /\ FilterFits(schema', statement', n, "where", c)
        /\ filters' = [where  |-> FilterRead(schema', statement', n, "where", c),
                       having |-> Blank]
    <2>1. CASE c.clause = "end" /\ UNCHANGED filters
      BY <1>2, <2>1 DEF FilterFits, FilterRead
    <2>2. CASE /\ c.clause = "where" /\ Valid(Compiled(sources, c.tree))
               /\ filters' = [filters EXCEPT !["where"] = Compiled(sources, c.tree)]
      BY <1>2, <1>8, <2>2 DEF FilterFits, FilterRead
    <2> QED BY <2>1, <2>2 DEF Filters
  <1>10. /\ GroupsFit(schema', statement', n, m, 0)
         /\ GroupsRead(schema', statement', n, m, 0) = <<>>
    BY DEF GroupsFit, GroupsRead
  <1>11. ReadGroup(n, m, 0)'
    <2>1. groupBy' = <<>> /\ orderBy' = <<>> /\ limit' = Unlimited(0)
      BY <1>1 DEF ReadWhere
    <2>2. WhereFits(schema', statement', n, m)
      BY <1>3, <1>5, <1>9 DEF WhereFits
    <2>3. filters' = FilteredOnce(n, m)'
      BY <1>3, <1>9 DEF FilteredOnce
    <2> QED BY <1>2, <1>3, <1>6, <1>7, <1>10, <2>1, <2>2, <2>3 DEF ReadGroup, Unlimited
  <1> QED BY <1>11 DEF PhaseInv, Complete

LEMMA GroupRead ==
    ASSUME PhaseInv, PositionInv, NEW tree, CompileGroupTerm(tree),
           NEW c, c.clause = "group", c.tree = tree,
           Reads(c), UNCHANGED published, phase' # "refused"
    PROVE  PhaseInv'
  <1> DEFINE x == Compiled(sources, tree)
             term == Term(x, tree)
  <1>1. /\ phase = "group" /\ Valid(x)
        /\ groupBy' = Append(groupBy, term)
        /\ UNCHANGED <<phase, schema, sources, projections, filters, orderBy, limit>>
    BY Zenon DEF CompileGroupTerm, Refuse
  <1> HIDE DEF x, term
  <1>2. PICK n, m, g : ReadGroup(n, m, g)
    BY <1>1 DEF PhaseInv
  <1>3. /\ n \in Nat /\ m \in Nat /\ g \in Nat /\ position = n + m + 3 + g
        /\ WhereFits(schema, statement, n, m) /\ GroupsFit(schema, statement, n, m, g)
        /\ TablesFit(schema, statement, n)
        /\ sources = SourcesRead(schema, statement, n)
        /\ projections = ProjectionsRead(schema, statement, n, m)
        /\ filters = FilteredOnce(n, m)
        /\ groupBy = GroupsRead(schema, statement, n, m, g)
    BY <1>2 DEF ReadGroup, WhereFits, SelectFits, FromFits
  <1>4. /\ position' = n + m + 3 + (g + 1) /\ statement'[n + m + 3 + (g + 1)] = c
        /\ Agree(statement, statement', n + m + 3 + g) /\ SameScopes(schema, schema')
    <2>1. position + 1 = n + m + 3 + (g + 1)
      BY <1>3
    <2> QED BY <1>1, <1>3, <2>1, Moves
  <1>5. /\ n <= n + m + 3 + g /\ n + 1 + m <= n + m + 3 + g /\ n + m + 3 <= n + m + 3 + g
        /\ n + m + 3 + g <= n + m + 3 + g /\ n + m + 3 \in 1..(n + m + 3 + g)
    BY <1>3
  <1> DEFINE st == statement'
             q == schema'
  <1> HIDE DEF st, q
  <1>6. WhereFits(q, st, n, m)
    BY <1>3, <1>4, <1>5, SameStatement DEF st, q
  <1>7. sources' = SourcesRead(q, st, n)
    <2>1. SourcesRead(schema, statement, n) = SourcesRead(q, st, n)
      BY <1>3, <1>4, <1>5, SameTables DEF st, q
    <2> QED BY <1>1, <1>3, <2>1
  <1>8. projections' = ProjectionsRead(q, st, n, m)
    <2>1. ProjectionsRead(schema, statement, n, m) = ProjectionsRead(q, st, n, m)
      BY <1>3, <1>4, <1>5, SameProjections DEF st, q
    <2> QED BY <1>1, <1>3, <2>1
  <1>9. filters' = FilteredOnce(n, m)'
    <2>1. statement[n + m + 3] = st[n + m + 3]
      BY <1>4, <1>5 DEF Agree, st
    <2>2. \A e : FilterRead(schema, statement, n, "where", e) = FilterRead(q, st, n, "where", e)
      BY <1>3, <1>4, <1>5, SameFilter DEF st, q
    <2>3. FilteredOnce(n, m)' = FilteredOnce(n, m)
      BY <2>1, <2>2 DEF FilteredOnce, st, q
    <2> QED BY <1>1, <1>3, <2>3
  <1>10. x = Reading(q, st, n, tree)
    BY <1>3, <1>4, <1>5, ReadingSame DEF x, st, q
  <1>11. GroupsFit(q, st, n, m, g) /\ groupBy = GroupsRead(q, st, n, m, g)
    BY <1>3, <1>4, <1>5, SameGroups DEF st, q
  <1>12. GroupsFit(q, st, n, m, g + 1)
    <2>1. \A i \in 1..(g + 1) : i \in 1..g \/ i = g + 1
      BY <1>3
    <2> QED BY <1>1, <1>4, <1>10, <1>11, <2>1 DEF GroupsFit, st, q
  <1>13. groupBy' = GroupsRead(q, st, n, m, g + 1)
    <2> DEFINE t == GroupsRead(q, st, n, m, g + 1)
    <2>1. t = [i \in 1..(g + 1) |-> t[i]]
      BY DEF GroupsRead
    <2>2. groupBy = [i \in 1..g |-> t[i]]
      <3>1. \A i \in 1..g : t[i] = Term(Reading(q, st, n, st[n + m + 3 + i].tree),
                                        st[n + m + 3 + i].tree)
        BY <1>3 DEF GroupsRead
      <3>2. groupBy = [i \in 1..g |-> Term(Reading(q, st, n, st[n + m + 3 + i].tree),
                                           st[n + m + 3 + i].tree)]
        BY <1>11 DEF GroupsRead
      <3> QED BY <3>1, <3>2
    <2>3. t[g + 1] = Term(Reading(q, st, n, st[n + m + 3 + (g + 1)].tree),
                          st[n + m + 3 + (g + 1)].tree)
      BY <1>3 DEF GroupsRead
    <2>4. t[g + 1] = term
      BY <1>4, <1>10, <2>3 DEF term, st
    <2> HIDE DEF t
    <2>5. Append(groupBy, t[g + 1]) = t
      BY <1>3, <2>1, <2>2, OneMore
    <2> QED BY <1>1, <2>4, <2>5 DEF t
  <1>14. ReadGroup(n, m, g + 1)'
    <2>1. orderBy' = <<>> /\ limit' = Unlimited(0) /\ g + 1 \in Nat
      BY <1>1, <1>2 DEF ReadGroup
    <2> QED BY <1>3, <1>4, <1>6, <1>7, <1>8, <1>9, <1>12, <1>13, <2>1
            DEF ReadGroup, Unlimited, st, q
  <1> QED BY <1>1, <1>14 DEF PhaseInv, Complete

\* What the clauses before GROUP BY keep.
LEMMA BeforeGroups ==
    ASSUME SameScopes(schema, schema'), NEW n \in Nat, NEW m \in Nat,
           NEW k, Agree(statement, statement', k), n + m + 3 <= k,
           filters = FilteredOnce(n, m), UNCHANGED <<sources, projections>>,
           sources = SourcesRead(schema, statement, n),
           projections = ProjectionsRead(schema, statement, n, m)
    PROVE  /\ sources' = SourcesRead(schema', statement', n)
           /\ projections' = ProjectionsRead(schema', statement', n, m)
           /\ filters = FilteredOnce(n, m)'
  <1>1. k \in Nat /\ n <= k /\ n + 1 + m <= k /\ n + m + 3 \in 1..k
    BY DEF Agree
  <1>2. SourcesRead(schema, statement, n) = SourcesRead(schema', statement', n)
    BY <1>1, SameTables
  <1>3. ProjectionsRead(schema, statement, n, m) = ProjectionsRead(schema', statement', n, m)
    BY <1>1, SameProjections
  <1>4. statement[n + m + 3] = statement'[n + m + 3]
    BY <1>1 DEF Agree
  <1>5. \A e : FilterRead(schema, statement, n, "where", e)
                   = FilterRead(schema', statement', n, "where", e)
    BY <1>1, SameFilter
  <1>6. FilteredOnce(n, m)' = FilteredOnce(n, m)
    BY <1>4, <1>5 DEF FilteredOnce
  <1> QED BY <1>2, <1>3, <1>6

LEMMA GroupEnds ==
    ASSUME PhaseInv, PositionInv, FinishGroupBy, NEW c, c.clause = "end",
           Reads(c), UNCHANGED published
    PROVE  PhaseInv'
  <1>1. phase = "group" /\ phase' = "having" /\ UNCHANGED <<schema, plan>>
    BY DEF FinishGroupBy
  <1>2. PICK n, m, g : ReadGroup(n, m, g)
    BY <1>1 DEF PhaseInv
  <1>3. /\ n \in Nat /\ m \in Nat /\ g \in Nat /\ position = n + m + 3 + g
        /\ WhereFits(schema, statement, n, m) /\ GroupsFit(schema, statement, n, m, g)
        /\ sources = SourcesRead(schema, statement, n)
        /\ projections = ProjectionsRead(schema, statement, n, m)
        /\ filters = FilteredOnce(n, m)
        /\ groupBy = GroupsRead(schema, statement, n, m, g)
    BY <1>2 DEF ReadGroup
  <1>4. /\ position' = n + m + g + 4 /\ statement'[n + m + g + 4] = c
        /\ Agree(statement, statement', n + m + 3 + g) /\ SameScopes(schema, schema')
    <2>1. position + 1 = n + m + g + 4
      BY <1>3
    <2> QED BY <1>1, <1>3, <2>1, Moves
  <1>5. n + m + 3 <= n + m + 3 + g /\ n + m + 3 + g <= n + m + 3 + g
    BY <1>3
  <1>6. /\ sources' = SourcesRead(schema', statement', n)
        /\ projections' = ProjectionsRead(schema', statement', n, m)
        /\ filters = FilteredOnce(n, m)'
    BY <1>1, <1>3, <1>4, <1>5, BeforeGroups DEF plan
  <1>7. WhereFits(schema', statement', n, m)
    BY <1>3, <1>4, <1>5, SameStatement
  <1>8. /\ GroupsFit(schema', statement', n, m, g)
        /\ GroupsRead(schema, statement, n, m, g) = GroupsRead(schema', statement', n, m, g)
    <2>1. /\ n \in Nat /\ m \in Nat /\ g \in Nat /\ GroupsFit(schema, statement, n, m, g)
          /\ Agree(statement, statement', n + m + 3 + g) /\ SameScopes(schema, schema')
          /\ n + m + 3 + g <= n + m + 3 + g
      BY <1>3, <1>4, <1>5
    <2> QED BY ONLY <2>1, SameGroups
  <1>9. GroupFits(schema', statement', n, m, g)
    BY <1>3, <1>4, <1>7, <1>8 DEF GroupFits
  <1>10. ReadHaving(n, m, g)'
    <2>1. /\ orderBy' = <<>> /\ limit' = Unlimited(0) /\ groupBy' = groupBy
          /\ filters' = filters
      BY <1>1, <1>2 DEF ReadGroup, plan
    <2> QED BY <1>3, <1>4, <1>6, <1>8, <1>9, <2>1 DEF ReadHaving, Unlimited
  <1> QED BY <1>1, <1>10 DEF PhaseInv, Complete

LEMMA HavingRead ==
    ASSUME PhaseInv, PositionInv, phase = "having", phase' = "order", NEW c, Filters("having", c),
           UNCHANGED <<schema, sources, projections, groupBy, orderBy, limit>>,
           Reads(c), UNCHANGED published
    PROVE  PhaseInv'
  <1>1. PICK n, m, g : ReadHaving(n, m, g)
    BY DEF PhaseInv
  <1>2. /\ n \in Nat /\ m \in Nat /\ g \in Nat /\ position = n + m + g + 4
        /\ GroupFits(schema, statement, n, m, g) /\ TablesFit(schema, statement, n)
        /\ sources = SourcesRead(schema, statement, n)
        /\ projections = ProjectionsRead(schema, statement, n, m)
        /\ filters = FilteredOnce(n, m)
        /\ groupBy = GroupsRead(schema, statement, n, m, g)
    BY <1>1 DEF ReadHaving, GroupFits, WhereFits, SelectFits, FromFits
  <1>3. /\ position' = n + m + g + 5 + 0 /\ statement'[n + m + g + 5] = c
        /\ Agree(statement, statement', n + m + g + 4) /\ SameScopes(schema, schema')
    <2>1. position + 1 = n + m + g + 5 /\ position + 1 = n + m + g + 5 + 0
      BY <1>2
    <2> QED BY <1>2, <2>1, Moves
  <1>4. /\ n <= n + m + g + 4 /\ n + m + 3 <= n + m + g + 4 /\ n + m + 3 + g <= n + m + g + 4
        /\ n + m + g + 4 <= n + m + g + 4
    BY <1>2
  <1>5. /\ sources' = SourcesRead(schema', statement', n)
        /\ projections' = ProjectionsRead(schema', statement', n, m)
        /\ filters = FilteredOnce(n, m)'
    BY <1>2, <1>3, <1>4, BeforeGroups
  <1>6. GroupFits(schema', statement', n, m, g)
    BY <1>2, <1>3, <1>4, SameStatement
  <1>7. groupBy' = GroupsRead(schema', statement', n, m, g)
    BY <1>2, <1>3, <1>4, SameGroups
  <1>8. \A tree : Compiled(sources, tree) = Reading(schema', statement', n, tree)
    BY <1>2, <1>3, <1>4, ReadingSame
  <1>9. /\ FilterFits(schema', statement', n, "having", c)
        /\ filters' = FiltersRead(schema', statement', n, m, g)
    <2> DEFINE w == FilterRead(schema', statement', n, "where", statement'[n + m + 3])
    <2>0. filters = [where |-> w, having |-> Blank]
      BY <1>5 DEF FilteredOnce
    <2>1. FiltersRead(schema', statement', n, m, g)
              = [where  |-> w, having |-> FilterRead(schema', statement', n, "having", c)]
      BY <1>3 DEF FiltersRead
    <2> HIDE DEF w
    <2>2. CASE c.clause = "end" /\ UNCHANGED filters
      BY <2>0, <2>1, <2>2 DEF FilterFits, FilterRead
    <2>3. CASE /\ c.clause = "having" /\ Valid(Compiled(sources, c.tree))
               /\ filters' = [filters EXCEPT !["having"] = Compiled(sources, c.tree)]
      <3>1. filters' = [where |-> w, having |-> Compiled(sources, c.tree)]
        BY <2>0, <2>3
      <3>2. /\ FilterRead(schema', statement', n, "having", c) = Compiled(sources, c.tree)
            /\ FilterFits(schema', statement', n, "having", c)
        BY <1>8, <2>3 DEF FilterFits, FilterRead
      <3> QED BY <2>1, <3>1, <3>2
    <2> QED BY <2>2, <2>3 DEF Filters
  <1>10. /\ OrdersFit(schema', statement', n, m, g, 0)
         /\ OrdersRead(schema', statement', n, m, g, 0) = <<>>
    BY DEF OrdersFit, OrdersRead
  <1>11. ReadOrder(n, m, g, 0)'
    <2>1. orderBy' = <<>> /\ limit' = Unlimited(0)
      BY <1>1 DEF ReadHaving
    <2>2. HavingFits(schema', statement', n, m, g)
      BY <1>3, <1>6, <1>9 DEF HavingFits
    <2> QED BY <1>2, <1>3, <1>5, <1>7, <1>9, <1>10, <2>1, <2>2 DEF ReadOrder, Unlimited
  <1> QED BY <1>11 DEF PhaseInv, Complete

\* What the clauses before ORDER BY keep.
LEMMA BeforeOrders ==
    ASSUME SameScopes(schema, schema'), NEW n \in Nat, NEW m \in Nat, NEW g \in Nat,
           NEW k, Agree(statement, statement', k), n + m + g + 5 <= k
    PROVE  /\ SourcesRead(schema, statement, n) = SourcesRead(schema', statement', n)
           /\ ProjectionsRead(schema, statement, n, m)
                  = ProjectionsRead(schema', statement', n, m)
           /\ FiltersRead(schema, statement, n, m, g) = FiltersRead(schema', statement', n, m, g)
           /\ GroupsRead(schema, statement, n, m, g) = GroupsRead(schema', statement', n, m, g)
  <1>1. /\ k \in Nat /\ n <= k /\ n + 1 + m <= k /\ n + m + 3 + g <= k
        /\ n + m + 3 \in 1..k /\ n + m + g + 5 \in 1..k
    BY DEF Agree
  <1>2. SourcesRead(schema, statement, n) = SourcesRead(schema', statement', n)
    BY <1>1, SameTables
  <1>3. ProjectionsRead(schema, statement, n, m) = ProjectionsRead(schema', statement', n, m)
    BY <1>1, SameProjections
  <1>4. GroupsRead(schema, statement, n, m, g) = GroupsRead(schema', statement', n, m, g)
    BY <1>1, SameGroups
  <1>5. /\ statement[n + m + 3] = statement'[n + m + 3]
        /\ statement[n + m + g + 5] = statement'[n + m + g + 5]
    BY <1>1 DEF Agree
  <1>6. \A clause, e : FilterRead(schema, statement, n, clause, e)
                           = FilterRead(schema', statement', n, clause, e)
    BY <1>1, SameFilter
  <1>7. FiltersRead(schema, statement, n, m, g) = FiltersRead(schema', statement', n, m, g)
    BY <1>5, <1>6 DEF FiltersRead
  <1> QED BY <1>2, <1>3, <1>4, <1>7

LEMMA OrderRead ==
    ASSUME PhaseInv, PositionInv, NEW tree, CompileOrderByTerm(tree),
           NEW c, c.clause = "order", c.tree = tree,
           Reads(c), UNCHANGED published, phase' # "refused"
    PROVE  PhaseInv'
  <1> DEFINE x == CompileOrderTerm(Scope(sources), ProjectionByAlias, Trees, tree)
             term == Term(x, tree)
  <1>1. /\ phase = "order" /\ Valid(x)
        /\ orderBy' = Append(orderBy, term) /\ limit' = [limit EXCEPT !.ordered = TRUE]
        /\ UNCHANGED <<phase, schema, sources, projections, filters, groupBy>>
    BY Zenon DEF CompileOrderByTerm, Refuse
  <1> HIDE DEF x, term
  <1>2. PICK n, m, g, o : ReadOrder(n, m, g, o)
    BY <1>1 DEF PhaseInv
  <1>3. /\ n \in Nat /\ m \in Nat /\ g \in Nat /\ o \in Nat /\ position = n + m + g + 5 + o
        /\ HavingFits(schema, statement, n, m, g) /\ OrdersFit(schema, statement, n, m, g, o)
        /\ TablesFit(schema, statement, n)
        /\ sources = SourcesRead(schema, statement, n)
        /\ projections = ProjectionsRead(schema, statement, n, m)
        /\ filters = FiltersRead(schema, statement, n, m, g)
        /\ groupBy = GroupsRead(schema, statement, n, m, g)
        /\ orderBy = OrdersRead(schema, statement, n, m, g, o)
        /\ limit = Unlimited(o)
    BY <1>2 DEF ReadOrder, HavingFits, GroupFits, WhereFits, SelectFits, FromFits
  <1>4. /\ position' = n + m + g + 5 + (o + 1) /\ statement'[n + m + g + 5 + (o + 1)] = c
        /\ Agree(statement, statement', n + m + g + 5 + o) /\ SameScopes(schema, schema')
    <2>1. position + 1 = n + m + g + 5 + (o + 1)
      BY <1>3
    <2> QED BY <1>1, <1>3, <2>1, Moves
  <1>5. /\ n + m + g + 5 <= n + m + g + 5 + o /\ n + m + g + 5 + o <= n + m + g + 5 + o
        /\ n + 1 + m <= n + m + g + 5 + o
    BY <1>3
  <1> DEFINE st == statement'
             q == schema'
  <1> HIDE DEF st, q
  <1>6. HavingFits(q, st, n, m, g)
    BY <1>3, <1>4, <1>5, SameStatement DEF st, q
  <1>7. /\ sources' = SourcesRead(q, st, n) /\ projections' = ProjectionsRead(q, st, n, m)
        /\ filters' = FiltersRead(q, st, n, m, g) /\ groupBy' = GroupsRead(q, st, n, m, g)
    <2>1. /\ SourcesRead(schema, statement, n) = SourcesRead(q, st, n)
          /\ ProjectionsRead(schema, statement, n, m) = ProjectionsRead(q, st, n, m)
          /\ FiltersRead(schema, statement, n, m, g) = FiltersRead(q, st, n, m, g)
          /\ GroupsRead(schema, statement, n, m, g) = GroupsRead(q, st, n, m, g)
      BY <1>3, <1>4, <1>5, BeforeOrders DEF st, q
    <2> QED BY <1>1, <1>3, <2>1
  <1>8. x = Ordering(q, st, n, m, tree)
    <2>1. ProjectionByAlias = Named(ProjectionsRead(schema, statement, n, m))
      BY <1>3 DEF ProjectionByAlias, Named
    <2>2. Scope(sources) = ScopeRead(schema, statement, n)
      BY <1>3, ReadingIs
    <2>3. x = Ordering(schema, statement, n, m, tree)
      BY <2>1, <2>2 DEF x, Ordering
    <2> QED BY <1>3, <1>4, <1>5, <2>3, SameProjections DEF st, q
  <1>9. OrdersFit(q, st, n, m, g, o) /\ orderBy = OrdersRead(q, st, n, m, g, o)
    BY <1>3, <1>4, <1>5, SameOrders DEF st, q
  <1>10. OrdersFit(q, st, n, m, g, o + 1)
    <2>1. \A i \in 1..(o + 1) : i \in 1..o \/ i = o + 1
      BY <1>3
    <2> QED BY <1>1, <1>4, <1>8, <1>9, <2>1 DEF OrdersFit, st, q
  <1>11. orderBy' = OrdersRead(q, st, n, m, g, o + 1)
    <2> DEFINE t == OrdersRead(q, st, n, m, g, o + 1)
    <2>1. t = [i \in 1..(o + 1) |-> t[i]]
      BY DEF OrdersRead
    <2>2. orderBy = [i \in 1..o |-> t[i]]
      <3>1. \A i \in 1..o : t[i] = Term(Ordering(q, st, n, m, st[n + m + g + 5 + i].tree),
                                        st[n + m + g + 5 + i].tree)
        BY <1>3 DEF OrdersRead
      <3>2. orderBy = [i \in 1..o |-> Term(Ordering(q, st, n, m, st[n + m + g + 5 + i].tree),
                                           st[n + m + g + 5 + i].tree)]
        BY <1>9 DEF OrdersRead
      <3> QED BY <3>1, <3>2
    <2>3. t[o + 1] = Term(Ordering(q, st, n, m, st[n + m + g + 5 + (o + 1)].tree),
                          st[n + m + g + 5 + (o + 1)].tree)
      BY <1>3 DEF OrdersRead
    <2>4. t[o + 1] = term
      BY <1>4, <1>8, <2>3 DEF term, st
    <2> HIDE DEF t
    <2>5. Append(orderBy, t[o + 1]) = t
      BY <1>3, <2>1, <2>2, OneMore
    <2> QED BY <1>1, <2>4, <2>5 DEF t
  <1>12. limit' = Unlimited(o + 1)
    <2>1. o + 1 # 0
      BY <1>3
    <2> QED BY <1>1, <1>3, <2>1 DEF Unlimited
  <1>13. ReadOrder(n, m, g, o + 1)'
    <2>1. o + 1 \in Nat
      BY <1>3
    <2> QED BY <1>3, <1>4, <1>6, <1>7, <1>10, <1>11, <1>12, <2>1 DEF ReadOrder, Unlimited, st, q
  <1> QED BY <1>1, <1>13 DEF PhaseInv, Complete

LEMMA LimitSet ==
    ASSUME NEW rows, NEW explicit, NEW ordered
    PROVE  [[rows |-> 0, explicit |-> FALSE, ordered |-> ordered] EXCEPT
                !.rows = rows, !.explicit = explicit]
               = [rows |-> rows, explicit |-> explicit, ordered |-> ordered]
  <1> DEFINE f == [rows |-> 0, explicit |-> FALSE, ordered |-> ordered]
             g == [f EXCEPT !.rows = rows, !.explicit = explicit]
             h == [rows |-> rows, explicit |-> explicit, ordered |-> ordered]
  <1>1. DOMAIN f = {"rows", "explicit", "ordered"} /\ f.ordered = ordered
    OBVIOUS
  <1>2. /\ DOMAIN h = {"rows", "explicit", "ordered"}
        /\ h.rows = rows /\ h.explicit = explicit /\ h.ordered = ordered
        /\ h = [i \in DOMAIN h |-> h[i]]
    OBVIOUS
  <1> HIDE DEF f, h
  <1>3. /\ DOMAIN g = DOMAIN f
        /\ g.rows = rows /\ g.explicit = explicit /\ g.ordered = ordered
        /\ g = [i \in DOMAIN g |-> g[i]]
    BY <1>1
  <1> HIDE DEF g
  <1>4. g = h
    BY <1>1, <1>2, <1>3
  <1> QED BY <1>4 DEF f, g, h

LEMMA StatementRead ==
    ASSUME PhaseInv, PositionInv, NEW clause, FinishSelect(clause),
           NEW c, c.clause = "limit", c.tree = clause,
           Reads(c), UNCHANGED published, phase' # "refused"
    PROVE  PhaseInv'
  <1> DEFINE lim == [limit EXCEPT !.rows = LimitRows(clause), !.explicit = clause.given]
  <1>1. /\ phase = "order"
        /\ clause.given => clause.rows \in 1..MaximumLimit
        /\ limit' = lim /\ orderBy' = StableOrder
        /\ sources' = [i \in DOMAIN sources |->
                          [sources[i] EXCEPT !.fields = SourceFields(sources[i], StableOrder)]]
        /\ phase' = "amplification"
        /\ UNCHANGED <<schema, projections, resultSchema, filters, groupBy>>
    BY Zenon DEF FinishSelect, Refuse
  <1>2. PICK n, m, g, o : ReadOrder(n, m, g, o)
    BY <1>1 DEF PhaseInv
  <1>3. /\ n \in Nat /\ m \in Nat /\ g \in Nat /\ o \in Nat /\ position = n + m + g + 5 + o
        /\ HavingFits(schema, statement, n, m, g) /\ OrdersFit(schema, statement, n, m, g, o)
        /\ sources = SourcesRead(schema, statement, n)
        /\ projections = ProjectionsRead(schema, statement, n, m)
        /\ filters = FiltersRead(schema, statement, n, m, g)
        /\ groupBy = GroupsRead(schema, statement, n, m, g)
        /\ orderBy = OrdersRead(schema, statement, n, m, g, o)
        /\ limit = Unlimited(o)
    BY <1>2 DEF ReadOrder
  <1>4. /\ position' = n + m + g + o + 6 /\ statement'[n + m + g + o + 6] = c
        /\ Agree(statement, statement', n + m + g + 5 + o) /\ SameScopes(schema, schema')
    <2>1. position + 1 = n + m + g + o + 6
      BY <1>3
    <2> QED BY <1>1, <1>3, <2>1, Moves
  <1>5. /\ n + m + g + 5 <= n + m + g + 5 + o /\ n + m + g + 5 + o <= n + m + g + 5 + o
    BY <1>3
  <1> DEFINE st == statement'
             q == schema'
  <1> HIDE DEF st, q
  <1>6. StatementFits(q, st, n, m, g, o)
    <2>1. HavingFits(q, st, n, m, g)
      BY <1>3, <1>4, <1>5, SameStatement DEF st, q
    <2>2. OrdersFit(q, st, n, m, g, o)
      BY <1>3, <1>4, <1>5, SameOrders DEF st, q
    <2>3. LimitFits(st[n + m + g + o + 6])
      BY <1>1, <1>4 DEF LimitFits, st
    <2> QED BY <1>3, <2>1, <2>2, <2>3 DEF StatementFits
  <1>7. /\ sources = SourcesRead(q, st, n) /\ projections = ProjectionsRead(q, st, n, m)
        /\ filters = FiltersRead(q, st, n, m, g) /\ groupBy = GroupsRead(q, st, n, m, g)
        /\ orderBy = OrdersRead(q, st, n, m, g, o)
    <2>1. /\ SourcesRead(schema, statement, n) = SourcesRead(q, st, n)
          /\ ProjectionsRead(schema, statement, n, m) = ProjectionsRead(q, st, n, m)
          /\ FiltersRead(schema, statement, n, m, g) = FiltersRead(q, st, n, m, g)
          /\ GroupsRead(schema, statement, n, m, g) = GroupsRead(q, st, n, m, g)
      BY <1>3, <1>4, <1>5, BeforeOrders DEF st, q
    <2>2. OrdersRead(schema, statement, n, m, g, o) = OrdersRead(q, st, n, m, g, o)
      BY <1>3, <1>4, <1>5, SameOrders DEF st, q
    <2> QED BY <1>3, <2>1, <2>2
  <1>8. lim = LimitRead(st[n + m + g + o + 6], o)
    <2>1. st[n + m + g + o + 6].tree = clause
      BY <1>4 DEF st
    <2>2. limit = [rows |-> 0, explicit |-> FALSE, ordered |-> o # 0]
      BY <1>3 DEF Unlimited
    <2>3. lim = [rows |-> LimitRows(clause), explicit |-> clause.given, ordered |-> o # 0]
      <3>1. [[rows |-> 0, explicit |-> FALSE, ordered |-> o # 0] EXCEPT
                !.rows = LimitRows(clause), !.explicit = clause.given]
                = [rows |-> LimitRows(clause), explicit |-> clause.given, ordered |-> o # 0]
        <4> DEFINE b == o # 0
        <4> HIDE DEF b
        <4>1. [[rows |-> 0, explicit |-> FALSE, ordered |-> b] EXCEPT
                  !.rows = LimitRows(clause), !.explicit = clause.given]
                  = [rows |-> LimitRows(clause), explicit |-> clause.given, ordered |-> b]
          BY ONLY LimitSet
        <4> QED BY Zenon, <4>1 DEF b
      <3> QED BY Zenon, <2>2, <3>1 DEF lim
    <2> QED BY Zenon, <2>1, <2>3 DEF LimitRead
  <1> HIDE DEF lim
  <1>9. plan' = FinishedPlan(sources, projections, resultSchema, filters, groupBy, orderBy, lim)
    <2> DEFINE order == StableOrder
               srcs == [i \in DOMAIN sources |->
                           [sources[i] EXCEPT !.fields = SourceFields(sources[i], order)]]
    <2>1. plan' = <<srcs, projections, resultSchema, filters, groupBy, order, lim>>
      BY <1>1 DEF plan
    <2> HIDE DEF order
    <2>2. srcs = FilledSources(sources,
                               Mentioned(sources, projections, filters, groupBy, order))
      BY FilledOf
    <2> HIDE DEF srcs
    <2>3. order = Stable(Ties(sources, projections, groupBy), orderBy)
      BY StableOrderOf DEF order
    <2> QED BY ONLY <2>1, <2>2, <2>3 DEF FinishedPlan
  <1>10. plan' = PlanRead(q, st, n, m, g, o, resultSchema')
    <2>1. resultSchema' = resultSchema
      BY <1>1
    <2> QED BY ONLY <1>7, <1>8, <1>9, <2>1 DEF PlanRead
  <1>11. ReadAll(n, m, g, o)'
    BY <1>3, <1>4, <1>6, <1>10 DEF ReadAll, st, q
  <1> QED BY <1>1, <1>11 DEF PhaseInv, Complete

\* Steps that read nothing.
LEMMA NothingRead ==
    ASSUME PhaseInv, UNCHANGED <<schema, plan, statement, position>>,
           \/ phase' = phase
           \/ phase' = "refused"
           \/ phase = "metadata" /\ phase' = "parse"
           \/ phase = "parse" /\ phase' = "from"
           \/ phase = "amplification" /\ phase' = "accepted"
    PROVE  PhaseInv'
  <1>1. /\ UNCHANGED <<sources, projections, resultSchema, filters, groupBy, orderBy, limit>>
        /\ UNCHANGED <<schema, statement, position>>
    BY DEF plan
  <1>2. /\ \A n : ReadFrom(n) => ReadFrom(n)'
        /\ \A n, m : ReadSelect(n, m) => ReadSelect(n, m)'
        /\ \A n, m : ReadWhere(n, m) => ReadWhere(n, m)'
        /\ \A n, m, g : ReadGroup(n, m, g) => ReadGroup(n, m, g)'
        /\ \A n, m, g : ReadHaving(n, m, g) => ReadHaving(n, m, g)'
        /\ \A n, m, g, o : ReadOrder(n, m, g, o) => ReadOrder(n, m, g, o)'
        /\ \A n, m, g, o : ReadAll(n, m, g, o) => ReadAll(n, m, g, o)'
    <2>1. /\ \A n : ReadFrom(n) => ReadFrom(n)'
          /\ \A n, m : ReadSelect(n, m) => ReadSelect(n, m)'
          /\ \A n, m : ReadWhere(n, m) => ReadWhere(n, m)'
      BY <1>1 DEF ReadFrom, ReadSelect, ReadWhere
    <2>2. \A n, m : FilteredOnce(n, m)' = FilteredOnce(n, m)
      BY <1>1 DEF FilteredOnce
    <2>3. /\ \A n, m, g : ReadGroup(n, m, g) => ReadGroup(n, m, g)'
          /\ \A n, m, g : ReadHaving(n, m, g) => ReadHaving(n, m, g)'
      BY <1>1, <2>2 DEF ReadGroup, ReadHaving
    <2>4. \A n, m, g, o : ReadOrder(n, m, g, o) => ReadOrder(n, m, g, o)'
      BY <1>1 DEF ReadOrder
    <2>5. \A n, m, g, o : ReadAll(n, m, g, o) => ReadAll(n, m, g, o)'
      BY <1>1 DEF ReadAll
    <2> QED BY <2>1, <2>3, <2>4, <2>5
  <1>3. CASE phase' = phase
    BY <1>2, <1>3 DEF PhaseInv, Complete
  <1>4. CASE phase' = "refused"
    BY <1>4 DEF PhaseInv, Complete
  <1>5. CASE phase = "metadata" /\ phase' = "parse"
    BY <1>2, <1>5 DEF PhaseInv, Complete
  <1>6. CASE phase = "parse" /\ phase' = "from"
    BY <1>2, <1>6 DEF PhaseInv, Complete
  <1>7. CASE phase = "amplification" /\ phase' = "accepted"
    BY <1>2, <1>7 DEF PhaseInv, Complete
  <1> QED BY <1>3, <1>4, <1>5, <1>6, <1>7

-----------------------------------------------------------------------------
(***************************************************************************)
(* A result completed from its expression is complete: it is declared and   *)
(* completed again without a change.                                        *)
(***************************************************************************)
Settled(r, x) ==
    /\ DOMAIN r = ResultFields
    /\ TypedResult(r, x) = r
    /\ r.type # "null" => ValidResult(r, x)

Completes(t, r, x) ==
    /\ DOMAIN t = ResultFields /\ t = [f \in DOMAIN t |-> t[f]]
    /\ t.type = IF r.type = "" THEN x.type ELSE r.type
    /\ t.kind = IF r.kind # "" THEN r.kind
                ELSE IF x.measures = {} THEN "dimension" ELSE "measure"
    /\ (t.type \in {"decimal", "currency"} /\ x.prec > 0) =>
           t.prec # 0 /\ (t.scale = 0 => x.scale = 0)
    /\ r.type # "" => t.scale \in {r.scale, x.scale}
    /\ r.type = "" => t.scale = x.scale

LEMMA TypedCompletes ==
    ASSUME NEW r, DOMAIN r = ResultFields, NEW x, x.prec \in Nat,
           NEW t, t = TypedResult(r, x)
    PROVE  Completes(t, r, x)
  <1> DEFINE typed == IF r.type = "" THEN TypedLike(r, x) ELSE r
             fills == typed.type \in {"decimal", "currency"} /\ x.prec > 0
             kind == IF typed.kind = "" THEN IF x.measures = {} THEN "dimension" ELSE "measure"
                     ELSE typed.kind
             prec == IF fills /\ typed.prec = 0 THEN x.prec ELSE typed.prec
             scale == IF fills /\ typed.scale = 0 THEN x.scale ELSE typed.scale
  <1>1. t = [typed EXCEPT !.kind = kind, !.prec = prec, !.scale = scale]
    BY DEF TypedResult
  <1>2. /\ DOMAIN typed = ResultFields /\ typed.kind = r.kind
        /\ typed.type = IF r.type = "" THEN x.type ELSE r.type
        /\ typed.scale = IF r.type = "" THEN x.scale ELSE r.scale
    BY DEF TypedLike, TypedAs, ResultFields
  <1> HIDE DEF typed
  <1>3. \A k, p, c : LET u == [typed EXCEPT !.kind = k, !.prec = p, !.scale = c]
                     IN  /\ DOMAIN u = ResultFields
                         /\ u.type = typed.type /\ u.kind = k /\ u.prec = p /\ u.scale = c
    BY <1>2 DEF ResultFields
  <1>4. /\ DOMAIN t = ResultFields /\ t = [f \in DOMAIN t |-> t[f]]
        /\ t.type = typed.type /\ t.kind = kind /\ t.prec = prec /\ t.scale = scale
    <2> HIDE DEF kind, prec, scale
    <2> DEFINE u == [typed EXCEPT !.kind = kind, !.prec = prec, !.scale = scale]
    <2>1. /\ DOMAIN u = ResultFields /\ u.type = typed.type
          /\ u.kind = kind /\ u.prec = prec /\ u.scale = scale
      BY <1>3
    <2>2. u = [f \in DOMAIN u |-> u[f]]
      OBVIOUS
    <2> HIDE DEF u
    <2>3. t = u
      BY <1>1 DEF u
    <2> QED BY ONLY <2>1, <2>2, <2>3
  <1>5. t.kind = IF r.kind # "" THEN r.kind
                 ELSE IF x.measures = {} THEN "dimension" ELSE "measure"
    BY <1>2, <1>4
  <1>6. ASSUME fills PROVE prec # 0 /\ (scale = 0 => x.scale = 0)
    BY <1>6
  <1>7. scale \in {typed.scale, x.scale}
    OBVIOUS
  <1> HIDE DEF kind, prec, scale
  <1> QED BY <1>2, <1>4, <1>5, <1>6, <1>7 DEF Completes

LEMMA Completed ==
    ASSUME NEW r, DOMAIN r = ResultFields, r = [f \in DOMAIN r |-> r[f]], NEW x,
           r.type # "", r.kind # "",
           (r.type \in {"decimal", "currency"} /\ x.prec > 0) =>
               r.prec # 0 /\ (r.scale = 0 => x.scale = 0)
    PROVE  TypedResult(r, x) = r
  <1> DEFINE fills == r.type \in {"decimal", "currency"} /\ x.prec > 0
             kind == IF r.kind = "" THEN IF x.measures = {} THEN "dimension" ELSE "measure"
                     ELSE r.kind
             prec == IF fills /\ r.prec = 0 THEN x.prec ELSE r.prec
             scale == IF fills /\ r.scale = 0 THEN x.scale ELSE r.scale
  <1>1. TypedResult(r, x) = [r EXCEPT !.kind = kind, !.prec = prec, !.scale = scale]
    BY DEF TypedResult
  <1>2. kind = r.kind /\ prec = r.prec /\ scale = r.scale
    OBVIOUS
  <1> HIDE DEF kind, prec, scale
  <1>3. [r EXCEPT !.kind = r.kind, !.prec = r.prec, !.scale = r.scale] = r
    OBVIOUS
  <1> QED BY <1>1, <1>2, <1>3

LEMMA TypedSettles ==
    ASSUME NEW r, DOMAIN r = ResultFields, NEW x, HasUnit(x), ValidResult(r, x)
    PROVE  Settled(TypedResult(r, x), x)
  <1> DEFINE t == TypedResult(r, x)
  <1> HIDE DEF t
  <1>1. Completes(t, r, x)
    <2>1. x.prec \in Nat
      BY PrecisionsAreNat DEF HasUnit
    <2>2. t = TypedResult(r, x)
      BY DEF t
    <2> QED BY <2>1, <2>2, TypedCompletes
  <1>2. /\ r.type \in ResultTypes \cup {""} /\ r.kind \in {"dimension", "measure", ""}
        /\ r.type # "" => ResultCompatible(r, x)
        /\ x.type \in PlanTypes /\ x.prec \in Nat
    BY PrecisionsAreNat DEF ValidResult, HasUnit
  <1>3. t.type # "" /\ t.kind # ""
    BY <1>1, <1>2 DEF PlanTypes, Completes
  <1>4. t.kind \in {"dimension", "measure"}
    BY <1>1, <1>2 DEF Completes
  <1>5. TypedResult(t, x) = t
    BY <1>1, <1>2, <1>3, Completed DEF Completes
  <1>6. ASSUME t.type # "null" PROVE t.type \in ResultTypes
    BY <1>1, <1>2, <1>6 DEF Completes, PlanTypes, ResultTypes, ValueTypes
  <1>7. ResultCompatible(t, x)
    <2>1. CASE r.type = ""
      BY <1>1, <2>1 DEF Completes, ResultCompatible
    <2>2. CASE r.type # ""
      BY <1>1, <1>2, <2>2 DEF Completes, ResultCompatible
    <2> QED BY <2>1, <2>2
  <1> QED BY <1>1, <1>4, <1>5, <1>6, <1>7 DEF Completes, Settled, ValidResult, t

-----------------------------------------------------------------------------
(***************************************************************************)
(* A compilation, whoever writes what it reads.                             *)
(***************************************************************************)
LEMMA PhaseStep ==
    ASSUME PositionInv, PhaseInv, phase = "from" => ValidDeclarations, Compile
    PROVE  PositionInv' /\ PhaseInv'
  <1>0. UNCHANGED published
    BY DEF Compile
  <1>1. CASE CompileUnread
    <2>1. UNCHANGED <<schema, plan, statement, position>>
      BY Zenon, <1>1 DEF CompileUnread, CompileMetadata, Parse, ValidateAmplification, Refuse
    <2>2. \/ phase' = "refused"
          \/ phase = "metadata" /\ phase' = "parse"
          \/ phase = "parse" /\ phase' = "from"
          \/ phase = "amplification" /\ phase' = "accepted"
      <3>1. CASE CompileMetadata
        BY <3>1 DEF CompileMetadata, Refuse
      <3>2. CASE ValidateAmplification
        BY <3>2 DEF ValidateAmplification
      <3>3. CASE Parse
        BY <3>3 DEF Parse, Refuse
      <3> QED BY <1>1, <3>1, <3>2, <3>3 DEF CompileUnread
    <2>3. PositionInv'
      BY <1>0, <2>1 DEF PositionInv
    <2> QED BY <2>1, <2>2, <2>3, NothingRead
  <1>2. CASE ReadClause
    <2>1. \E c : Reads(c)
      BY Zenon, <1>2 DEF ReadClause
    <2>2. PositionInv'
      BY <1>0, <2>1, ReadsOn
    <2>3. CASE phase' = "refused"
      BY <2>2, <2>3 DEF PhaseInv, Complete
    <2>4. CASE phase' # "refused"
      <3>1. ASSUME NEW object \in Objects, NEW alias \in Aliases,
                   CompileRoot(object, alias), Reads(Table(object, alias, "", <<>>))
            PROVE  PhaseInv'
        <4> DEFINE c == Table(object, alias, "", <<>>)
        <4>1. c.clause = "table" /\ c.object = object /\ c.alias = alias /\ c.join = ""
          BY DEF Table
        <4> QED BY <1>0, <2>4, <3>1, <4>1, RootRead
      <3>2. ASSUME NEW object \in Objects, NEW alias \in Aliases,
                   NEW join \in {"inner", "left", "cross"}, NEW tree \in OnTrees,
                   CompileJoin(object, alias, join, tree), Reads(Table(object, alias, join, tree))
            PROVE  PhaseInv'
        <4>1. phase = "from"
          BY <3>2 DEF CompileJoin
        <4> QED BY <1>0, <2>4, <3>2, <4>1, JoinRead
      <3>3. ASSUME NEW alias \in ResultAliases, NEW tree \in SelectTrees,
                   CompileProjection(alias, tree), Reads(Expression("select", alias, tree))
            PROVE  PhaseInv'
        <4> DEFINE c == Expression("select", alias, tree)
        <4>1. c.clause = "select" /\ c.alias = alias /\ c.tree = tree
          BY DEF Expression
        <4> HIDE DEF c
        <4>2. Reads(c)
          BY <3>3 DEF c
        <4> QED BY <1>0, <2>4, <3>3, <4>1, <4>2, ProjectionRecorded
      <3>4. ASSUME NEW clause \in {"where", "having"},
                   NEW c, Reads(c),
                   \/ SkipFilter(clause) /\ c = End
                   \/ \E tree \in FilterTrees :
                         CompileFilter(clause, tree) /\ c = Expression(clause, "", tree)
            PROVE  PhaseInv'
        <4>1. /\ phase = clause /\ phase' = After(clause) /\ Filters(clause, c)
              /\ UNCHANGED <<schema, sources, projections, groupBy, orderBy, limit>>
          BY <2>4, <3>4, FilterSteps
        <4>2. CASE clause = "where"
          BY <1>0, <3>4, <4>1, <4>2, WhereRead DEF After
        <4>3. CASE clause = "having"
          BY <1>0, <3>4, <4>1, <4>3, HavingRead DEF After
        <4> QED BY <4>2, <4>3
      <3>5. ASSUME NEW tree \in GroupTrees,
                   CompileGroupTerm(tree), Reads(Expression("group", "", tree))
            PROVE  PhaseInv'
        <4> DEFINE c == Expression("group", "", tree)
        <4>1. c.clause = "group" /\ c.tree = tree
          BY DEF Expression
        <4> HIDE DEF c
        <4>2. Reads(c)
          BY <3>5 DEF c
        <4> QED BY <1>0, <2>4, <3>5, <4>1, <4>2, GroupRead
      <3>6. ASSUME NEW tree \in OrderTrees,
                   CompileOrderByTerm(tree), Reads(Expression("order", "", tree))
            PROVE  PhaseInv'
        <4> DEFINE c == Expression("order", "", tree)
        <4>1. c.clause = "order" /\ c.tree = tree
          BY DEF Expression
        <4> HIDE DEF c
        <4>2. Reads(c)
          BY <3>6 DEF c
        <4> QED BY <1>0, <2>4, <3>6, <4>1, <4>2, OrderRead
      <3>7. ASSUME NEW clause \in Limits, FinishSelect(clause), Reads(LimitClause(clause))
            PROVE  PhaseInv'
        <4> DEFINE c == LimitClause(clause)
        <4>1. c.clause = "limit" /\ c.tree = clause
          BY DEF LimitClause, Expression
        <4> HIDE DEF c
        <4>2. Reads(c)
          BY <3>7 DEF c
        <4> QED BY <1>0, <2>4, <3>7, <4>1, <4>2, StatementRead
      <3>8. ASSUME FinishSources \/ FinishProjections \/ FinishGroupBy, Reads(End)
            PROVE  PhaseInv'
        <4> DEFINE c == End
        <4>1. c.clause = "end"
          BY DEF End, Expression
        <4> HIDE DEF c
        <4>2. Reads(c)
          BY <3>8 DEF c
        <4> QED BY <1>0, <2>4, <3>8, <4>1, <4>2, FromEnds, SelectEnds, GroupEnds
      <3>9. ASSUME NEW clause \in {"where", "having"}, NEW tree \in FilterTrees,
                   CompileFilter(clause, tree), Reads(Expression(clause, "", tree))
            PROVE  PhaseInv'
        <4> DEFINE c == Expression(clause, "", tree)
        <4>1. \E t \in FilterTrees : CompileFilter(clause, t) /\ c = Expression(clause, "", t)
          BY <3>9
        <4> HIDE DEF c
        <4>2. Reads(c)
          BY <3>9 DEF c
        <4> QED BY <3>4, <4>1, <4>2
      <3>10. ASSUME NEW clause \in {"where", "having"}, SkipFilter(clause), Reads(End)
             PROVE  PhaseInv'
        BY <3>4, <3>10
      <3>11. PhaseInv'
        BY Zenon, <1>2, <3>1, <3>2, <3>3, <3>5, <3>6, <3>7, <3>8, <3>9, <3>10 DEF ReadClause
      <3> QED BY <2>2, <3>11
    <2> QED BY <2>2, <2>3, <2>4
  <1> QED BY <1>1, <1>2 DEF Compile

-----------------------------------------------------------------------------
(***************************************************************************)
(* The clauses tell where each part of a statement ends, so that it is read *)
(* in one way only.                                                         *)
(***************************************************************************)
LEMMA RunEnds ==
    ASSUME NEW st, NEW from \in Nat, NEW x \in Nat, NEW y \in Nat, NEW kind,
           \A i \in 1..x : st[from + i].clause = kind, st[from + (y + 1)].clause # kind
    PROVE  x <= y
  <1> SUFFICES ASSUME y < x PROVE FALSE
    OBVIOUS
  <1>1. y + 1 \in 1..x
    OBVIOUS
  <1> QED BY <1>1

LEMMA FromAligned ==
    ASSUME NEW q, NEW st, NEW N, FromFits(q, st, N), NEW n \in Nat, TablesFit(q, st, n)
    PROVE  n <= N /\ (st[n + 1].clause = "end" => n = N)
  <1>1. /\ N \in Nat /\ \A i \in 1..N : st[i].clause = "table"
        /\ \A i \in 1..n : st[i].clause = "table"
        /\ st[N + 1].clause = "end"
    BY DEF FromFits, TablesFit, TableFits
  <1>2. n <= N
    <2> SUFFICES ASSUME N < n PROVE FALSE
      BY <1>1
    <2>1. N + 1 \in 1..n
      BY <1>1
    <2> QED BY <1>1, <2>1
  <1>3. ASSUME st[n + 1].clause = "end" PROVE n = N
    <2> SUFFICES ASSUME n < N PROVE FALSE
      BY <1>1, <1>2
    <2>1. n + 1 \in 1..N
      BY <1>1
    <2> QED BY <1>1, <1>3, <2>1
  <1> QED BY <1>2, <1>3

LEMMA SelectAligned ==
    ASSUME NEW q, NEW st, NEW N, NEW M, SelectFits(q, st, N, M),
           NEW n, FromFits(q, st, n), NEW m \in Nat, ProjectionsFit(q, st, n, m)
    PROVE  n = N /\ m <= M /\ (st[n + m + 2].clause = "end" => m = M)
  <1>1. n \in Nat /\ N \in Nat /\ M \in Nat /\ n = N
    BY FromAligned DEF SelectFits, FromFits
  <1>2. /\ \A i \in 1..M : st[N + 1 + i].clause = "select"
        /\ \A i \in 1..m : st[N + 1 + i].clause = "select"
        /\ st[N + M + 2].clause = "end"
    BY <1>1 DEF SelectFits, ProjectionsFit, ProjectionFits
  <1> DEFINE b == N + 1
  <1>5. /\ b \in Nat /\ b + (M + 1) = N + M + 2 /\ b + (m + 1) = n + m + 2
        /\ \A i \in 1..M : st[b + i].clause = "select"
        /\ \A i \in 1..m : st[b + i].clause = "select"
    BY <1>1, <1>2
  <1> HIDE DEF b
  <1>3. m <= M
    <2>1. st[b + (M + 1)].clause # "select"
      BY <1>2, <1>5
    <2> QED BY <1>1, <1>5, <2>1, RunEnds
  <1>4. ASSUME st[n + m + 2].clause = "end" PROVE M <= m
    <2>1. st[b + (m + 1)].clause # "select"
      BY <1>4, <1>5
    <2> QED BY <1>1, <1>5, <2>1, RunEnds
  <1> QED BY <1>1, <1>3, <1>4

LEMMA GroupAligned ==
    ASSUME NEW q, NEW st, NEW N, NEW M, NEW G, GroupFits(q, st, N, M, G),
           NEW n, NEW m, WhereFits(q, st, n, m), NEW g \in Nat, GroupsFit(q, st, n, m, g)
    PROVE  n = N /\ m = M /\ g <= G /\ (st[n + m + g + 4].clause = "end" => g = G)
  <1>1. n \in Nat /\ N \in Nat /\ m \in Nat /\ M \in Nat /\ G \in Nat /\ n = N /\ m = M
    BY SelectAligned DEF GroupFits, WhereFits, SelectFits, FromFits
  <1>2. /\ \A i \in 1..G : st[N + M + 3 + i].clause = "group"
        /\ \A i \in 1..g : st[N + M + 3 + i].clause = "group"
        /\ st[N + M + G + 4].clause = "end"
    BY <1>1 DEF GroupFits, GroupsFit
  <1> DEFINE b == N + M + 3
  <1>5. /\ b \in Nat /\ b + (G + 1) = N + M + G + 4 /\ b + (g + 1) = n + m + g + 4
        /\ \A i \in 1..G : st[b + i].clause = "group"
        /\ \A i \in 1..g : st[b + i].clause = "group"
    BY <1>1, <1>2
  <1> HIDE DEF b
  <1>3. g <= G
    <2>1. st[b + (G + 1)].clause # "group"
      BY <1>2, <1>5
    <2> QED BY <1>1, <1>5, <2>1, RunEnds
  <1>4. ASSUME st[n + m + g + 4].clause = "end" PROVE G <= g
    <2>1. st[b + (g + 1)].clause # "group"
      BY <1>4, <1>5
    <2> QED BY <1>1, <1>5, <2>1, RunEnds
  <1> QED BY <1>1, <1>3, <1>4

LEMMA OrderAligned ==
    ASSUME NEW q, NEW st, NEW N, NEW M, NEW G, NEW O, StatementFits(q, st, N, M, G, O),
           NEW n, NEW m, NEW g, HavingFits(q, st, n, m, g),
           NEW o \in Nat, OrdersFit(q, st, n, m, g, o)
    PROVE  /\ n = N /\ m = M /\ g = G /\ o <= O
           /\ st[n + m + g + o + 6].clause = "limit" => o = O
  <1>1. /\ n \in Nat /\ N \in Nat /\ m \in Nat /\ M \in Nat /\ g \in Nat /\ G \in Nat /\ O \in Nat
        /\ n = N /\ m = M /\ g = G
    BY GroupAligned DEF StatementFits, HavingFits, GroupFits, WhereFits, SelectFits, FromFits
  <1>2. /\ \A i \in 1..O : st[N + M + G + 5 + i].clause = "order"
        /\ \A i \in 1..o : st[N + M + G + 5 + i].clause = "order"
        /\ st[N + M + G + O + 6].clause = "limit"
    BY <1>1 DEF StatementFits, OrdersFit, LimitFits
  <1> DEFINE b == N + M + G + 5
  <1>5. /\ b \in Nat /\ b + (O + 1) = N + M + G + O + 6 /\ b + (o + 1) = n + m + g + o + 6
        /\ \A i \in 1..O : st[b + i].clause = "order"
        /\ \A i \in 1..o : st[b + i].clause = "order"
    BY <1>1, <1>2
  <1> HIDE DEF b
  <1>3. o <= O
    <2>1. st[b + (O + 1)].clause # "order"
      BY <1>2, <1>5
    <2> QED BY <1>1, <1>5, <2>1, RunEnds
  <1>4. ASSUME st[n + m + g + o + 6].clause = "limit" PROVE O <= o
    <2>1. st[b + (o + 1)].clause # "order"
      BY <1>4, <1>5
    <2> QED BY <1>1, <1>5, <2>1, RunEnds
  <1> QED BY <1>1, <1>3, <1>4

-----------------------------------------------------------------------------
(***************************************************************************)
(* While a report is authored: the results published are settled, and the   *)
(* accepted plan amplifies no measure.                                      *)
(***************************************************************************)
ResultsSettled == \A i \in DOMAIN projections : Settled(resultSchema[i], projections[i].x)

Unamplified(srcs, ps) == \A p \in Elements(ps) : \A m \in p.x.measures : ~Amplified(srcs, m)

AuthoringInv ==
    /\ CompilerInv
    /\ ResultsSettled
    /\ phase = "accepted" => Unamplified(sources, projections)

LEMMA CompileIsNext == Compile => Next
  <1>1. ReadClause => Next
    BY Zenon DEF ReadClause, Next
  <1>2. CompileUnread => Next
    BY Zenon DEF CompileUnread, Next
  <1> QED BY <1>1, <1>2 DEF Compile

\* What one step does to the results.
LEMMA ResultsChange ==
    ASSUME Next
    PROVE  /\ UNCHANGED schema
           /\ \/ UNCHANGED <<projections, resultSchema>>
              \/ \E alias : \E tree \in SelectTrees :
                    CompileProjection(alias, tree) /\ phase' # "refused"
           /\ phase' = "accepted" => ValidateAmplification
  <1> USE DEF Refuse, plan
  <1>1. ASSUME NEW alias, NEW tree \in SelectTrees, CompileProjection(alias, tree)
        PROVE  /\ UNCHANGED schema /\ phase' # "accepted"
               /\ phase' = "refused" => UNCHANGED <<projections, resultSchema>>
    BY Zenon, <1>1 DEF CompileProjection
  <1>2. ASSUME NEW clause \in {"where", "having"}, NEW tree, CompileFilter(clause, tree)
        PROVE  UNCHANGED <<schema, projections, resultSchema>> /\ phase' # "accepted"
    <2>1. After(clause) # "accepted"
      BY DEF After
    <2> QED BY Zenon, <1>2, <2>1 DEF CompileFilter
  <1>3. ASSUME NEW object, NEW alias, NEW join, NEW tree, CompileJoin(object, alias, join, tree)
        PROVE  UNCHANGED <<schema, projections, resultSchema>> /\ phase' # "accepted"
    BY Zenon, <1>3 DEF CompileJoin
  <1>4. ASSUME NEW object, NEW alias, CompileRoot(object, alias)
        PROVE  UNCHANGED <<schema, projections, resultSchema>> /\ phase' # "accepted"
    BY Zenon, <1>4 DEF CompileRoot
  <1>5. ASSUME NEW tree, CompileGroupTerm(tree) \/ CompileOrderByTerm(tree)
        PROVE  UNCHANGED <<schema, projections, resultSchema>> /\ phase' # "accepted"
    BY Zenon, <1>5 DEF CompileGroupTerm, CompileOrderByTerm
  <1>6. ASSUME NEW clause, FinishSelect(clause)
        PROVE  UNCHANGED <<schema, projections, resultSchema>> /\ phase' # "accepted"
    BY Zenon, <1>6 DEF FinishSelect
  <1>7. ASSUME NEW clause \in {"where", "having"}, SkipFilter(clause)
        PROVE  UNCHANGED <<schema, projections, resultSchema>> /\ phase' # "accepted"
    BY <1>7 DEF SkipFilter, After
  <1>8. CASE \/ CompileMetadata \/ Parse \/ FinishSources \/ FinishProjections \/ FinishGroupBy
        BY <1>8 DEF CompileMetadata, Parse, FinishSources, FinishProjections, FinishGroupBy
  <1>9. CASE ValidateAmplification
        BY <1>9 DEF ValidateAmplification
  <1> HIDE DEF Refuse, plan
  <1> QED BY <1>1, <1>2, <1>3, <1>4, <1>5, <1>6, <1>7, <1>8, <1>9 DEF Next

LEMMA AuthoringStep == ASSUME AuthoringInv, Compile PROVE AuthoringInv'
  <1>1. Next
    BY CompileIsNext
  <1>2. CompilerInv /\ CompilerInv'
    BY <1>1, CompilerStep DEF AuthoringInv
  <1>3. ResultsSettled'
    <2>1. CASE UNCHANGED <<projections, resultSchema>>
      BY <2>1 DEF AuthoringInv, ResultsSettled
    <2>2. ASSUME NEW alias, NEW tree \in SelectTrees,
                 CompileProjection(alias, tree), phase' # "refused"
          PROVE  ResultsSettled'
      <3>1. DeclarationInv /\ BindingInv /\ schema \in Schemas
            /\ IsSequence(projections) /\ IsSequence(resultSchema)
            /\ Len(projections) = Len(resultSchema)
        BY <1>2 DEF CompilerInv, DeclarationInv, ResultsInv
      <3>2. PICK x : /\ HasUnit(x)
                     /\ projections' = Append(projections,
                                              [alias |-> alias, x |-> x, tree |-> tree])
                     /\ resultSchema' = Append(resultSchema,
                                               TypedResult(AuthoredResult(alias), x))
                     /\ ValidResult(AuthoredResult(alias), x)
        BY <2>2, <3>1, Projected
      <3> DEFINE p == [alias |-> alias, x |-> x, tree |-> tree]
                 r == TypedResult(AuthoredResult(alias), x)
                 n == Len(projections)
      <3>3. Settled(r, p.x)
        BY <3>1, <3>2, AuthoredFields, TypedSettles
      <3> HIDE DEF p, r
      <3>4. projections' = Append(projections, p) /\ resultSchema' = Append(resultSchema, r)
        BY <3>2 DEF p, r
      <3>5. /\ n \in Nat /\ DOMAIN projections = 1..n
            /\ DOMAIN projections' = 1..(n + 1)
            /\ \A i \in 1..n : projections'[i] = projections[i]
            /\ projections'[n + 1] = p
        BY ONLY <3>1, <3>4, Extended
      <3>6. /\ \A i \in 1..n : resultSchema'[i] = resultSchema[i]
            /\ resultSchema'[n + 1] = r
        BY ONLY <3>1, <3>4, Extended
      <3>7. \A i \in 1..(n + 1) : i \in 1..n \/ i = n + 1
        BY ONLY <3>5
      <3> HIDE DEF n
      <3> QED BY <3>3, <3>5, <3>6, <3>7 DEF AuthoringInv, ResultsSettled
    <2> QED BY <1>1, <2>1, <2>2, ResultsChange
  <1>4. phase' = "accepted" => Unamplified(sources, projections)'
    <2> SUFFICES ASSUME phase' = "accepted" PROVE Unamplified(sources, projections)'
      OBVIOUS
    <2>1. ValidateAmplification
      BY <1>1, ResultsChange
    <2>2. Unamplified(sources, projections) /\ UNCHANGED <<sources, projections>>
      BY <2>1 DEF ValidateAmplification, Unamplified, plan
    <2> QED BY <2>2 DEF Unamplified
  <1> QED BY <1>2, <1>3, <1>4 DEF AuthoringInv

-----------------------------------------------------------------------------
(***************************************************************************)
(* What a published definition keeps of its authoring: the statement it was *)
(* published with is read as it was, the declarations are what was read,    *)
(* and they stay as they are until the report is run.                       *)
(***************************************************************************)
SelectedTree(st, n, i) == st[n + 1 + i].tree

ResultsReadAs(results, q, st, n, m) ==
    /\ IsSequence(results) /\ Len(results) = m
    /\ \A i \in 1..m :
           /\ results[i].key = st[n + 1 + i].alias
           /\ Settled(results[i], Reading(q, st, n, SelectedTree(st, n, i)))

ResultsOf(n, m) == ResultsReadAs(schema.results, schema, statement, n, m)

SchemaFields == {"sourceObjects", "parameters", "results", "assertions", "timeZone", "timeout"}

Original(N, M, G, O) ==
    /\ DOMAIN schema = SchemaFields /\ schema = [f \in DOMAIN schema |-> schema[f]]
    /\ ValidDeclarations
    /\ StatementFits(schema, statement, N, M, G, O)
    /\ Len(statement) = N + M + G + O + 6
    /\ schema.assertions = <<>>
    /\ schema.sourceObjects = EachOnce(ObjectsOf(SourcesRead(schema, statement, N)))
    /\ ResultsOf(N, M)
    /\ published = <<PlanRead(schema, statement, N, M, G, O, schema.results)>>
    /\ Unamplified(published[1][1], published[1][2])

Replaying(N, M, G, O) ==
    /\ published # <<>>
    /\ PositionInv /\ PhaseInv
    /\ Original(N, M, G, O)

LEMMA Sizes ==
    ASSUME NEW N, NEW M, NEW G, NEW O, NEW q, NEW st, StatementFits(q, st, N, M, G, O)
    PROVE  /\ N \in Nat \ {0} /\ N - 1 <= MaximumJoins
           /\ M \in Nat \ {0} /\ M <= MaximumColumns
           /\ G \in Nat /\ O \in Nat
           /\ FromFits(q, st, N) /\ SelectFits(q, st, N, M) /\ WhereFits(q, st, N, M)
           /\ GroupFits(q, st, N, M, G) /\ HavingFits(q, st, N, M, G)
           /\ TablesFit(q, st, N) /\ ProjectionsFit(q, st, N, M)
           /\ GroupsFit(q, st, N, M, G) /\ OrdersFit(q, st, N, M, G, O)
  <1>1. HavingFits(q, st, N, M, G) /\ O \in Nat /\ OrdersFit(q, st, N, M, G, O)
    BY DEF StatementFits
  <1>2. GroupFits(q, st, N, M, G)
    BY <1>1 DEF HavingFits
  <1>3. WhereFits(q, st, N, M) /\ G \in Nat /\ GroupsFit(q, st, N, M, G)
    BY <1>2 DEF GroupFits
  <1>4. SelectFits(q, st, N, M)
    BY <1>3 DEF WhereFits
  <1>5. /\ FromFits(q, st, N) /\ M \in Nat \ {0} /\ M <= MaximumColumns
        /\ ProjectionsFit(q, st, N, M)
    BY <1>4 DEF SelectFits
  <1>6. N \in Nat \ {0} /\ N - 1 <= MaximumJoins /\ TablesFit(q, st, N)
    BY <1>5 DEF FromFits
  <1> QED BY <1>1, <1>2, <1>3, <1>4, <1>5, <1>6

LEMMA ObjectsRead ==
    ASSUME NEW q, NEW st, NEW n \in Nat
    PROVE  /\ IsSequence(EachOnce(ObjectsOf(SourcesRead(q, st, n))))
           /\ Distinct(EachOnce(ObjectsOf(SourcesRead(q, st, n))))
           /\ Elements(EachOnce(ObjectsOf(SourcesRead(q, st, n)))) = {st[i].object : i \in 1..n}
  <1> DEFINE list == ObjectsOf(SourcesRead(q, st, n))
  <1>1. list = [i \in 1..n |-> st[i].object]
    <2>1. DOMAIN SourcesRead(q, st, n) = 1..n
      BY DEF SourcesRead
    <2>2. \A i \in 1..n : SourcesRead(q, st, n)[i].object = st[i].object
      BY DEF SourcesRead, SourceRead, Source
    <2> QED BY <2>1, <2>2 DEF ObjectsOf
  <1> HIDE DEF list
  <1>2. list = [i \in 1..n |-> list[i]] /\ \A i \in 1..n : list[i] = st[i].object
    BY <1>1
  <1>3. DOMAIN list = 1..n /\ Len(list) = n
    BY <1>2, CountIs
  <1>4. /\ IsSequence(EachOnce(list)) /\ Distinct(EachOnce(list))
        /\ Elements(EachOnce(list)) = Elements(list)
    BY <1>3, EachOnceIs
  <1>5. Elements(list) = {st[i].object : i \in 1..n}
    BY <1>2, <1>3 DEF Elements
  <1> QED BY <1>4, <1>5 DEF list

LEMMA PublishedObjects ==
    ASSUME NEW N, NEW M, NEW G, NEW O, Original(N, M, G, O)
    PROVE  DeclaredObjects = {statement[i].object : i \in 1..N}
  BY Sizes, ObjectsRead DEF Original, DeclaredObjects

LEMMA Rereads ==
    ASSUME published # <<>>, PositionInv, NEW c, Reads(c)
    PROVE  /\ position \in Nat /\ position + 1 <= Len(statement)
           /\ statement[position + 1] = c /\ position' = position + 1
           /\ statement' = statement
           /\ \A k \in Nat : Agree(statement, statement', k)
  BY DEF Reads, PositionInv, Agree, IsSequence

Given(alias) == alias # ""

LEMMA TableHas ==
    ASSUME NEW q, NEW st, NEW i, TableFits(q, st, i)
    PROVE  /\ Given(st[i].alias) /\ st[i].object \in Objects
           /\ \A k \in 1..(i - 1) : st[k].alias # st[i].alias
  BY Zenon DEF TableFits, Given

LEMMA BindableIs ==
    ASSUME NEW object \in Objects, NEW alias, Given(alias), object \in DeclaredObjects,
           alias \notin SourceAliases(sources)
    PROVE  BindableTable(object, alias)
  BY Zenon DEF BindableTable, Given

LEMMA ReplayRoot ==
    ASSUME NEW N, NEW M, NEW G, NEW O, Replaying(N, M, G, O),
           NEW object, NEW alias, CompileRoot(object, alias),
           NEW c, c.object = object, c.alias = alias, Reads(c)
    PROVE  phase' # "refused"
  <1>1. /\ phase = "from" /\ sources = <<>>
        /\ BindableTable(object, alias) => phase' = phase
    BY Zenon DEF CompileRoot
  <1>2. PICK n : ReadFrom(n)
    BY <1>1 DEF Replaying, PhaseInv
  <1>3. n = 0 /\ position = n
    BY <1>1, <1>2, NoTable DEF ReadFrom
  <1>4. statement[0 + 1] = c
    BY <1>3, Rereads DEF Replaying
  <1>5. statement[1] = c
    BY <1>4
  <1>6. N \in Nat \ {0} /\ TablesFit(schema, statement, N)
    BY Sizes DEF Replaying, Original
  <1>7. 1 \in 1..N
    BY <1>6
  <1>8. TableFits(schema, statement, 1)
    BY <1>6, <1>7 DEF TablesFit
  <1>9. Given(alias) /\ object \in Objects
    BY <1>5, <1>8, TableHas
  <1>10. object \in DeclaredObjects
    BY <1>5, <1>7, PublishedObjects DEF Replaying
  <1>11. alias \notin SourceAliases(sources)
    BY <1>1 DEF SourceAliases
  <1>12. BindableTable(object, alias)
    BY <1>9, <1>10, <1>11, BindableIs
  <1> QED BY <1>1, <1>12

LEMMA SourcesNamed ==
    ASSUME NEW n, ReadFrom(n)
    PROVE  /\ n \in Nat /\ position = n
           /\ TablesFit(schema, statement, n) /\ sources = SourcesRead(schema, statement, n)
           /\ Len(sources) = n /\ DOMAIN sources = 1..n /\ IsSequence(sources)
           /\ \A i \in 1..n : /\ sources[i].alias = statement[i].alias
                              /\ sources[i].object = statement[i].object
           /\ SourceAliases(sources) = {statement[i].alias : i \in 1..n}
  <1>1. /\ n \in Nat /\ position = n
        /\ TablesFit(schema, statement, n) /\ sources = SourcesRead(schema, statement, n)
    BY DEF ReadFrom
  <1>2. /\ Len(sources) = n /\ DOMAIN sources = 1..n /\ IsSequence(sources)
        /\ \A i \in 1..n : /\ sources[i].alias = statement[i].alias
                           /\ sources[i].object = statement[i].object
    BY <1>1, TablesAre
  <1>3. SourceAliases(sources) = {statement[i].alias : i \in 1..n}
    BY <1>2 DEF SourceAliases
  <1> QED BY <1>1, <1>2, <1>3

Inferred(object, alias, join, tree) ==
    InferJoinCardinality(JoinedSources(object, alias, join), alias,
                         JoinOn(object, alias, join, tree).eqs)

JoinAccepted(object, alias, join, tree) ==
    /\ join \in {"inner", "left"} /\ BindableTable(object, alias)
    /\ Valid(JoinOn(object, alias, join, tree))
    /\ Given(Inferred(object, alias, join, tree))

\* Published, a join is refused only for what it is.
LEMMA JoinRefused ==
    ASSUME NEW object, NEW alias, NEW join, NEW tree, CompileJoin(object, alias, join, tree),
           schema.assertions = <<>>, JoinAccepted(object, alias, join, tree)
    PROVE  phase' = phase
  <1> DEFINE registered == Append(sources, Source(object, alias, join, "", Blank))
             on == Compiled(registered, tree)
             inferred == InferJoinCardinality(registered, alias, on.eqs)
  <1>1. AssertedCardinality(alias) \in {"", inferred}
    <2>1. Elements(schema.assertions) = {}
      BY DEF Elements
    <2>2. ~\E a \in Elements(schema.assertions) : a.alias = alias
      BY <2>1
    <2>3. AssertedCardinality(alias) = ""
      BY Zenon, <2>2 DEF AssertedCardinality
    <2> QED BY Zenon, <2>3
  <1>2. /\ join \in {"inner", "left"} /\ BindableTable(object, alias) /\ Valid(on)
        /\ inferred # ""
    BY Zenon DEF JoinAccepted, Inferred, JoinedSources, JoinOn, Joined, Given
  <1> QED BY Zenon, <1>1, <1>2 DEF CompileJoin

LEMMA JoinHas ==
    ASSUME NEW q, NEW st, NEW i, TableFits(q, st, i), i # 1
    PROVE  /\ st[i].join \in {"inner", "left"} /\ Valid(OnRead(q, st, i))
           /\ Given(CardinalityRead(q, st, i))
  BY Zenon DEF TableFits, Given

LEMMA ReplayJoin ==
    ASSUME NEW N, NEW M, NEW G, NEW O, Replaying(N, M, G, O),
           NEW object, NEW alias, NEW join, NEW tree \in OnTrees,
           CompileJoin(object, alias, join, tree), Reads(Table(object, alias, join, tree))
    PROVE  phase' # "refused"
  <1> DEFINE c == Table(object, alias, join, tree)
  <1>1. phase = "from" /\ Len(sources) \in 1..(MaxSources - 1)
    BY Zenon DEF CompileJoin
  <1>2. PICK n : ReadFrom(n)
    BY <1>1 DEF Replaying, PhaseInv
  <1>3. /\ position = n
        /\ TablesFit(schema, statement, n) /\ sources = SourcesRead(schema, statement, n)
        /\ SourceAliases(sources) = {statement[i].alias : i \in 1..n}
        /\ n \in Nat \ {0}
    <2>1. MaxSources \in Nat
      BY CompilerAssumption
    <2> QED BY <1>1, <1>2, <2>1, SourcesNamed
  <1>4. /\ c.clause = "table" /\ c.object = object /\ c.alias = alias /\ c.join = join
        /\ c.tree = tree
    BY DEF Table
  <1>5. statement[n + 1] = c /\ statement' = statement /\ Agree(statement, statement', n)
    BY <1>3, Rereads DEF Replaying
  <1> HIDE DEF c
  <1>6. N \in Nat \ {0} /\ FromFits(schema, statement, N) /\ TablesFit(schema, statement, N)
    BY Sizes DEF Replaying, Original
  <1>7. n + 1 \in 1..N
    <2>1. n <= N
      BY <1>3, <1>6, FromAligned
    <2>2. n # N
      BY <1>4, <1>5, <1>6 DEF FromFits
    <2> QED BY <1>3, <1>6, <2>1, <2>2
  <1>8. TableFits(schema, statement, n + 1) /\ n + 1 # 1 /\ (n + 1) - 1 = n
    BY <1>3, <1>6, <1>7 DEF TablesFit
  <1>9. /\ Given(alias) /\ object \in Objects
        /\ \A k \in 1..n : statement[k].alias # alias
    BY <1>4, <1>5, <1>8, TableHas
  <1>10. BindableTable(object, alias)
    <2>1. object \in DeclaredObjects
      BY <1>4, <1>5, <1>7, PublishedObjects DEF Replaying
    <2>2. alias \notin SourceAliases(sources)
      BY <1>3, <1>9
    <2> QED BY <1>9, <2>1, <2>2, BindableIs
  <1>11. /\ join \in {"inner", "left"} /\ Valid(OnRead(schema, statement, n + 1))
         /\ Given(CardinalityRead(schema, statement, n + 1))
    BY <1>4, <1>5, <1>8, JoinHas
  <1>12. /\ OnRead(schema, statement', n + 1) = JoinOn(object, alias, join, tree)
         /\ Valid(JoinOn(object, alias, join, tree)) =>
                CardinalityRead(schema, statement', n + 1)
                    = InferJoinCardinality(JoinedSources(object, alias, join), alias,
                                           JoinOn(object, alias, join, tree).eqs)
    <2>1. statement'[n + 1] = Table(object, alias, join, tree)
      BY <1>5 DEF c
    <2>2. ValidDeclarations
      BY DEF Replaying, Original
    <2> QED BY <1>3, <1>5, <1>10, <2>1, <2>2, JoinReading
  <1>13. JoinAccepted(object, alias, join, tree)
    BY <1>5, <1>10, <1>11, <1>12 DEF JoinAccepted, Inferred
  <1>14. schema.assertions = <<>>
    BY DEF Replaying, Original
  <1>15. phase' = phase
    BY <1>13, <1>14, JoinRefused
  <1> QED BY <1>1, <1>15

LEMMA ReplayFrom ==
    ASSUME NEW N, NEW M, NEW G, NEW O, Replaying(N, M, G, O),
           FinishSources, NEW c, c.clause = "end", Reads(c)
    PROVE  phase' # "refused"
  <1>1. phase = "from"
    BY DEF FinishSources
  <1>2. PICK n : ReadFrom(n)
    BY <1>1 DEF Replaying, PhaseInv
  <1>3. /\ n \in Nat /\ position = n /\ TablesFit(schema, statement, n)
        /\ Len(sources) = n /\ DOMAIN sources = 1..n
        /\ \A i \in 1..n : sources[i].object = statement[i].object
    BY <1>2, SourcesNamed
  <1>4. statement[n + 1] = c
    BY <1>3, Rereads DEF Replaying
  <1>5. N - 1 <= MaximumJoins /\ FromFits(schema, statement, N)
    BY Sizes DEF Replaying, Original
  <1>6. n = N
    BY <1>3, <1>4, <1>5, FromAligned
  <1>7. AssertionsNameJoins
    <2>1. Elements(schema.assertions) = {}
      BY DEF Elements, Replaying, Original
    <2> QED BY <2>1 DEF AssertionsNameJoins
  <1>8. {s.object : s \in Elements(sources)} = DeclaredObjects
    BY <1>3, <1>6, PublishedObjects DEF Replaying, Elements
  <1>9. Len(sources) - 1 <= MaximumJoins
    BY <1>3, <1>5, <1>6
  <1> QED BY <1>7, <1>8, <1>9 DEF FinishSources

-----------------------------------------------------------------------------
(***************************************************************************)
(* The results of a published definition are its projections.               *)
(***************************************************************************)
ResultsReplayed == resultSchema = [i \in DOMAIN projections |-> schema.results[i]]

LEMMA Selecting ==
    ASSUME NEW N, NEW M, NEW G, NEW O, Replaying(N, M, G, O), phase = "select", NEW c, Reads(c)
    PROVE  \E m : /\ m \in 0..M
                  /\ c.clause = "end" => m = M
                  /\ c.clause = "select" => m < M
                  /\ N \in Nat \ {0} /\ M \in Nat \ {0} /\ M <= MaximumColumns
                  /\ TablesFit(schema, statement, N) /\ sources = SourcesRead(schema, statement, N)
                  /\ projections = ProjectionsRead(schema, statement, N, m)
                  /\ DOMAIN projections = 1..m /\ Len(projections) = m
                  /\ \A i \in 1..m : projections[i].alias = statement[N + 1 + i].alias
                  /\ statement[N + 1 + (m + 1)] = c /\ position = N + 1 + m
  <1>1. PICK n, m : ReadSelect(n, m)
    BY DEF Replaying, PhaseInv
  <1>2. /\ n \in Nat /\ m \in Nat /\ position = n + 1 + m
        /\ FromFits(schema, statement, n) /\ ProjectionsFit(schema, statement, n, m)
        /\ sources = SourcesRead(schema, statement, n)
        /\ projections = ProjectionsRead(schema, statement, n, m)
    BY <1>1 DEF ReadSelect
  <1>3. /\ N \in Nat \ {0} /\ M \in Nat \ {0} /\ M <= MaximumColumns
        /\ TablesFit(schema, statement, N) /\ SelectFits(schema, statement, N, M)
    BY Sizes DEF Replaying, Original
  <1>4. n = N /\ m <= M /\ (statement[n + m + 2].clause = "end" => m = M)
    BY <1>2, <1>3, SelectAligned
  <1>5. statement[position + 1] = c
    BY Rereads DEF Replaying
  <1>6. position + 1 = n + m + 2 /\ position + 1 = N + 1 + (m + 1)
    BY <1>2, <1>4
  <1>7. c.clause = "select" => m < M
    <2>1. statement[N + M + 2].clause = "end"
      BY <1>3 DEF SelectFits
    <2> QED BY <1>2, <1>3, <1>4, <1>5, <1>6, <2>1
  <1>8. /\ projections = [i \in 1..m |-> projections[i]]
        /\ \A i \in 1..m : projections[i].alias = statement[N + 1 + i].alias
    BY <1>2, <1>4 DEF ProjectionsRead, ProjectionRead
  <1>9. DOMAIN projections = 1..m /\ Len(projections) = m
    BY <1>2, <1>8, CountIs
  <1>10. c.clause = "end" => m = M
    BY <1>2, <1>3, <1>4, <1>5, <1>6
  <1>11. m \in 0..M
    BY <1>2, <1>3, <1>4
  <1> WITNESS m
  <1> QED BY <1>2, <1>3, <1>4, <1>5, <1>6, <1>7, <1>8, <1>9, <1>10, <1>11

NewResult(alias) == Given(alias) /\ alias \notin DOMAIN ProjectionByAlias

LEMMA ProjectionRefused ==
    ASSUME NEW alias, NEW tree, CompileProjection(alias, tree),
           Len(projections) < MaximumColumns, NewResult(alias),
           Valid(Compiled(sources, tree)),
           ValidResult(AuthoredResult(alias), Compiled(sources, tree))
    PROVE  /\ phase' = phase
           /\ projections' = Append(projections, [alias |-> alias, x |-> Compiled(sources, tree),
                                                  tree |-> tree])
           /\ resultSchema' = Append(resultSchema,
                                     TypedResult(AuthoredResult(alias), Compiled(sources, tree)))
  BY Zenon DEF CompileProjection, NewResult, Given

LEMMA ProjectionHas ==
    ASSUME NEW q, NEW st, NEW n, NEW i, ProjectionFits(q, st, n, i)
    PROVE  /\ Given(st[n + 1 + i].alias)
           /\ \A k \in 1..(i - 1) : st[n + 1 + k].alias # st[n + 1 + i].alias
           /\ Valid(Reading(q, st, n, st[n + 1 + i].tree))
  BY Zenon DEF ProjectionFits, Given

LEMMA UntypedRefused ==
    ASSUME NEW alias, NEW tree, CompileProjection(alias, tree),
           AuthoredResult(alias).type = "null"
    PROVE  phase' = "refused"
  <1>1. "null" \notin ResultTypes \cup {""}
    BY Zenon DEF ResultTypes, ValueTypes
  <1>2. ~ValidResult(AuthoredResult(alias), Compiled(sources, tree))
    BY Zenon, <1>1 DEF ValidResult
  <1> QED BY Zenon, <1>2 DEF CompileProjection, Refuse

LEMMA ReplayProjection ==
    ASSUME NEW N, NEW M, NEW G, NEW O, Replaying(N, M, G, O), ResultsReplayed,
           NEW alias, NEW tree, CompileProjection(alias, tree),
           NEW c, c.clause = "select", c.alias = alias, c.tree = tree, Reads(c)
    PROVE  IF phase' = "refused" THEN HasUntypedResult ELSE ResultsReplayed'
  <1> DEFINE x == Compiled(sources, tree)
  <1>1. phase = "select"
    BY DEF CompileProjection
  <1>2. PICK m : /\ m \in 0..M /\ m < M
                 /\ N \in Nat \ {0} /\ M \in Nat \ {0} /\ M <= MaximumColumns
                 /\ TablesFit(schema, statement, N) /\ sources = SourcesRead(schema, statement, N)
                 /\ DOMAIN projections = 1..m /\ Len(projections) = m
                 /\ \A i \in 1..m : projections[i].alias = statement[N + 1 + i].alias
                 /\ statement[N + 1 + (m + 1)] = c
                 /\ projections = ProjectionsRead(schema, statement, N, m)
    BY <1>1, Selecting
  <1>3. /\ m \in Nat /\ m + 1 \in 1..M /\ (m + 1) - 1 = m
    BY <1>2
  <1>4. ProjectionFits(schema, statement, N, m + 1)
    <2>1. ProjectionsFit(schema, statement, N, M)
      BY Sizes DEF Replaying, Original
    <2> QED BY <1>3, <2>1 DEF ProjectionsFit
  <1>5. x = Reading(schema, statement, N, tree)
    BY <1>2, ReadingIs
  <1> HIDE DEF x
  <1>6. /\ Given(alias) /\ \A k \in 1..m : statement[N + 1 + k].alias # alias
        /\ Valid(x)
    <2>1. /\ Given(statement[N + 1 + (m + 1)].alias)
          /\ \A k \in 1..((m + 1) - 1) :
                 statement[N + 1 + k].alias # statement[N + 1 + (m + 1)].alias
          /\ Valid(Reading(schema, statement, N, statement[N + 1 + (m + 1)].tree))
      BY ONLY <1>4, ProjectionHas
    <2>2. c.alias = alias /\ c.tree = tree
      OBVIOUS
    <2> QED BY ONLY <1>2, <1>3, <1>5, <2>1, <2>2
  <1>7. NewResult(alias)
    <2>1. DOMAIN ProjectionByAlias = {p.alias : p \in Elements(projections)}
      BY DEF ProjectionByAlias
    <2>2. \A i \in DOMAIN projections : projections[i].alias # alias
      BY <1>2, <1>6
    <2> QED BY <1>6, <2>1, <2>2 DEF NewResult, Elements
  <1> DEFINE r == schema.results[m + 1]
  <1>8. /\ r.key = alias /\ Settled(r, x) /\ r \in Elements(schema.results)
        /\ AuthoredResult(alias) = r
    <2>1. ResultsOf(N, M) /\ ValidDeclarations
      BY DEF Replaying, Original
    <2>2. m + 1 \in DOMAIN schema.results
      BY <1>3, <2>1 DEF ResultsOf, ResultsReadAs, IsSequence
    <2>3. r \in Elements(schema.results)
      BY <2>2 DEF Elements
    <2>4. r.key = alias /\ Settled(r, x)
      BY <1>2, <1>3, <1>5, <2>1 DEF ResultsOf, ResultsReadAs, SelectedTree
    <2> QED BY <2>1, <2>3, <2>4, AuthoredIs
  <1> HIDE DEF r
  <1>9. CASE r.type = "null"
    <2>1. phase' = "refused"
      BY <1>8, <1>9, UntypedRefused
    <2> QED BY <1>8, <1>9, <2>1 DEF HasUntypedResult
  <1>10. CASE r.type # "null"
    <2>1. ValidResult(r, x) /\ TypedResult(r, x) = r
      BY <1>8, <1>10 DEF Settled
    <2>2. Len(projections) < MaximumColumns
      BY <1>2, CompilerAssumption
    <2> DEFINE p == [alias |-> alias, x |-> x, tree |-> tree]
    <2>3. /\ phase' = phase /\ projections' = Append(projections, p)
          /\ resultSchema' = Append(resultSchema, r)
      <3>1. /\ phase' = phase
            /\ projections' = Append(projections, [alias |-> alias, x |-> Compiled(sources, tree),
                                                   tree |-> tree])
            /\ resultSchema' = Append(resultSchema,
                                      TypedResult(AuthoredResult(alias), Compiled(sources, tree)))
        BY <1>6, <1>7, <1>8, <2>1, <2>2, ProjectionRefused DEF x
      <3> QED BY <1>8, <2>1, <3>1 DEF x
    <2> HIDE DEF p
    <2>4. DOMAIN projections' = 1..(m + 1)
      <3>1. projections = [i \in 1..m |-> projections[i]]
        BY <1>2 DEF ProjectionsRead
      <3>2. IsSequence(projections)
        BY <1>3, <3>1, CountIs
      <3> QED BY <1>2, <2>3, <3>2, Extended
    <2> DEFINE t == [i \in 1..(m + 1) |-> schema.results[i]]
    <2>5. /\ t = [i \in 1..(m + 1) |-> t[i]] /\ t[m + 1] = r
          /\ resultSchema = [i \in 1..m |-> t[i]]
      <3>1. \A i \in 1..(m + 1) : t[i] = schema.results[i]
        OBVIOUS
      <3>2. resultSchema = [i \in 1..m |-> schema.results[i]]
        BY <1>2 DEF ResultsReplayed
      <3>3. \A i \in 1..m : i \in 1..(m + 1)
        BY <1>3
      <3>4. m + 1 \in 1..(m + 1)
        BY <1>3
      <3> QED BY <3>1, <3>2, <3>3, <3>4 DEF r
    <2> HIDE DEF t
    <2>6. resultSchema' = t
      <3>1. Append(resultSchema, t[m + 1]) = t
        BY <1>3, <2>5, OneMore
      <3> QED BY <2>3, <2>5, <3>1
    <2>7. schema' = schema
      BY <2>3, <1>1 DEF CompileProjection, Refuse
    <2>8. ResultsReplayed'
      BY <2>4, <2>6, <2>7 DEF ResultsReplayed, t
    <2> QED BY <1>1, <2>3, <2>8
  <1> QED BY <1>9, <1>10

LEMMA ReplaySelect ==
    ASSUME NEW N, NEW M, NEW G, NEW O, Replaying(N, M, G, O),
           FinishProjections, NEW c, c.clause = "end", Reads(c)
    PROVE  phase' # "refused"
  <1>1. phase = "select"
    BY DEF FinishProjections
  <1>2. /\ M \in Nat /\ DOMAIN projections = 1..M
        /\ \A i \in 1..M : projections[i].alias = statement[N + 1 + i].alias
    <2>1. PICK m : /\ m \in 0..M
                   /\ c.clause = "end" => m = M
                   /\ M \in Nat \ {0} /\ DOMAIN projections = 1..m
                   /\ \A i \in 1..m : projections[i].alias = statement[N + 1 + i].alias
      BY <1>1, Selecting
    <2> QED BY <2>1
  <1>3. {r.key : r \in Elements(schema.results)} \subseteq DOMAIN ProjectionByAlias
    <2>1. DOMAIN ProjectionByAlias = {p.alias : p \in Elements(projections)}
      BY DEF ProjectionByAlias
    <2>2. /\ DOMAIN schema.results = 1..M
          /\ \A i \in 1..M : schema.results[i].key = statement[N + 1 + i].alias
      BY DEF Replaying, Original, ResultsOf, ResultsReadAs, IsSequence
    <2> QED BY <1>2, <2>1, <2>2 DEF Elements
  <1> QED BY <1>3 DEF FinishProjections

LEMMA ReplayWhere ==
    ASSUME NEW N, NEW M, NEW G, NEW O, Replaying(N, M, G, O),
           NEW tree, CompileFilter("where", tree),
           NEW c, c.clause = "where", c.tree = tree, Reads(c)
    PROVE  phase' # "refused"
  <1>1. phase = "where" /\ (Valid(Compiled(sources, tree)) => phase' = After("where"))
    BY Zenon DEF CompileFilter
  <1>2. PICK n, m : ReadWhere(n, m)
    BY <1>1 DEF Replaying, PhaseInv
  <1>3. /\ n \in Nat /\ m \in Nat /\ position = n + m + 2
        /\ SelectFits(schema, statement, n, m) /\ FromFits(schema, statement, n)
        /\ TablesFit(schema, statement, n) /\ ProjectionsFit(schema, statement, n, m)
        /\ statement[n + m + 2].clause = "end"
        /\ sources = SourcesRead(schema, statement, n)
    BY <1>2 DEF ReadWhere, SelectFits, FromFits
  <1>4. SelectFits(schema, statement, N, M) /\ WhereFits(schema, statement, N, M)
    BY Sizes DEF Replaying, Original
  <1>5. n = N /\ m = M
    BY <1>3, <1>4, SelectAligned
  <1>6. statement[N + M + 3] = c
    <2>1. statement[position + 1] = c
      BY Rereads DEF Replaying
    <2>2. position + 1 = N + M + 3
      BY <1>3, <1>5
    <2> QED BY <2>1, <2>2
  <1>7. Valid(Reading(schema, statement, N, tree))
    BY <1>4, <1>6 DEF WhereFits, FilterFits
  <1>8. Valid(Compiled(sources, tree))
    BY <1>3, <1>5, <1>7, ReadingIs
  <1>9. After("where") # "refused"
    BY DEF After
  <1> QED BY <1>1, <1>8, <1>9

LEMMA ReplayHaving ==
    ASSUME NEW N, NEW M, NEW G, NEW O, Replaying(N, M, G, O),
           NEW tree, CompileFilter("having", tree),
           NEW c, c.clause = "having", c.tree = tree, Reads(c)
    PROVE  phase' # "refused"
  <1>1. phase = "having" /\ (Valid(Compiled(sources, tree)) => phase' = After("having"))
    BY Zenon DEF CompileFilter
  <1>2. PICK n, m, g : ReadHaving(n, m, g)
    BY <1>1 DEF Replaying, PhaseInv
  <1>3. /\ n \in Nat /\ m \in Nat /\ g \in Nat /\ position = n + m + g + 4
        /\ WhereFits(schema, statement, n, m) /\ GroupsFit(schema, statement, n, m, g)
        /\ TablesFit(schema, statement, n)
        /\ statement[n + m + g + 4].clause = "end"
        /\ sources = SourcesRead(schema, statement, n)
    BY <1>2 DEF ReadHaving, GroupFits, WhereFits, SelectFits, FromFits
  <1>4. GroupFits(schema, statement, N, M, G) /\ HavingFits(schema, statement, N, M, G)
    BY Sizes DEF Replaying, Original
  <1>5. n = N /\ m = M /\ g = G
    BY <1>3, <1>4, GroupAligned
  <1>6. statement[N + M + G + 5] = c
    <2>1. statement[position + 1] = c
      BY Rereads DEF Replaying
    <2>2. position + 1 = N + M + G + 5
      BY <1>3, <1>5
    <2> QED BY <2>1, <2>2
  <1>7. Valid(Reading(schema, statement, N, tree))
    BY <1>4, <1>6 DEF HavingFits, FilterFits
  <1>8. Valid(Compiled(sources, tree))
    BY <1>3, <1>5, <1>7, ReadingIs
  <1>9. After("having") # "refused"
    BY DEF After
  <1> QED BY <1>1, <1>8, <1>9

LEMMA ReplayGroup ==
    ASSUME NEW N, NEW M, NEW G, NEW O, Replaying(N, M, G, O),
           NEW tree, CompileGroupTerm(tree),
           NEW c, c.clause = "group", c.tree = tree, Reads(c)
    PROVE  phase' # "refused"
  <1>1. phase = "group" /\ (Valid(Compiled(sources, tree)) => phase' = phase)
    BY Zenon DEF CompileGroupTerm
  <1>2. PICK n, m, g : ReadGroup(n, m, g)
    BY <1>1 DEF Replaying, PhaseInv
  <1>3. /\ n \in Nat /\ m \in Nat /\ g \in Nat /\ position = n + m + 3 + g
        /\ WhereFits(schema, statement, n, m) /\ GroupsFit(schema, statement, n, m, g)
        /\ TablesFit(schema, statement, n)
        /\ sources = SourcesRead(schema, statement, n)
    BY <1>2 DEF ReadGroup, WhereFits, SelectFits, FromFits
  <1>4. /\ GroupFits(schema, statement, N, M, G) /\ GroupsFit(schema, statement, N, M, G)
        /\ G \in Nat /\ statement[N + M + G + 4].clause = "end"
    BY Sizes DEF Replaying, Original, GroupFits
  <1>5. n = N /\ m = M /\ g <= G
    BY <1>3, <1>4, GroupAligned
  <1>6. statement[N + M + 3 + (g + 1)] = c
    <2>1. statement[position + 1] = c
      BY Rereads DEF Replaying
    <2>2. position + 1 = N + M + 3 + (g + 1)
      BY <1>3, <1>5
    <2> QED BY <2>1, <2>2
  <1>7. g + 1 \in 1..G
    <2>1. g # G
      <3>1. N + M + G + 4 = N + M + 3 + (G + 1)
        BY <1>3, <1>4, <1>5
      <3> QED BY <1>4, <1>6, <3>1
    <2> QED BY <1>3, <1>4, <1>5, <2>1
  <1>8. Valid(Reading(schema, statement, N, tree))
    BY <1>4, <1>6, <1>7 DEF GroupsFit
  <1>9. Valid(Compiled(sources, tree))
    BY <1>3, <1>5, <1>8, ReadingIs
  <1> QED BY <1>1, <1>9

\* Reading the ORDER BY of a published statement.
LEMMA Ordered ==
    ASSUME NEW N, NEW M, NEW G, NEW O, Replaying(N, M, G, O), phase = "order", NEW c, Reads(c)
    PROVE  \E o : /\ ReadOrder(N, M, G, o) /\ o \in 0..O
                  /\ c.clause = "limit" => o = O
                  /\ c.clause = "order" => o < O
                  /\ statement[N + M + G + 5 + (o + 1)] = c
                  /\ TablesFit(schema, statement, N)
                  /\ OrdersFit(schema, statement, N, M, G, O)
                  /\ LimitFits(statement[N + M + G + O + 6])
                  /\ N \in Nat /\ M \in Nat /\ G \in Nat /\ O \in Nat
  <1>2. PICK n, m, g, o : ReadOrder(n, m, g, o)
    BY DEF Replaying, PhaseInv
  <1>3. /\ n \in Nat /\ m \in Nat /\ g \in Nat /\ o \in Nat /\ position = n + m + g + 5 + o
        /\ HavingFits(schema, statement, n, m, g) /\ OrdersFit(schema, statement, n, m, g, o)
    BY <1>2 DEF ReadOrder
  <1>4. /\ StatementFits(schema, statement, N, M, G, O)
        /\ OrdersFit(schema, statement, N, M, G, O)
        /\ TablesFit(schema, statement, N)
        /\ LimitFits(statement[N + M + G + O + 6])
        /\ N \in Nat /\ M \in Nat /\ G \in Nat /\ O \in Nat
    BY Sizes DEF Replaying, Original, StatementFits
  <1>5. n = N /\ m = M /\ g = G /\ o <= O
    BY <1>3, <1>4, OrderAligned
  <1>6. /\ statement[N + M + G + 5 + (o + 1)] = c
        /\ N + M + G + o + 6 = N + M + G + 5 + (o + 1)
        /\ N + M + G + O + 6 = N + M + G + 5 + (O + 1)
    <2>1. statement[position + 1] = c
      BY Rereads DEF Replaying
    <2>2. position + 1 = N + M + G + 5 + (o + 1)
      BY <1>3, <1>5
    <2> QED BY <1>3, <1>4, <2>1, <2>2
  <1>7. c.clause = "limit" => o = O
    <2>1. statement[N + M + G + o + 6].clause = "limit" => o = O
      BY <1>3, <1>4, <1>5, OrderAligned
    <2> QED BY <1>6, <2>1
  <1>8. c.clause = "order" => o < O
    <2>1. statement[N + M + G + 5 + (O + 1)].clause = "limit"
      BY <1>4, <1>6 DEF LimitFits
    <2> QED BY <1>3, <1>4, <1>5, <1>6, <2>1
  <1>9. ReadOrder(N, M, G, o) /\ o \in 0..O
    BY <1>2, <1>3, <1>4, <1>5
  <1> QED BY <1>4, <1>6, <1>7, <1>8, <1>9

LEMMA ReplayOrder ==
    ASSUME NEW N, NEW M, NEW G, NEW O, Replaying(N, M, G, O),
           NEW tree, CompileOrderByTerm(tree),
           NEW c, c.clause = "order", c.tree = tree, Reads(c)
    PROVE  phase' # "refused"
  <1> DEFINE x == CompileOrderTerm(Scope(sources), ProjectionByAlias, Trees, tree)
  <1>1. phase = "order" /\ (Valid(x) => phase' = phase)
    BY Zenon DEF CompileOrderByTerm
  <1> HIDE DEF x
  <1>2. PICK o : /\ ReadOrder(N, M, G, o) /\ o \in 0..O /\ o < O
                 /\ statement[N + M + G + 5 + (o + 1)] = c
                 /\ TablesFit(schema, statement, N)
                 /\ OrdersFit(schema, statement, N, M, G, O)
                 /\ N \in Nat /\ O \in Nat
    BY <1>1, Ordered
  <1>3. o + 1 \in 1..O
    BY <1>2
  <1>4. Valid(Ordering(schema, statement, N, M, tree))
    BY <1>2, <1>3 DEF OrdersFit
  <1>5. /\ sources = SourcesRead(schema, statement, N)
        /\ projections = ProjectionsRead(schema, statement, N, M)
    BY <1>2 DEF ReadOrder
  <1>6. x = Ordering(schema, statement, N, M, tree)
    <2>1. ProjectionByAlias = Named(ProjectionsRead(schema, statement, N, M))
      BY <1>5 DEF ProjectionByAlias, Named
    <2>2. Scope(sources) = ScopeRead(schema, statement, N)
      BY <1>2, <1>5, ReadingIs
    <2> QED BY <2>1, <2>2 DEF x, Ordering
  <1> QED BY <1>1, <1>4, <1>6

LEMMA ReplayLimit ==
    ASSUME NEW N, NEW M, NEW G, NEW O, Replaying(N, M, G, O),
           NEW clause, FinishSelect(clause),
           NEW c, c.clause = "limit", c.tree = clause, Reads(c)
    PROVE  phase' # "refused"
  <1>1. /\ phase = "order"
        /\ (clause.given => clause.rows \in 1..MaximumLimit) => phase' = "amplification"
    BY Zenon DEF FinishSelect
  <1>2. /\ statement[N + M + G + 5 + (O + 1)] = c
        /\ LimitFits(statement[N + M + G + O + 6])
        /\ N \in Nat /\ M \in Nat /\ G \in Nat /\ O \in Nat
    <2>1. PICK o : /\ c.clause = "limit" => o = O
                   /\ statement[N + M + G + 5 + (o + 1)] = c
                   /\ LimitFits(statement[N + M + G + O + 6])
                   /\ N \in Nat /\ M \in Nat /\ G \in Nat /\ O \in Nat
      BY <1>1, Ordered
    <2> QED BY <2>1
  <1>3. N + M + G + O + 6 = N + M + G + 5 + (O + 1)
    BY <1>2
  <1>4. clause.given => clause.rows \in 1..MaximumLimit
    BY <1>2, <1>3 DEF LimitFits
  <1> QED BY <1>1, <1>4

-----------------------------------------------------------------------------
(***************************************************************************)
(* The plan of a published definition is the one it was published with.     *)
(***************************************************************************)
LEMMA PlanReplayed ==
    ASSUME NEW N, NEW M, NEW G, NEW O, Replaying(N, M, G, O), ResultsReplayed, Complete
    PROVE  published = <<plan>> /\ resultSchema = schema.results
  <1>1. PICK n, m, g, o : ReadAll(n, m, g, o)
    BY DEF Replaying, PhaseInv
  <1>2. /\ o \in Nat /\ StatementFits(schema, statement, n, m, g, o)
        /\ plan = PlanRead(schema, statement, n, m, g, o, resultSchema)
        /\ HavingFits(schema, statement, n, m, g) /\ OrdersFit(schema, statement, n, m, g, o)
        /\ statement[n + m + g + o + 6].clause = "limit"
    BY <1>1 DEF ReadAll, StatementFits, LimitFits
  <1>3. StatementFits(schema, statement, N, M, G, O) /\ ResultsOf(N, M) /\ M \in Nat
    BY Sizes DEF Replaying, Original
  <1>4. n = N /\ m = M /\ g = G /\ o = O
    BY <1>2, <1>3, OrderAligned
  <1>5. projections = ProjectionsRead(schema, statement, N, M)
    BY <1>2, <1>4 DEF plan, PlanRead, FinishedPlan
  <1>6. resultSchema = schema.results
    <2>1. resultSchema = [i \in 1..M |-> schema.results[i]]
      BY <1>5 DEF ResultsReplayed, ProjectionsRead
    <2>2. schema.results \in Seq(Elements(schema.results)) /\ Len(schema.results) = M
      BY <1>3 DEF ResultsOf, ResultsReadAs, IsSequence
    <2>3. schema.results = [i \in 1..M |-> schema.results[i]]
      BY ONLY <2>2
    <2> QED BY <2>1, <2>3
  <1>7. published = <<PlanRead(schema, statement, N, M, G, O, schema.results)>>
    BY DEF Replaying, Original
  <1> QED BY ONLY <1>2, <1>4, <1>6, <1>7

LEMMA ReplayAmplification ==
    ASSUME NEW N, NEW M, NEW G, NEW O, Replaying(N, M, G, O), ResultsReplayed,
           ValidateAmplification
    PROVE  phase' # "refused"
  <1>1. Complete
    BY DEF ValidateAmplification, Complete
  <1>2. published = <<plan>>
    BY <1>1, PlanReplayed
  <1>3. published[1][1] = sources /\ published[1][2] = projections
    BY <1>2 DEF plan
  <1>4. Unamplified(sources, projections)
    BY <1>3 DEF Replaying, Original
  <1> QED BY <1>4 DEF ValidateAmplification, Unamplified

LEMMA ReplayedStill ==
    ASSUME ResultsReplayed, UNCHANGED <<schema, projections, resultSchema>>
    PROVE  ResultsReplayed'
  BY DEF ResultsReplayed

Running ==
    /\ phase # "refused" => ResultsReplayed
    /\ phase = "refused" => HasUntypedResult

\* Of a published definition, a clause is refused only when it publishes a bare NULL.
LEMMA ReplayClause ==
    ASSUME NEW N, NEW M, NEW G, NEW O, Replaying(N, M, G, O), ResultsReplayed, ReadClause
    PROVE  IF phase' = "refused" THEN HasUntypedResult ELSE ResultsReplayed'
  <1> DEFINE Fine == IF phase' = "refused" THEN HasUntypedResult ELSE ResultsReplayed'
  <1>0. ASSUME phase' # "refused", UNCHANGED <<schema, projections, resultSchema>> PROVE Fine
    BY <1>0, ReplayedStill
  <1>1. ASSUME NEW object \in Objects, NEW alias \in Aliases,
               CompileRoot(object, alias), Reads(Table(object, alias, "", <<>>))
        PROVE  Fine
    <2> DEFINE c == Table(object, alias, "", <<>>)
    <2>1. c.object = object /\ c.alias = alias
      BY DEF Table
    <2>2. UNCHANGED <<schema, projections, resultSchema>>
      BY Zenon, <1>1 DEF CompileRoot, Refuse, plan
    <2>3. Reads(c)
      BY Zenon, <1>1
    <2> HIDE DEF c
    <2>4. phase' # "refused"
      BY <1>1, <2>1, <2>3, ReplayRoot
    <2> HIDE DEF Fine
    <2> QED BY <1>0, <2>2, <2>4
  <1>2. ASSUME NEW object \in Objects, NEW alias \in Aliases,
               NEW join \in {"inner", "left", "cross"}, NEW tree \in OnTrees,
               CompileJoin(object, alias, join, tree), Reads(Table(object, alias, join, tree))
        PROVE  Fine
    <2>1. UNCHANGED <<schema, projections, resultSchema>>
      BY Zenon, <1>2 DEF CompileJoin, Refuse, plan
    <2>2. phase' # "refused"
      BY <1>2, ReplayJoin
    <2> HIDE DEF Fine
    <2> QED BY <1>0, <2>1, <2>2
  <1>3. ASSUME NEW alias \in ResultAliases, NEW tree \in SelectTrees,
               CompileProjection(alias, tree), Reads(Expression("select", alias, tree))
        PROVE  Fine
    <2> DEFINE c == Expression("select", alias, tree)
    <2>1. c.clause = "select" /\ c.alias = alias /\ c.tree = tree
      BY DEF Expression
    <2> HIDE DEF c
    <2>2. Reads(c)
      BY <1>3 DEF c
    <2> QED BY <1>3, <2>1, <2>2, ReplayProjection
  <1>4. ASSUME NEW clause \in {"where", "having"}, NEW tree \in FilterTrees,
               CompileFilter(clause, tree), Reads(Expression(clause, "", tree))
        PROVE  Fine
    <2> DEFINE c == Expression(clause, "", tree)
    <2>1. c.clause = clause /\ c.tree = tree
      BY DEF Expression
    <2> HIDE DEF c
    <2>2. Reads(c)
      BY <1>4 DEF c
    <2>3. UNCHANGED <<schema, projections, resultSchema>>
      BY Zenon, <1>4 DEF CompileFilter, Refuse, plan
    <2>4. phase' # "refused"
      BY <1>4, <2>1, <2>2, ReplayWhere, ReplayHaving
    <2> HIDE DEF Fine
    <2> QED BY <1>0, <2>3, <2>4
  <1>5. ASSUME NEW tree \in GroupTrees,
               CompileGroupTerm(tree), Reads(Expression("group", "", tree))
        PROVE  Fine
    <2> DEFINE c == Expression("group", "", tree)
    <2>1. c.clause = "group" /\ c.tree = tree
      BY DEF Expression
    <2> HIDE DEF c
    <2>2. Reads(c)
      BY <1>5 DEF c
    <2>3. UNCHANGED <<schema, projections, resultSchema>>
      BY Zenon, <1>5 DEF CompileGroupTerm, Refuse, plan
    <2>4. phase' # "refused"
      BY <1>5, <2>1, <2>2, ReplayGroup
    <2> HIDE DEF Fine
    <2> QED BY <1>0, <2>3, <2>4
  <1>6. ASSUME NEW tree \in OrderTrees,
               CompileOrderByTerm(tree), Reads(Expression("order", "", tree))
        PROVE  Fine
    <2> DEFINE c == Expression("order", "", tree)
    <2>1. c.clause = "order" /\ c.tree = tree
      BY DEF Expression
    <2> HIDE DEF c
    <2>2. Reads(c)
      BY <1>6 DEF c
    <2>3. UNCHANGED <<schema, projections, resultSchema>>
      BY Zenon, <1>6 DEF CompileOrderByTerm, Refuse, plan
    <2>4. phase' # "refused"
      BY <1>6, <2>1, <2>2, ReplayOrder
    <2> HIDE DEF Fine
    <2> QED BY <1>0, <2>3, <2>4
  <1>7. ASSUME NEW clause \in Limits, FinishSelect(clause), Reads(LimitClause(clause))
        PROVE  Fine
    <2> DEFINE c == LimitClause(clause)
    <2>1. c.clause = "limit" /\ c.tree = clause
      BY DEF LimitClause, Expression
    <2> HIDE DEF c
    <2>2. Reads(c)
      BY <1>7 DEF c
    <2>3. UNCHANGED <<schema, projections, resultSchema>>
      BY Zenon, <1>7 DEF FinishSelect, Refuse, plan
    <2>4. phase' # "refused"
      BY <1>7, <2>1, <2>2, ReplayLimit
    <2> HIDE DEF Fine
    <2> QED BY <1>0, <2>3, <2>4
  <1>8. ASSUME FinishSources \/ FinishProjections \/ FinishGroupBy, Reads(End)
        PROVE  Fine
    <2> DEFINE c == End
    <2>1. c.clause = "end"
      BY DEF End, Expression
    <2> HIDE DEF c
    <2>2. Reads(c)
      BY <1>8 DEF c
    <2>3. UNCHANGED <<schema, projections, resultSchema>>
      BY Zenon, <1>8 DEF FinishSources, FinishProjections, FinishGroupBy, Refuse, plan
    <2>4. phase' # "refused"
      <3>1. CASE FinishSources
        BY <2>1, <2>2, <3>1, ReplayFrom
      <3>2. CASE FinishProjections
        BY <2>1, <2>2, <3>2, ReplaySelect
      <3>3. CASE FinishGroupBy
        BY <3>3 DEF FinishGroupBy
      <3> QED BY <1>8, <3>1, <3>2, <3>3
    <2> HIDE DEF Fine
    <2> QED BY <1>0, <2>3, <2>4
  <1>9. ASSUME NEW clause \in {"where", "having"}, SkipFilter(clause) PROVE Fine
    <2>1. UNCHANGED <<schema, projections, resultSchema>> /\ phase' # "refused"
      BY <1>9 DEF SkipFilter, After, plan
    <2> HIDE DEF Fine
    <2> QED BY <1>0, <2>1
  <1> HIDE DEF Fine
  <1>10. Fine
    BY Zenon, <1>1, <1>2, <1>3, <1>4, <1>5, <1>6, <1>7, <1>8, <1>9 DEF ReadClause
  <1> QED BY <1>10 DEF Fine

LEMMA NotRefused == ASSUME Next PROVE phase # "refused"
  <1>1. ASSUME NEW object, NEW alias, NEW join, NEW tree,
               CompileRoot(object, alias) \/ CompileJoin(object, alias, join, tree)
        PROVE  phase # "refused"
    BY Zenon, <1>1 DEF CompileRoot, CompileJoin
  <1>2. ASSUME NEW alias, NEW tree,
               CompileProjection(alias, tree) \/ CompileGroupTerm(tree) \/ CompileOrderByTerm(tree)
        PROVE  phase # "refused"
    BY Zenon, <1>2 DEF CompileProjection, CompileGroupTerm, CompileOrderByTerm
  <1>3. ASSUME NEW clause \in {"where", "having"}, NEW tree,
               SkipFilter(clause) \/ CompileFilter(clause, tree)
        PROVE  phase # "refused"
    <2>1. phase = clause
      BY Zenon, <1>3 DEF SkipFilter, CompileFilter
    <2> QED BY <2>1
  <1>4. ASSUME NEW clause, FinishSelect(clause) PROVE phase # "refused"
    BY Zenon, <1>4 DEF FinishSelect
  <1>5. CASE \/ CompileMetadata \/ Parse \/ FinishSources \/ FinishProjections \/ FinishGroupBy
             \/ ValidateAmplification
    BY <1>5 DEF CompileMetadata, Parse, FinishSources, FinishProjections, FinishGroupBy,
       ValidateAmplification
  <1> QED BY <1>1, <1>2, <1>3, <1>4, <1>5 DEF Next

LEMMA OriginalStays ==
    ASSUME NEW N, NEW M, NEW G, NEW O, Original(N, M, G, O),
           UNCHANGED <<schema, statement, published>>
    PROVE  Original(N, M, G, O)'
  <1>1. ValidDeclarations'
    BY SchemaTables DEF Original
  <1>2. ResultsOf(N, M)'
    BY DEF Original, ResultsOf, ResultsReadAs
  <1> QED BY <1>1, <1>2 DEF Original

LEMMA ReplayStep ==
    ASSUME NEW N, NEW M, NEW G, NEW O, Replaying(N, M, G, O), Running, Compile
    PROVE  Replaying(N, M, G, O)' /\ Running'
  <1>1. Next /\ phase # "refused"
    BY CompileIsNext, NotRefused
  <1>2. ResultsReplayed
    BY <1>1 DEF Running
  <1>3. UNCHANGED <<schema, published>>
    BY <1>1, ResultsChange DEF Compile
  <1>4. PositionInv' /\ PhaseInv'
    BY PhaseStep DEF Replaying, Original
  <1>5. statement' = statement
    <2>1. CASE ReadClause
      <3>1. \E c : Reads(c)
        BY Zenon, <2>1 DEF ReadClause
      <3> QED BY <3>1, Rereads DEF Replaying
    <2>2. CASE CompileUnread
      BY <2>2 DEF CompileUnread
    <2> QED BY <2>1, <2>2 DEF Compile
  <1>6. Replaying(N, M, G, O)'
    BY <1>3, <1>4, <1>5, OriginalStays DEF Replaying
  <1>7. HasUntypedResult' = HasUntypedResult
    BY <1>3 DEF HasUntypedResult, Elements
  <1>8. IF phase' = "refused" THEN HasUntypedResult ELSE ResultsReplayed'
    <2>1. CASE ReadClause
      BY <1>2, <2>1, ReplayClause
    <2>2. CASE CompileUnread
      <3>1. UNCHANGED <<schema, projections, resultSchema>>
        BY Zenon, <2>2
           DEF CompileUnread, CompileMetadata, Parse, ValidateAmplification, Refuse, plan
      <3>2. phase' # "refused"
        <4>1. CASE CompileMetadata
          BY <4>1 DEF CompileMetadata, Replaying, Original
        <4>2. CASE ValidateAmplification
          BY <1>2, <4>2, ReplayAmplification
        <4>3. CASE Parse /\ (published # <<>> => phase' = "from")
          BY <4>3 DEF Replaying
        <4> QED BY <2>2, <4>1, <4>2, <4>3 DEF CompileUnread
      <3> QED BY <1>2, <3>1, <3>2, ReplayedStill
    <2> QED BY <2>1, <2>2 DEF Compile
  <1> QED BY <1>6, <1>7, <1>8 DEF Running

-----------------------------------------------------------------------------
(***************************************************************************)
(* Publishing.                                                              *)
(***************************************************************************)
LEMMA CanonicalIs ==
    ASSUME DOMAIN schema = SchemaFields, NEW q, q = Canonical
    PROVE  /\ DOMAIN q = SchemaFields /\ q = [f \in DOMAIN q |-> q[f]]
           /\ q.sourceObjects = CanonicalSources /\ q.results = resultSchema
           /\ q.assertions = <<>>
           /\ q.parameters = schema.parameters /\ q.timeZone = schema.timeZone
           /\ q.timeout = schema.timeout
  <1> DEFINE objects == CanonicalSources
  <1>1. q = [schema EXCEPT !.sourceObjects = objects, !.results = resultSchema,
                           !.assertions = <<>>]
    BY DEF Canonical
  <1> HIDE DEF objects
  <1>2. DOMAIN q = DOMAIN schema /\ q = [f \in DOMAIN q |-> q[f]]
    BY ONLY <1>1
  <1>3. /\ q.sourceObjects = objects /\ q.results = resultSchema /\ q.assertions = <<>>
        /\ q.parameters = schema.parameters /\ q.timeZone = schema.timeZone
        /\ q.timeout = schema.timeout
    BY ONLY <1>1, DOMAIN schema = SchemaFields DEF SchemaFields
  <1> QED BY <1>2, <1>3 DEF objects

LEMMA FilledObjects ==
    ASSUME NEW srcs, NEW n \in Nat, DOMAIN srcs = 1..n, NEW refs,
           \A i \in 1..n : "object" \in DOMAIN srcs[i]
    PROVE  ObjectsOf(FilledSources(srcs, refs)) = ObjectsOf(srcs)
  <1> DEFINE fs == FilledSources(srcs, refs)
  <1>1. DOMAIN fs = 1..n
    BY DEF FilledSources
  <1>2. \A i \in 1..n : fs[i].object = srcs[i].object
    BY DEF FilledSources
  <1> HIDE DEF fs
  <1> QED BY <1>1, <1>2 DEF ObjectsOf, fs

\* What authoring says of an accepted statement.
LEMMA Accepted ==
    ASSUME AuthoringInv, PhaseInv, phase = "accepted"
    PROVE  \E N, M, G, O :
               /\ StatementFits(schema, statement, N, M, G, O)
               /\ position = N + M + G + O + 6
               /\ plan = PlanRead(schema, statement, N, M, G, O, resultSchema)
               /\ ResultsReadAs(resultSchema, schema, statement, N, M)
               /\ ObjectsOf(sources) = ObjectsOf(SourcesRead(schema, statement, N))
               /\ Unamplified(plan[1], plan[2])
  <1>1. PICK N, M, G, O : ReadAll(N, M, G, O)
    BY DEF PhaseInv, Complete
  <1>2. /\ StatementFits(schema, statement, N, M, G, O)
        /\ position = N + M + G + O + 6
        /\ plan = PlanRead(schema, statement, N, M, G, O, resultSchema)
        /\ N \in Nat /\ M \in Nat
    BY <1>1 DEF ReadAll
  <1>3. projections = ProjectionsRead(schema, statement, N, M)
    BY <1>2 DEF plan, PlanRead, FinishedPlan
  <1>4. \E refs : sources = FilledSources(SourcesRead(schema, statement, N), refs)
    BY <1>2 DEF plan, PlanRead, FinishedPlan
  <1>5. ResultsReadAs(resultSchema, schema, statement, N, M)
    <2>1. /\ IsSequence(resultSchema) /\ Len(projections) = Len(resultSchema)
          /\ \A i \in DOMAIN projections : resultSchema[i].key = projections[i].alias
          /\ \A i \in DOMAIN projections : Settled(resultSchema[i], projections[i].x)
      BY DEF AuthoringInv, CompilerInv, DeclarationInv, ResultsInv, ResultsTyped, ResultsSettled
    <2>2. /\ projections = [i \in 1..M |-> projections[i]]
          /\ \A i \in 1..M : /\ projections[i].alias = statement[N + 1 + i].alias
                             /\ projections[i].x = Reading(schema, statement, N,
                                                           SelectedTree(statement, N, i))
      BY <1>3 DEF ProjectionsRead, ProjectionRead, SelectedTree
    <2>3. Len(projections) = M /\ DOMAIN projections = 1..M
      BY <1>2, <2>2, CountIs
    <2> QED BY <2>1, <2>2, <2>3 DEF ResultsReadAs
  <1>6. ObjectsOf(sources) = ObjectsOf(SourcesRead(schema, statement, N))
    <2> DEFINE srcs == SourcesRead(schema, statement, N)
    <2>1. DOMAIN srcs = 1..N /\ \A i \in 1..N : "object" \in DOMAIN srcs[i]
      BY DEF SourcesRead, SourceRead, Source
    <2> HIDE DEF srcs
    <2>2. PICK refs : sources = FilledSources(srcs, refs)
      BY <1>4 DEF srcs
    <2> QED BY <1>2, <2>1, <2>2, FilledObjects DEF srcs
  <1>7. Unamplified(plan[1], plan[2])
    BY DEF AuthoringInv, plan
  <1> QED BY <1>2, <1>5, <1>6, <1>7

LEMMA CanonicalDeclares ==
    ASSUME ValidDeclarations, NEW N, NEW M, NEW G, NEW O,
           StatementFits(schema, statement, N, M, G, O),
           ResultsReadAs(resultSchema, schema, statement, N, M),
           schema'.sourceObjects = EachOnce(ObjectsOf(SourcesRead(schema, statement, N))),
           schema'.results = resultSchema, schema'.assertions = <<>>,
           schema'.parameters = schema.parameters, schema'.timeout = schema.timeout
    PROVE  ValidDeclarations'
  <1>1. /\ N \in Nat /\ M \in Nat /\ M <= MaximumColumns
        /\ TablesFit(schema, statement, N) /\ ProjectionsFit(schema, statement, N, M)
    BY Sizes
  <1>2. /\ IsSequence(resultSchema) /\ Len(resultSchema) = M /\ DOMAIN resultSchema = 1..M
        /\ \A i \in 1..M : resultSchema[i].key = statement[N + 1 + i].alias
    BY DEF ResultsReadAs, IsSequence
  <1>3. \A i \in 1..M : /\ Given(statement[N + 1 + i].alias)
                        /\ \A k \in 1..(i - 1) :
                               statement[N + 1 + k].alias # statement[N + 1 + i].alias
    BY <1>1, ProjectionHas DEF ProjectionsFit
  <1>4. Len(schema'.results) <= MaximumColumns
    BY <1>1, <1>2
  <1>5. DeclaredObjects' \subseteq Objects /\ Distinct(schema'.sourceObjects)
    <2>1. \A i \in 1..N : statement[i].object \in Objects
      BY <1>1, TableHas DEF TablesFit
    <2>2. /\ Distinct(schema'.sourceObjects)
          /\ Elements(schema'.sourceObjects) = {statement[i].object : i \in 1..N}
      BY <1>1, ObjectsRead
    <2> QED BY <2>1, <2>2 DEF DeclaredObjects
  <1>6. Distinct(Keys(schema'.results)) /\ \A k \in Elements(Keys(schema'.results)) : Given(k)
    <2> DEFINE keys == Keys(resultSchema)
    <2>1. DOMAIN keys = 1..M /\ \A i \in 1..M : keys[i] = statement[N + 1 + i].alias
      BY <1>2 DEF Keys
    <2> HIDE DEF keys
    <2>2. \A i \in 1..M : Given(keys[i]) /\ \A k \in 1..(i - 1) : keys[k] # keys[i]
      <3>1. \A i \in 1..M : \A k \in 1..(i - 1) : k \in 1..M
        BY <1>1
      <3> QED BY <1>3, <2>1, <3>1
    <2>3. Distinct(keys)
      <3> SUFFICES ASSUME NEW i \in 1..M, NEW k \in 1..M, keys[i] = keys[k] PROVE i = k
        BY <2>1 DEF Distinct
      <3>1. ~(i < k) /\ ~(k < i)
        BY <1>1, <2>2
      <3> QED BY <1>1, <3>1
    <2>4. \A k \in Elements(keys) : Given(k)
      BY <2>1, <2>2 DEF Elements
    <2> QED BY <2>3, <2>4 DEF keys
  <1>7. "" \notin Elements(Keys(schema'.results))
    BY Zenon, <1>6 DEF Given
  <1>8. /\ Distinct([i \in DOMAIN schema'.assertions |-> schema'.assertions[i].alias])
        /\ Elements(schema'.assertions) = {}
    BY DEF Distinct, Elements
  <1>9. /\ Distinct(Keys(schema'.parameters))
        /\ Elements(Keys(schema'.parameters)) \cap {"", "__"} = {}
        /\ \A p \in Elements(schema'.parameters) : p.type \in ValueTypes
    BY Zenon DEF ValidDeclarations
  <1>10. ValidTimeout'
    <2>1. ValidTimeout
      BY Zenon DEF ValidDeclarations
    <2> QED BY <2>1 DEF ValidTimeout
  <1> QED BY Zenon, <1>4, <1>5, <1>6, <1>7, <1>8, <1>9, <1>10 DEF ValidDeclarations

LEMMA PublishStep ==
    ASSUME AuthoringInv, PositionInv, PhaseInv, Publish
    PROVE  /\ \E N, M, G, O : Replaying(N, M, G, O)'
           /\ Running'
  <1>1. /\ phase = "accepted" /\ published = <<>> /\ published' = <<plan>>
        /\ schema' = Canonical /\ phase' = "metadata"
        /\ sources' = <<>> /\ projections' = <<>> /\ resultSchema' = <<>>
        /\ filters' = Unfiltered /\ groupBy' = <<>> /\ orderBy' = <<>> /\ limit' = Unlimited(0)
        /\ position' = 0 /\ statement' = statement
    BY DEF Publish, Unfiltered, Unlimited
  <1>2. schema \in Schemas /\ ValidDeclarations
    BY <1>1 DEF AuthoringInv, CompilerInv, DeclarationInv
  <1>3. PICK N, M, G, O :
               /\ StatementFits(schema, statement, N, M, G, O)
               /\ position = N + M + G + O + 6
               /\ plan = PlanRead(schema, statement, N, M, G, O, resultSchema)
               /\ ResultsReadAs(resultSchema, schema, statement, N, M)
               /\ ObjectsOf(sources) = ObjectsOf(SourcesRead(schema, statement, N))
               /\ Unamplified(plan[1], plan[2])
    BY <1>1, Accepted
  <1>4. /\ DOMAIN schema' = SchemaFields /\ schema' = [f \in DOMAIN schema' |-> schema'[f]]
        /\ schema'.sourceObjects = CanonicalSources /\ schema'.results = resultSchema
        /\ schema'.assertions = <<>>
        /\ schema'.parameters = schema.parameters /\ schema'.timeZone = schema.timeZone
        /\ schema'.timeout = schema.timeout
    <2>1. DOMAIN schema = SchemaFields
      BY <1>2, PublicationAssumption DEF SchemaFields
    <2> QED BY <1>1, <2>1, CanonicalIs
  <1>5. SameScopes(schema, schema')
    BY <1>4 DEF SameScopes, ScopeOf, DeclaredParameters
  <1> DEFINE k == Len(statement)
  <1>6. /\ k = N + M + G + O + 6 /\ k \in Nat /\ Agree(statement, statement', k)
        /\ N \in Nat /\ M \in Nat /\ G \in Nat /\ O \in Nat /\ N <= k
        /\ N + M + G + O + 6 <= k
    <2>1. position = k /\ k \in Nat
      BY <1>1 DEF PositionInv, IsSequence
    <2>2. N \in Nat /\ M \in Nat /\ G \in Nat /\ O \in Nat
      BY <1>3, Sizes
    <2>3. Agree(statement, statement', k)
      BY <1>1, <2>1 DEF Agree
    <2> QED BY <1>3, <2>1, <2>2, <2>3
  <1> HIDE DEF k
  <1>7. StatementFits(schema', statement', N, M, G, O)
    BY <1>3, <1>5, <1>6, SameStatement
  <1>8. plan = PlanRead(schema', statement', N, M, G, O, schema'.results)
    BY <1>3, <1>4, <1>5, <1>6, SamePlan
  <1>9. SourcesRead(schema, statement, N) = SourcesRead(schema', statement', N)
    BY <1>5, <1>6, SameTables
  <1>10. /\ schema'.sourceObjects = EachOnce(ObjectsOf(SourcesRead(schema, statement, N)))
         /\ schema'.sourceObjects = EachOnce(ObjectsOf(SourcesRead(schema', statement', N)))
    BY <1>3, <1>4, <1>9 DEF CanonicalSources
  <1>11. ValidDeclarations'
    BY <1>2, <1>3, <1>4, <1>10, CanonicalDeclares
  <1>12. ResultsOf(N, M)'
    <2>1. \A tree : Reading(schema, statement, N, tree) = Reading(schema', statement', N, tree)
      BY <1>5, <1>6, SameReading
    <2> QED BY <1>1, <1>3, <1>4, <2>1 DEF ResultsOf, ResultsReadAs, SelectedTree
  <1>13. Original(N, M, G, O)'
    <2>1. Len(statement') = N + M + G + O + 6
      BY <1>1, <1>6 DEF k
    <2>2. published' = <<PlanRead(schema', statement', N, M, G, O, schema'.results)>>
      BY <1>1, <1>8
    <2>3. Unamplified(published'[1][1], published'[1][2])
      BY <1>1, <1>3
    <2> QED BY <1>4, <1>7, <1>10, <1>11, <1>12, <2>1, <2>2, <2>3 DEF Original
  <1>14. PositionInv'
    <2>1. Len(statement) \in Nat
      BY DEF PositionInv, IsSequence
    <2> QED BY <1>1, <2>1 DEF PositionInv
  <1>15. PhaseInv'
    <2>1. /\ TablesFit(schema', statement', 0) /\ SourcesRead(schema', statement', 0) = <<>>
      BY DEF TablesFit, SourcesRead
    <2>2. ReadFrom(0)'
      BY <1>1, <2>1 DEF ReadFrom, Unfiltered, Unlimited
    <2> QED BY <1>1, <2>2 DEF PhaseInv, Complete
  <1>16. Replaying(N, M, G, O)'
    BY <1>1, <1>13, <1>14, <1>15 DEF Replaying
  <1>17. Running'
    <2>1. projections' = <<>> /\ resultSchema' = <<>>
      BY <1>1
    <2>2. [i \in DOMAIN projections' |-> schema'.results[i]] = <<>>
      BY <2>1
    <2> QED BY <1>1, <2>1, <2>2 DEF Running, ResultsReplayed
  <1> QED BY <1>16, <1>17

-----------------------------------------------------------------------------
(***************************************************************************)
(* The invariant.                                                           *)
(***************************************************************************)
PublicationInv ==
    /\ PositionInv /\ PhaseInv
    /\ published = <<>> => AuthoringInv
    /\ published # <<>> => Running /\ \E N, M, G, O : Replaying(N, M, G, O)

LEMMA PublicationStarts == PublicationInit => PublicationInv
  <1> SUFFICES ASSUME PublicationInit PROVE PublicationInv
    OBVIOUS
  <1>1. Init /\ statement = <<>> /\ position = 0 /\ published = <<>>
    BY DEF PublicationInit
  <1>2. IsSequence(<<>>) /\ Len(<<>>) = 0 /\ DOMAIN <<>> = {}
    BY DEF IsSequence, Elements
  <1>3. PositionInv
    BY <1>1, <1>2 DEF PositionInv
  <1>4. PhaseInv
    <2>1. /\ TablesFit(schema, statement, 0) /\ SourcesRead(schema, statement, 0) = <<>>
      BY DEF TablesFit, SourcesRead
    <2>2. /\ phase = "metadata" /\ sources = <<>> /\ projections = <<>>
          /\ filters = Unfiltered /\ groupBy = <<>> /\ orderBy = <<>> /\ limit = Unlimited(0)
      BY <1>1 DEF Init, Unfiltered, Unlimited
    <2>3. ReadFrom(0)
      BY <1>1, <2>1, <2>2 DEF ReadFrom
    <2> QED BY <2>2, <2>3 DEF PhaseInv, Complete
  <1>5. AuthoringInv
    <2>1. phase = "metadata" /\ projections = <<>>
      BY <1>1 DEF Init
    <2> QED BY <1>1, <1>2, <2>1, CompilerStarts DEF AuthoringInv, ResultsSettled
  <1> QED BY <1>1, <1>3, <1>4, <1>5 DEF PublicationInv

LEMMA PublicationStep == PublicationInv /\ [PublicationNext]_publicationVars => PublicationInv'
  <1> SUFFICES ASSUME PublicationInv, [PublicationNext]_publicationVars PROVE PublicationInv'
    OBVIOUS
  <1>1. CASE Compile /\ published = <<>>
    <2>1. AuthoringInv /\ AuthoringInv'
      BY <1>1, AuthoringStep DEF PublicationInv
    <2>2. phase = "from" => ValidDeclarations
      BY <2>1 DEF AuthoringInv, CompilerInv, DeclarationInv
    <2>3. PositionInv' /\ PhaseInv'
      BY <1>1, <2>2, PhaseStep DEF PublicationInv
    <2> QED BY <1>1, <2>1, <2>3 DEF PublicationInv, Compile
  <1>2. CASE Compile /\ published # <<>>
    <2>1. PICK N, M, G, O : Replaying(N, M, G, O)
      BY <1>2 DEF PublicationInv
    <2>2. Replaying(N, M, G, O)' /\ Running'
      BY <1>2, <2>1, ReplayStep DEF PublicationInv
    <2> QED BY <2>2 DEF PublicationInv, Replaying
  <1>3. CASE Publish
    <2>1. AuthoringInv
      BY <1>3 DEF PublicationInv, Publish
    <2>2. (\E N, M, G, O : Replaying(N, M, G, O)') /\ Running'
      BY <1>3, <2>1, PublishStep DEF PublicationInv
    <2> QED BY <2>2 DEF PublicationInv, Replaying
  <1>4. CASE UNCHANGED publicationVars
    <2>1. /\ UNCHANGED vars /\ UNCHANGED <<statement, position, published>>
          /\ UNCHANGED <<phase, schema, plan, projections, resultSchema, sources>>
      BY <1>4 DEF publicationVars, vars, plan
    <2>2. PositionInv'
      BY <2>1 DEF PublicationInv, PositionInv
    <2>3. PhaseInv'
      <3>1. PhaseInv
        BY DEF PublicationInv
      <3> QED BY <2>1, <3>1, NothingRead
    <2>4. ASSUME AuthoringInv PROVE AuthoringInv'
      <3>1. CompilerInv'
        BY <2>1, <2>4, CompilerStep DEF AuthoringInv
      <3>2. ResultsSettled'
        BY <2>1, <2>4 DEF AuthoringInv, ResultsSettled
      <3>3. phase' = "accepted" => Unamplified(sources', projections')
        BY <2>1, <2>4 DEF AuthoringInv
      <3> QED BY <3>1, <3>2, <3>3 DEF AuthoringInv
    <2>5. \A N, M, G, O : Replaying(N, M, G, O) => Replaying(N, M, G, O)'
      BY <2>1, <2>2, <2>3, OriginalStays DEF Replaying
    <2>6. Running => Running'
      BY <2>1 DEF Running, ResultsReplayed, HasUntypedResult, Elements
    <2> QED BY <2>1, <2>2, <2>3, <2>4, <2>5, <2>6 DEF PublicationInv
  <1> QED BY <1>1, <1>2, <1>3, <1>4 DEF PublicationNext

LEMMA PublicationInvHolds == PublicationSpec => []PublicationInv
  BY PublicationStarts, PublicationStep, PTL DEF PublicationSpec

-----------------------------------------------------------------------------
(***************************************************************************)
(* A published report is run: the definition derived from an accepted one   *)
(* is accepted (object_sql_validation.go 140-160), for any declarations,    *)
(* metadata and statement, unless it has the result of a bare NULL.         *)
(***************************************************************************)
THEOREM CanonicalAlwaysRecompiles == PublicationSpec => []CanonicalRecompiles
  <1>1. PublicationInv => CanonicalRecompiles
    BY DEF PublicationInv, Running, CanonicalRecompiles
  <1> QED BY <1>1, PublicationInvHolds, PTL

(***************************************************************************)
(* The clauses of a published statement are its own, and the results of the *)
(* definition are the columns of the plan (report_object_sql.go 19-46).     *)
(***************************************************************************)
THEOREM PublicationAlwaysTyped == PublicationSpec => []PublicationTypeOK
  <1>1. PublicationInv => PublicationTypeOK
    <2> SUFFICES ASSUME PublicationInv PROVE PublicationTypeOK
      OBVIOUS
    <2>1. position <= Len(statement)
      BY DEF PublicationInv, PositionInv
    <2>2. ASSUME published # <<>>
          PROVE  /\ Distinct(schema.sourceObjects) /\ schema.assertions = <<>>
                 /\ Keys(schema.results)
                        = [i \in DOMAIN published[1][2] |-> published[1][2][i].alias]
      <3>1. PICK N, M, G, O : Original(N, M, G, O)
        BY <2>2 DEF PublicationInv, Replaying
      <3>2. Distinct(schema.sourceObjects) /\ schema.assertions = <<>>
        <4>1. ValidDeclarations /\ schema.assertions = <<>>
          BY <3>1 DEF Original
        <4> QED BY Zenon, <4>1 DEF ValidDeclarations
      <3> DEFINE ps == published[1][2]
      <3>3. ps = ProjectionsRead(schema, statement, N, M)
        <4>1. published = <<PlanRead(schema, statement, N, M, G, O, schema.results)>>
          BY <3>1 DEF Original
        <4> QED BY <4>1 DEF PlanRead, FinishedPlan
      <3> HIDE DEF ps
      <3>4. DOMAIN ps = 1..M /\ \A i \in 1..M : ps[i].alias = statement[N + 1 + i].alias
        BY <3>3 DEF ProjectionsRead, ProjectionRead
      <3>5. /\ DOMAIN schema.results = 1..M
            /\ \A i \in 1..M : schema.results[i].key = statement[N + 1 + i].alias
        BY <3>1 DEF Original, ResultsOf, ResultsReadAs, IsSequence
      <3>6. Keys(schema.results) = [i \in DOMAIN ps |-> ps[i].alias]
        BY <3>4, <3>5 DEF Keys
      <3> QED BY <3>2, <3>6 DEF ps
    <2> QED BY <2>1, <2>2 DEF PublicationTypeOK
  <1> QED BY <1>1, PublicationInvHolds, PTL

-----------------------------------------------------------------------------
(***************************************************************************)
(* The plan that is run, and the objects a host discovers.                  *)
(***************************************************************************)
LEMMA ObjectsFilled ==
    ASSUME NEW n, NEW m, NEW g, NEW o, ReadAll(n, m, g, o)
    PROVE  n \in Nat /\ ObjectsOf(sources) = ObjectsOf(SourcesRead(schema, statement, n))
  <1>1. n \in Nat /\ plan = PlanRead(schema, statement, n, m, g, o, resultSchema)
    BY DEF ReadAll
  <1> DEFINE srcs == SourcesRead(schema, statement, n)
  <1>2. \E refs : sources = FilledSources(srcs, refs)
    BY <1>1 DEF plan, PlanRead, FinishedPlan
  <1>3. DOMAIN srcs = 1..n /\ \A i \in 1..n : "object" \in DOMAIN srcs[i]
    BY DEF SourcesRead, SourceRead, Source
  <1> HIDE DEF srcs
  <1>4. PICK refs : sources = FilledSources(srcs, refs)
    BY <1>2
  <1> QED BY <1>1, <1>3, <1>4, FilledObjects DEF srcs

\* Whether source discovery accepts a table that is joined like this.
Discoverable(join) == join \in {"", "inner", "left"}

LEMMA TablesDiscoverable ==
    ASSUME NEW q, NEW st, NEW n \in Nat, TablesFit(q, st, n)
    PROVE  \A i \in 1..n : st[i].clause = "table" /\ Discoverable(st[i].join)
  <1> SUFFICES ASSUME NEW i \in 1..n PROVE st[i].clause = "table" /\ Discoverable(st[i].join)
    OBVIOUS
  <1>1. TableFits(q, st, i)
    BY DEF TablesFit
  <1> QED BY Zenon, <1>1 DEF TableFits, Discoverable

LEMMA OtherClauses ==
    ASSUME NEW q, NEW st, NEW n, NEW m, NEW g, NEW o, StatementFits(q, st, n, m, g, o),
           NEW i \in (n + 1)..(n + m + g + o + 6)
    PROVE  st[i].clause # "table"
  <1>1. /\ n \in Nat /\ m \in Nat /\ g \in Nat /\ o \in Nat
        /\ FromFits(q, st, n) /\ SelectFits(q, st, n, m) /\ WhereFits(q, st, n, m)
        /\ GroupFits(q, st, n, m, g) /\ HavingFits(q, st, n, m, g)
        /\ ProjectionsFit(q, st, n, m) /\ GroupsFit(q, st, n, m, g)
        /\ OrdersFit(q, st, n, m, g, o)
    BY Sizes
  <1>2. CASE i \in {n + 1, n + m + 2, n + m + g + 4}
    BY <1>1, <1>2 DEF FromFits, SelectFits, GroupFits
  <1>3. CASE i = n + m + 3
    <2>1. FilterFits(q, st, n, "where", st[i])
      BY <1>1, <1>3 DEF WhereFits
    <2> QED BY <2>1 DEF FilterFits
  <1>4. CASE i = n + m + g + 5
    <2>1. FilterFits(q, st, n, "having", st[i])
      BY <1>1, <1>4 DEF HavingFits
    <2> QED BY <2>1 DEF FilterFits
  <1>5. CASE i = n + m + g + o + 6
    BY <1>5 DEF StatementFits, LimitFits
  <1>6. CASE i \in (n + 2)..(n + m + 1)
    <2>1. i - (n + 1) \in 1..m /\ n + 1 + (i - (n + 1)) = i
      BY <1>1, <1>6
    <2>2. \A k \in 1..m : st[n + 1 + k].clause = "select"
      BY <1>1 DEF ProjectionsFit, ProjectionFits
    <2> QED BY <2>1, <2>2
  <1>7. CASE i \in (n + m + 4)..(n + m + g + 3)
    <2>1. i - (n + m + 3) \in 1..g /\ n + m + 3 + (i - (n + m + 3)) = i
      BY <1>1, <1>7
    <2>2. \A k \in 1..g : st[n + m + 3 + k].clause = "group"
      BY <1>1 DEF GroupsFit
    <2> QED BY <2>1, <2>2
  <1>8. CASE i \in (n + m + g + 6)..(n + m + g + o + 5)
    <2>1. i - (n + m + g + 5) \in 1..o /\ n + m + g + 5 + (i - (n + m + g + 5)) = i
      BY <1>1, <1>8
    <2>2. \A k \in 1..o : st[n + m + g + 5 + k].clause = "order"
      BY <1>1 DEF OrdersFit
    <2> QED BY <2>1, <2>2
  <1> QED BY <1>1, <1>2, <1>3, <1>4, <1>5, <1>6, <1>7, <1>8

\* The tables that source discovery collects are those the compiler reads.
LEMMA TablesAreRead ==
    ASSUME NEW q, NEW n, NEW m, NEW g, NEW o, StatementFits(q, statement, n, m, g, o),
           IsSequence(statement), Len(statement) = n + m + g + o + 6
    PROVE  /\ \A c \in Elements(Tables) : Discoverable(c.join)
           /\ ObjectsOf(Tables) = ObjectsOf(SourcesRead(q, statement, n))
  <1>1. n \in Nat /\ m \in Nat /\ g \in Nat /\ o \in Nat /\ TablesFit(q, statement, n)
    BY Sizes
  <1> DEFINE k == n + m + g + o + 6
             S == Elements(statement)
  <1>2. k \in Nat /\ n <= k /\ Len(statement) = k
    BY <1>1
  <1>3. statement \in Seq(S) /\ DOMAIN statement = 1..k
    <2>1. statement \in Seq(S)
      BY DEF IsSequence
    <2> HIDE DEF S, k
    <2> QED BY <1>2, <2>1
  <1>4. \A i \in 1..n : statement[i].clause = "table" /\ Discoverable(statement[i].join)
    BY <1>1, TablesDiscoverable
  <1>5. \A i \in (n + 1)..k : statement[i].clause # "table"
    BY OtherClauses
  <1> HIDE DEF S, k
  <1>6. {i \in DOMAIN statement : statement[i].clause = "table"} = 1..n
    BY <1>1, <1>2, <1>3, <1>4, <1>5
  <1>7. Cardinality(1..n) = n
    BY <1>1, FS_Interval
  <1>8. Tables = SubSeq(statement, 1, n)
    BY Zenon, <1>6, <1>7 DEF Tables
  <1> DEFINE tables == Tables
  <1>9. DOMAIN tables = 1..n /\ \A i \in 1..n : tables[i] = statement[i]
    <2> HIDE DEF tables
    <2>1. tables = SubSeq(statement, 1, n)
      BY <1>8 DEF tables
    <2> QED BY <1>1, <1>2, <1>3, <2>1
  <1>10. \A c \in Elements(tables) : Discoverable(c.join)
    BY <1>4, <1>9 DEF Elements
  <1>11. ObjectsOf(tables) = [i \in 1..n |-> statement[i].object]
    <2> HIDE DEF tables
    <2> QED BY <1>9 DEF ObjectsOf
  <1>12. ObjectsOf(SourcesRead(q, statement, n)) = [i \in 1..n |-> statement[i].object]
    <2>1. DOMAIN SourcesRead(q, statement, n) = 1..n
      BY DEF SourcesRead
    <2>2. \A i \in 1..n : SourcesRead(q, statement, n)[i].object = statement[i].object
      BY DEF SourcesRead, SourceRead, Source
    <2> QED BY <2>1, <2>2 DEF ObjectsOf
  <1> QED BY <1>10, <1>11, <1>12

\* What an accepted statement is, whether it is authored or run.
LEMMA AcceptedRead ==
    ASSUME PublicationInv, phase = "accepted"
    PROVE  \E n, m, g, o : /\ ReadAll(n, m, g, o)
                           /\ StatementFits(schema, statement, n, m, g, o)
                           /\ IsSequence(statement) /\ Len(statement) = n + m + g + o + 6
                           /\ published # <<>> => Original(n, m, g, o)
  <1>1. PICK n, m, g, o : ReadAll(n, m, g, o)
    BY DEF PublicationInv, PhaseInv, Complete
  <1>2. /\ StatementFits(schema, statement, n, m, g, o) /\ position = n + m + g + o + 6
        /\ IsSequence(statement)
    BY <1>1 DEF ReadAll, PublicationInv, PositionInv
  <1>3. CASE published = <<>>
    <2>1. Len(statement) = position
      BY <1>3 DEF PublicationInv, PositionInv
    <2> QED BY <1>1, <1>2, <1>3, <2>1
  <1>4. CASE published # <<>>
    <2>1. PICK N, M, G, O : Original(N, M, G, O)
      BY <1>4 DEF PublicationInv, Replaying
    <2>2. StatementFits(schema, statement, N, M, G, O) /\ Len(statement) = N + M + G + O + 6
      BY <2>1 DEF Original
    <2>3. /\ HavingFits(schema, statement, n, m, g) /\ o \in Nat
          /\ OrdersFit(schema, statement, n, m, g, o)
          /\ statement[n + m + g + o + 6].clause = "limit"
      BY <1>2 DEF StatementFits, LimitFits
    <2>4. n = N /\ m = M /\ g = G /\ o = O
      BY <2>2, <2>3, OrderAligned
    <2> QED BY <1>1, <1>2, <2>1, <2>2, <2>4
  <1> QED BY <1>3, <1>4

\* A definition that has the canonical declarations is not changed by giving them to it.
LEMMA CanonicalAgain ==
    ASSUME DOMAIN schema = SchemaFields, schema = [f \in DOMAIN schema |-> schema[f]],
           schema.sourceObjects = CanonicalSources, schema.results = resultSchema,
           schema.assertions = <<>>
    PROVE  Canonical = schema
  <1> DEFINE q == Canonical
  <1>1. /\ DOMAIN q = SchemaFields /\ q = [f \in DOMAIN q |-> q[f]]
        /\ q.sourceObjects = schema.sourceObjects /\ q.results = schema.results
        /\ q.assertions = schema.assertions
        /\ q.parameters = schema.parameters /\ q.timeZone = schema.timeZone
        /\ q.timeout = schema.timeout
    <2> HIDE DEF q
    <2>1. q = Canonical
      BY DEF q
    <2> QED BY <2>1, CanonicalIs
  <1> HIDE DEF q
  <1>2. \A f \in SchemaFields : q[f] = schema[f]
    BY <1>1 DEF SchemaFields
  <1>3. q = schema
    BY <1>1, <1>2
  <1> QED BY <1>3 DEF q

(***************************************************************************)
(* A published report runs the plan that was validated when it was          *)
(* published, and publishing it again changes nothing                       *)
(* (report_object_sql.go 19-46), for any declarations and any metadata.     *)
(***************************************************************************)
THEOREM CanonicalPlanAlwaysUnchanged == PublicationSpec => []CanonicalPlanUnchanged
  <1>1. PublicationInv => CanonicalPlanUnchanged
    <2> SUFFICES ASSUME PublicationInv, published # <<>>, phase = "accepted"
                 PROVE  published = <<plan>> /\ Canonical = schema
      BY DEF CanonicalPlanUnchanged, Republished
    <2>1. PICK N, M, G, O : Replaying(N, M, G, O)
      BY DEF PublicationInv
    <2>2. published = <<plan>> /\ resultSchema = schema.results
      BY <2>1, PlanReplayed DEF PublicationInv, Running, Complete
    <2>3. PICK n, m, g, o : ReadAll(n, m, g, o) /\ Original(n, m, g, o)
      BY AcceptedRead
    <2>4. schema.sourceObjects = CanonicalSources
      <3>1. ObjectsOf(sources) = ObjectsOf(SourcesRead(schema, statement, n))
        BY <2>3, ObjectsFilled
      <3> QED BY <2>3, <3>1 DEF Original, CanonicalSources
    <2>5. /\ DOMAIN schema = SchemaFields /\ schema = [f \in DOMAIN schema |-> schema[f]]
          /\ schema.assertions = <<>>
      BY <2>3 DEF Original
    <2> QED BY <2>2, <2>4, <2>5, CanonicalAgain
  <1> QED BY <1>1, PublicationInvHolds, PTL

(***************************************************************************)
(* The objects a host loads before it compiles are those the compilation    *)
(* binds and the publication names, in the same order                       *)
(* (object_sql_discovery.go 11-14), for any statement that is accepted.     *)
(***************************************************************************)
THEOREM DiscoveryAlwaysAgrees == PublicationSpec => []DiscoveryAgrees
  <1>1. PublicationInv => DiscoveryAgrees
    <2> SUFFICES ASSUME PublicationInv, phase = "accepted"
                 PROVE  /\ DiscoveredSources = CanonicalSources
                        /\ published # <<>> => schema.sourceObjects = DiscoveredSources
      BY DEF DiscoveryAgrees
    <2>1. PICK n, m, g, o : /\ ReadAll(n, m, g, o)
                            /\ StatementFits(schema, statement, n, m, g, o)
                            /\ IsSequence(statement) /\ Len(statement) = n + m + g + o + 6
                            /\ published # <<>> => Original(n, m, g, o)
      BY AcceptedRead
    <2>2. ObjectsOf(sources) = ObjectsOf(SourcesRead(schema, statement, n))
      BY <2>1, ObjectsFilled
    <2>3. /\ \A c \in Elements(Tables) : Discoverable(c.join)
          /\ ObjectsOf(Tables) = ObjectsOf(SourcesRead(schema, statement, n))
      BY <2>1, TablesAreRead
    <2>4. DiscoveredSources = EachOnce(ObjectsOf(Tables))
      BY Zenon, <2>3 DEF DiscoveredSources, Discoverable
    <2>5. DiscoveredSources = CanonicalSources
      BY <2>2, <2>3, <2>4 DEF CanonicalSources
    <2>6. ASSUME published # <<>> PROVE schema.sourceObjects = DiscoveredSources
      BY <2>1, <2>3, <2>4, <2>6 DEF Original
    <2> QED BY <2>5, <2>6
  <1> QED BY <1>1, PublicationInvHolds, PTL

=============================================================================
