------------------------- MODULE JoinExecutionProofs -------------------------
(***************************************************************************)
(* Proofs about accepted plans and the data they run over, for every set of *)
(* objects, metadata, definitions and databases.                            *)
(***************************************************************************)
EXTENDS JoinExecution, TLAPS

\* A sequence that is not empty has a first element.
LEMMA NonEmptySeq ==
    ASSUME NEW S, NEW s \in Seq(S), s # <<>>
    PROVE  Len(s) \in Nat \ {0} /\ DOMAIN s = 1..Len(s)
  OBVIOUS

\* Append adds one element at the end and keeps the others.
LEMMA AppendSeq ==
    ASSUME NEW S, NEW s \in Seq(S), NEW x \in S
    PROVE  /\ Append(s, x) \in Seq(S)
           /\ Len(Append(s, x)) = Len(s) + 1
           /\ Append(s, x)[Len(s) + 1] = x
           /\ \A i \in 1..Len(s) : Append(s, x)[i] = s[i]
  OBVIOUS

(***************************************************************************)
(* The inference answers with a cardinality or with nothing.                *)
(***************************************************************************)
LEMMA InferredValues ==
    ASSUME NEW s, NEW alias, NEW eqs
    PROVE  InferJoinCardinality(s, alias, eqs) \in Cardinalities \cup {""}
  BY DEF InferJoinCardinality, Cardinalities

(***************************************************************************)
(* What type correctness needs beside the types: where the plan is in its   *)
(* life while it runs.                                                      *)
(***************************************************************************)
TypeInv ==
    /\ ExecTypeOK
    /\ phase \in {"select", "accepted"} => sources # <<>>
    /\ step > 0 => phase = "accepted" /\ db \in Databases

\* Before the compilation the plan is empty and well typed.
LEMMA InitTypeInv == ExecInit => TypeInv
  BY DEF ExecInit, Init, TypeInv, ExecTypeOK

\* Every step of the compilation keeps the plan well typed (compileBaseSource,
\* compileSelect, validateAmplification).
LEMMA CompileTypeInv == TypeInv /\ Compile => TypeInv'
<1> SUFFICES ASSUME TypeInv, Compile PROVE TypeInv'
  OBVIOUS
<1> USE DEF TypeInv, ExecTypeOK, Compile, execVars
<1>1. ASSUME NEW object \in Objects, NEW alias \in Aliases, AddRoot(object, alias)
      PROVE  TypeInv'
  <2>1. NoOn \in On
    BY DEF NoOn, On
  <2>2. [object |-> object, alias |-> alias, join |-> "", cardinality |-> "",
         on |-> NoOn] \in Source
    BY <2>1 DEF Source
  <2> DEFINE entry == [object |-> object, alias |-> alias, join |-> "",
                       cardinality |-> "", on |-> NoOn]
  <2>3. sources' = <<entry>> /\ sources = <<>>
    BY <1>1 DEF AddRoot
  <2>4. entry \in Source
    BY <2>2
  <2> HIDE DEF entry
  <2>5. sources' \in Seq(Source) /\ Len(sources') = 1 /\ sources' # <<>>
    BY <2>3, <2>4
  <2>6. step = 0
    BY <2>3
  <2>7. phase = "from" /\ phase' = phase /\ measures' = measures
        /\ step' = step /\ joined' = joined /\ db' = db
    BY <1>1 DEF AddRoot
  <2> QED BY <2>5, <2>6, <2>7
<1>2. ASSUME NEW object \in Objects, NEW alias \in Aliases, NEW join \in JoinTypes,
             NEW on \in OnExpressions, AddJoin(object, alias, join, on)
      PROVE  TypeInv'
  <2> DEFINE entry == [object |-> object, alias |-> alias, join |-> join,
                       cardinality |-> "", on |-> on]
             inferred == InferJoinCardinality(Append(sources, entry), alias, on.eqs)
             joinedEntry == [entry EXCEPT !.cardinality = inferred]
  <2>1. on \in On
    BY JoinPlanAssumption
  <2>2. inferred \in Cardinalities \cup {""}
    BY InferredValues
  <2>3. joinedEntry \in Source
    BY <2>1, <2>2 DEF Source
  <2>4. sources' = Append(sources, joinedEntry) /\ phase = "from" /\ phase' = phase
        /\ measures' = measures
    BY <1>2 DEF AddJoin
  <2> HIDE DEF joinedEntry
  <2>5. sources' \in Seq(Source)
    BY <2>3, <2>4
  <2> QED BY <2>4, <2>5
<1>3. CASE FinishFrom
  BY <1>3 DEF FinishFrom
<1>4. ASSUME NEW projection \in Projections, Project(projection)
      PROVE  TypeInv'
  <2>1. projection \subseteq Measure
    BY JoinPlanAssumption
  <2> QED BY <1>4, <2>1 DEF Project
<1>5. CASE Accept
  BY <1>5 DEF Accept
<1>6. CASE Refuse
  BY <1>6 DEF Refuse
<1> QED BY <1>1, <1>2, <1>3, <1>4, <1>5, <1>6 DEF Next

\* Scanning the root yields one joined row per row of the root object.
LEMMA ScanTypeInv ==
    ASSUME TypeInv, NEW d \in Databases, Scan(d)
    PROVE  TypeInv'
<1>1. sources \in Seq(Source) /\ sources # <<>>
  BY DEF TypeInv, ExecTypeOK, Scan
<1>2. 1 \in DOMAIN sources /\ Len(sources) \in Nat \ {0}
  BY <1>1
<1>3. sources[1].object \in Objects
  <2>1. sources[1] \in Source
    BY <1>1, <1>2
  <2> QED BY <2>1 DEF Source
<1>4. DOMAIN d[sources[1].object] \subseteq Rows
  BY <1>3, JoinExecutionAssumption DEF ConformsTo
<1>5. joined' \subseteq [1..1 -> SourceRow]
  BY <1>4 DEF Scan, SourceRow
<1> QED BY <1>1, <1>2, <1>5 DEF TypeInv, ExecTypeOK, Scan, planVars

\* A join extends a joined row by one position.
LEMMA ExtensionType ==
    ASSUME TypeInv, step \in 1..(Len(sources) - 1),
           NEW row \in joined, NEW longer \in Extensions(row, step + 1)
    PROVE  \E x \in SourceRow :
               /\ longer = Append(row, x)
               /\ longer \in [1..(step + 1) -> SourceRow]
               /\ \A i \in 1..step : longer[i] = row[i]
               /\ longer[step + 1] = x
<1>1. step \in Nat \ {0} /\ row \in [1..step -> SourceRow] /\ db \in Databases
      /\ step + 1 \in DOMAIN sources /\ sources \in Seq(Source)
  BY DEF TypeInv, ExecTypeOK
<1>2. row \in Seq(SourceRow) /\ Len(row) = step
  BY <1>1
<1>3. sources[step + 1].object \in Objects
  <2>1. sources[step + 1] \in Source
    BY <1>1
  <2> QED BY <2>1 DEF Source
<1>4. DOMAIN db[sources[step + 1].object] \subseteq Rows
  BY <1>1, <1>3, JoinExecutionAssumption DEF ConformsTo
<1>5. PICK x \in SourceRow : longer = Append(row, x)
  BY <1>4 DEF Extensions, Matches, SourceRow
<1>6. longer \in Seq(SourceRow) /\ Len(longer) = step + 1 /\ longer[step + 1] = x
      /\ \A i \in 1..step : longer[i] = row[i]
  BY <1>1, <1>2, <1>5
<1>7. longer \in [1..(step + 1) -> SourceRow]
  BY <1>6
<1> QED BY <1>5, <1>6, <1>7

\* Joining the next source keeps every joined row well typed.
LEMMA JoinTypeInv == TypeInv /\ Join => TypeInv'
<1> SUFFICES ASSUME TypeInv, Join PROVE TypeInv'
  OBVIOUS
<1>1. step \in 1..(Len(sources) - 1) /\ Len(sources) \in Nat
  BY DEF Join, TypeInv, ExecTypeOK
<1>2. ASSUME NEW longer \in joined' PROVE longer \in [1..(step + 1) -> SourceRow]
  <2>1. PICK row \in joined : longer \in Extensions(row, step + 1)
    BY <1>2 DEF Join
  <2> QED BY <1>1, <2>1, ExtensionType
<1>3. step' = step + 1 /\ UNCHANGED <<phase, sources, measures, db>>
  BY DEF Join
<1>4. joined' \subseteq [1..step' -> SourceRow]
  BY <1>2, <1>3
<1> QED BY <1>1, <1>3, <1>4 DEF TypeInv, ExecTypeOK

\* TypeInv is inductive.
LEMMA TypeInvStep == TypeInv /\ [ExecNext]_vars => TypeInv'
<1> SUFFICES ASSUME TypeInv, [ExecNext]_vars PROVE TypeInv'
  OBVIOUS
<1>1. CASE UNCHANGED vars
  BY <1>1 DEF TypeInv, ExecTypeOK, vars
<1> QED BY <1>1, CompileTypeInv, ScanTypeInv, JoinTypeInv DEF ExecNext

(***************************************************************************)
(* Type correctness of the plan, its sources and every joined row.          *)
(***************************************************************************)
THEOREM TypeCorrect == ExecSpec => []ExecTypeOK
<1>1. TypeInv => ExecTypeOK
  BY DEF TypeInv
<1> QED BY <1>1, InitTypeInv, TypeInvStep, PTL DEF ExecSpec

-----------------------------------------------------------------------------
(***************************************************************************)
(* aliasOrder: an alias that names one source names its position.           *)
(***************************************************************************)
LEMMA PositionOf ==
    ASSUME NEW s, UniqueAliases(s), NEW i \in DOMAIN s
    PROVE  Position(s, s[i].alias) = i
<1>1. \E k \in DOMAIN s : s[k].alias = s[i].alias
  OBVIOUS
<1>2. Position(s, s[i].alias) \in DOMAIN s
      /\ s[Position(s, s[i].alias)].alias = s[i].alias
  BY <1>1 DEF Position
<1> QED BY <1>2 DEF UniqueAliases

(***************************************************************************)
(* A cardinality that does not fan out is inferred from a key: a unique     *)
(* column of the joined source, equated with one of an earlier source.      *)
(***************************************************************************)
LEMMA InferredKey ==
    ASSUME NEW s \in Seq(Source), s # <<>>, UniqueAliases(s), NEW on \in On,
           Resolves(on, s),
           InferJoinCardinality(s, s[Len(s)].alias, on.eqs)
               \in {"one_to_one", "many_to_one"}
    PROVE  KeyedByOneOf(s, Len(s), on.eqs)
<1> DEFINE n == Len(s)
           alias == s[n].alias
<1>1. n \in DOMAIN s /\ n \in Nat /\ DOMAIN s = 1..n
  OBVIOUS
<1>2. PICK key \in UsableEqualities(s, alias, on.eqs) :
          CardinalityOf(s, key) \in {"one_to_one", "many_to_one"}
  BY DEF InferJoinCardinality
<1>3. FieldUnique(ColumnField(s, key.right))
  BY <1>2 DEF CardinalityOf
<1>4. PICK eq \in on.eqs : key = Oriented(eq, alias)
  BY DEF UsableEqualities
<1>5. key.right.alias = alias /\ Position(s, key.left.alias) < Position(s, alias)
  BY DEF UsableEqualities
<1>6. Position(s, alias) = n
  BY <1>1, PositionOf
<1>7. key \in Orientations(eq) /\ key.left \in OnColumns(on) /\ key.right \in OnColumns(on)
  BY <1>4 DEF Oriented, Orientations, OnColumns
<1>8. key.right.field \in ColumnsOf(s[n].object)
  <2>1. PICK i \in DOMAIN s : s[i].alias = alias /\ key.right.field \in ColumnsOf(s[i].object)
    BY <1>5, <1>7 DEF Resolves
  <2>2. i = n
    BY <1>1, <2>1 DEF UniqueAliases
  <2> QED BY <2>1, <2>2
<1>9. \E i \in 1..(n - 1) : s[i].alias = key.left.alias
  <2>1. PICK i \in DOMAIN s : s[i].alias = key.left.alias
    BY <1>7 DEF Resolves
  <2>2. Position(s, key.left.alias) = i
    BY <2>1, PositionOf
  <2> QED BY <1>1, <1>5, <1>6, <2>1, <2>2
<1>10. FieldUnique(FieldOf(s[n].object, key.right.field))
  BY <1>3, <1>5, <1>6 DEF ColumnField
<1>11. KeyedBy(s, n, key)
  BY <1>5, <1>8, <1>9, <1>10 DEF KeyedBy
<1> QED BY <1>4, <1>7, <1>11 DEF KeyedByOneOf

\* A key of source j depends on the aliases and objects of 1..j alone.
LEMMA KeyedByPrefix ==
    ASSUME NEW s, NEW t, NEW j \in Nat \ {0}, NEW eqs, KeyedByOneOf(s, j, eqs),
           \A i \in 1..j : t[i].alias = s[i].alias /\ t[i].object = s[i].object
    PROVE  KeyedByOneOf(t, j, eqs)
<1>1. \A key : KeyedBy(s, j, key) => KeyedBy(t, j, key)
  BY DEF KeyedBy
<1> QED BY <1>1 DEF KeyedByOneOf

\* A join enters the plan only with a key that backs its cardinality
\* (compileBaseSource, inferJoinCardinality).
LEMMA JoinPlanInv ==
    ASSUME TypeInv, PlanInv,
           NEW object \in Objects, NEW alias \in Aliases, NEW join \in JoinTypes,
           NEW on \in OnExpressions, AddJoin(object, alias, join, on)
    PROVE  PlanInv'
<1> DEFINE entry == [object |-> object, alias |-> alias, join |-> join,
                     cardinality |-> "", on |-> on]
           registered == Append(sources, entry)
           inferred == InferJoinCardinality(registered, alias, on.eqs)
           added == [entry EXCEPT !.cardinality = inferred]
           n == Len(sources)
<1>1. /\ phase = "from" /\ phase' = phase /\ measures' = measures
      /\ sources # <<>>
      /\ alias \notin SourceAliases(sources)
      /\ Resolves(on, registered)
      /\ inferred # ""
      /\ sources' = Append(sources, added)
  BY DEF AddJoin
<1>2. on \in On /\ inferred \in Cardinalities
  BY <1>1, JoinPlanAssumption, InferredValues
<1>3. entry.alias = alias /\ entry.object = object
      /\ added.alias = alias /\ added.object = object
      /\ added.cardinality = inferred /\ added.on = on
  OBVIOUS
<1>4. entry \in Source /\ added \in Source
  BY <1>2 DEF Source, Cardinalities
<1> HIDE DEF entry, added, inferred
<1>5. /\ sources \in Seq(Source) /\ n \in Nat \ {0} /\ DOMAIN sources = 1..n
      /\ registered \in Seq(Source) /\ Len(registered) = n + 1
      /\ registered[n + 1] = entry
      /\ sources' \in Seq(Source) /\ Len(sources') = n + 1
      /\ sources'[n + 1] = added
      /\ \A i \in 1..n : registered[i] = sources[i] /\ sources'[i] = sources[i]
  <2>1. sources \in Seq(Source)
    BY DEF TypeInv, ExecTypeOK
  <2>2. n \in Nat \ {0} /\ DOMAIN sources = 1..n
    BY <1>1, <2>1, NonEmptySeq
  <2>3. /\ registered \in Seq(Source) /\ Len(registered) = n + 1
        /\ registered[n + 1] = entry /\ \A i \in 1..n : registered[i] = sources[i]
    BY <1>4, <2>1, AppendSeq
  <2>4. /\ sources' \in Seq(Source) /\ Len(sources') = n + 1
        /\ sources'[n + 1] = added /\ \A i \in 1..n : sources'[i] = sources[i]
    <3> DEFINE longer == Append(sources, added)
    <3>1. /\ longer \in Seq(Source) /\ Len(longer) = n + 1
          /\ longer[n + 1] = added /\ \A i \in 1..n : longer[i] = sources[i]
      BY <1>4, <2>1, AppendSeq
    <3>2. sources' = longer
      BY <1>1
    <3> HIDE DEF longer, n
    <3> QED BY <3>1, <3>2
  <2> HIDE DEF registered, n
  <2> QED BY <2>1, <2>2, <2>3, <2>4
<1> HIDE DEF registered, n
<1>6. DOMAIN sources' = 1..(n + 1) /\ DOMAIN registered = 1..(n + 1)
      /\ \A i \in 1..(n + 1) : i = n + 1 \/ i \in 1..n
  BY <1>5
<1>7. \A i \in 1..n : sources[i].alias # alias
  BY <1>1, <1>5 DEF SourceAliases
<1>8. UniqueAliases(registered) /\ UniqueAliases(sources')
  <2>1. \A i, k \in 1..n : sources[i].alias = sources[k].alias => i = k
    BY <1>5 DEF UniqueAliases, PlanInv
  <2>2. \A i, k \in 1..(n + 1) : registered[i].alias = registered[k].alias => i = k
    BY <1>3, <1>5, <1>6, <1>7, <2>1
  <2>3. \A i, k \in 1..(n + 1) : sources'[i].alias = sources'[k].alias => i = k
    BY <1>3, <1>5, <1>6, <1>7, <2>1
  <2> QED BY <1>6, <2>2, <2>3 DEF UniqueAliases
<1>9. ASSUME inferred \in {"one_to_one", "many_to_one"}
      PROVE  KeyedByOneOf(sources', n + 1, on.eqs)
  <2>1. inferred = InferJoinCardinality(registered, registered[Len(registered)].alias, on.eqs)
    BY <1>3, <1>5 DEF inferred, registered
  <2>2. registered # <<>>
    BY <1>5
  <2>3. KeyedByOneOf(registered, n + 1, on.eqs)
    BY <1>1, <1>2, <1>5, <1>8, <1>9, <2>1, <2>2, InferredKey, Zenon
  <2>4. \A i \in 1..(n + 1) : sources'[i].alias = registered[i].alias
                              /\ sources'[i].object = registered[i].object
    BY <1>3, <1>5
  <2>5. n + 1 \in Nat \ {0}
    BY <1>5
  <2> QED BY <2>3, <2>4, <2>5, KeyedByPrefix, Zenon
<1>10. ASSUME NEW j \in 1..n, sources[j].cardinality \in {"one_to_one", "many_to_one"}
       PROVE  KeyedByOneOf(sources', j, sources'[j].on.eqs)
  <2>1. KeyedByOneOf(sources, j, sources[j].on.eqs)
    BY <1>5, <1>10 DEF PlanInv
  <2> QED BY <1>5, <2>1, KeyedByPrefix
<1>11. ASSUME NEW j \in 1..(n + 1)
       PROVE  /\ sources'[j].cardinality = "" <=> j = 1
              /\ sources'[j].cardinality \in {"one_to_one", "many_to_one"} =>
                     KeyedByOneOf(sources', j, sources'[j].on.eqs)
  <2>1. CASE j = n + 1
    <3>1. sources'[j].cardinality = inferred /\ sources'[j].on = on /\ j # 1
      BY <1>3, <1>5, <2>1
    <3>2. inferred \in {"one_to_one", "many_to_one"} => KeyedByOneOf(sources', j, on.eqs)
      BY <1>9, <2>1
    <3> QED BY <1>1, <3>1, <3>2
  <2>2. CASE j \in 1..n
    <3>1. sources'[j] = sources[j] /\ j \in DOMAIN sources
      BY <1>5, <2>2
    <3>2. sources[j].cardinality = "" <=> j = 1
      BY <3>1 DEF PlanInv
    <3> QED BY <1>10, <2>2, <3>1, <3>2
  <2> QED BY <1>6, <2>1, <2>2
<1> QED BY <1>1, <1>6, <1>8, <1>11 DEF PlanInv

\* Every step of the compilation keeps PlanInv.
LEMMA CompilePlanInv == TypeInv /\ PlanInv /\ Compile => PlanInv'
<1> SUFFICES ASSUME TypeInv, PlanInv, Compile PROVE PlanInv'
  OBVIOUS
<1>1. ASSUME NEW object \in Objects, NEW alias \in Aliases, AddRoot(object, alias)
      PROVE  PlanInv'
  <2> DEFINE entry == [object |-> object, alias |-> alias, join |-> "",
                       cardinality |-> "", on |-> NoOn]
  <2>1. phase = "from" /\ phase' = phase /\ sources' = <<entry>>
    BY <1>1 DEF AddRoot
  <2>2. entry.cardinality = ""
    OBVIOUS
  <2> HIDE DEF entry
  <2>3. DOMAIN sources' = {1} /\ sources'[1] = entry
    BY <2>1
  <2> QED BY <2>1, <2>2, <2>3 DEF PlanInv, UniqueAliases
<1>2. ASSUME NEW object \in Objects, NEW alias \in Aliases, NEW join \in JoinTypes,
             NEW on \in OnExpressions, AddJoin(object, alias, join, on)
      PROVE  PlanInv'
  BY <1>2, JoinPlanInv
<1>3. CASE FinishFrom
  BY <1>3 DEF FinishFrom, PlanInv
<1>4. ASSUME NEW projection \in Projections, Project(projection)
      PROVE  PlanInv'
  BY <1>4 DEF Project, PlanInv
<1>5. CASE Accept
  BY <1>5 DEF Accept, PlanInv
<1>6. CASE Refuse
  BY <1>6 DEF Refuse, PlanInv
<1> QED BY <1>1, <1>2, <1>3, <1>4, <1>5, <1>6 DEF Next, Compile

\* PlanInv is inductive, relative to TypeInv: running a plan does not change it.
LEMMA PlanInvStep == TypeInv /\ PlanInv /\ [ExecNext]_vars => PlanInv'
<1> SUFFICES ASSUME TypeInv, PlanInv, [ExecNext]_vars PROVE PlanInv'
  OBVIOUS
<1>1. CASE Compile
  BY <1>1, CompilePlanInv
<1>2. CASE UNCHANGED planVars
  BY <1>2 DEF PlanInv, planVars
<1>3. (\E d \in Databases : Scan(d)) \/ Join \/ UNCHANGED vars => UNCHANGED planVars
  BY DEF Scan, Join, vars, planVars
<1> QED BY <1>1, <1>2, <1>3 DEF ExecNext

(***************************************************************************)
(* Every plan under compilation satisfies PlanInv: the key each cardinality *)
(* rests on outlives the sources appended after it.                         *)
(***************************************************************************)
THEOREM PlanAlwaysProven == ExecSpec => []PlanInv
<1>1. ExecInit => PlanInv
  BY DEF ExecInit, Init, PlanInv, UniqueAliases
<1> QED BY <1>1, InitTypeInv, TypeInvStep, PlanInvStep, PTL DEF ExecSpec

-----------------------------------------------------------------------------
(***************************************************************************)
(* A join whose ON requires a key adds at most one row to a joined row: two *)
(* matches hold the same value in a unique column.                          *)
(***************************************************************************)
LEMMA OneMatch ==
    ASSUME TypeInv, PlanInv, step \in 1..(Len(sources) - 1),
           sources[step + 1].cardinality # "one_to_many",
           sources[step + 1].on.form = "and",
           NEW row \in joined,
           NEW x \in Matches(row, step + 1), NEW y \in Matches(row, step + 1)
    PROVE  x = y
<1> DEFINE j == step + 1
           o == sources[j].object
           on == sources[j].on
<1>1. /\ sources \in Seq(Source) /\ j \in DOMAIN sources /\ j # 1
      /\ DOMAIN sources = 1..Len(sources)
      /\ step \in Nat \ {0} /\ row \in [1..step -> SourceRow] /\ db \in Databases
  BY DEF TypeInv, ExecTypeOK
<1>2. sources[j] \in Source
  BY <1>1
<1>3. KeyedByOneOf(sources, j, on.eqs)
  <2>1. sources[j].cardinality \in Cardinalities \cup {""}
    BY <1>2 DEF Source
  <2>2. sources[j].cardinality \in {"one_to_one", "many_to_one"}
    BY <1>1, <2>1 DEF PlanInv, Cardinalities
  <2> QED BY <1>1, <2>2 DEF PlanInv
<1>4. PICK eq \in on.eqs : \E key \in Orientations(eq) : KeyedBy(sources, j, key)
  BY <1>3 DEF KeyedByOneOf
<1>5. PICK key \in Orientations(eq) : KeyedBy(sources, j, key)
  BY <1>4
<1>6. PICK i \in 1..step : sources[i].alias = key.left.alias
  BY <1>1, <1>5 DEF KeyedBy
<1>7. i \in DOMAIN sources /\ Position(sources, key.left.alias) = i
      /\ Position(sources, key.right.alias) = j
  <2>1. i \in DOMAIN sources
    BY <1>1
  <2>2. UniqueAliases(sources) /\ sources[j].alias = key.right.alias
    BY <1>5 DEF PlanInv, KeyedBy
  <2> QED BY <1>1, <1>6, <2>1, <2>2, PositionOf
<1>8. o \in Objects /\ ConformsTo(db, o)
  BY <1>1, <1>2, JoinExecutionAssumption DEF Source
<1>9. ASSUME NEW z \in Matches(row, j)
      PROVE  /\ z \in DOMAIN db[o]
             /\ db[o][z][key.right.field] # Null
             /\ db[o][z][key.right.field] = Cell(row, key.left)
  <2> DEFINE longer == Append(row, z)
  <2>1. z \in DOMAIN db[o] /\ OnHolds(on, longer)
    BY <1>9 DEF Matches
  <2>2. z \in SourceRow /\ z # Null
    BY <1>8, <2>1, JoinExecutionAssumption DEF ConformsTo, SourceRow
  <2>3. row \in Seq(SourceRow) /\ Len(row) = step
    BY <1>1
  <2>4. longer[j] = z /\ longer[i] = row[i]
    BY <2>2, <2>3, <1>1, AppendSeq
  <2> HIDE DEF longer
  <2>5. EqHolds(eq, longer)
    BY <1>4, <2>1 DEF OnHolds
  <2>6. EqHolds(key, longer)
    BY <1>5, <2>5 DEF EqHolds, Comparable, Orientations
  <2>7. Cell(longer, key.right) = db[o][z][key.right.field]
    BY <1>7, <2>2, <2>4 DEF Cell
  <2>8. Cell(longer, key.left) = Cell(row, key.left)
    BY <1>7, <2>4 DEF Cell
  <2> QED BY <2>1, <2>6, <2>7, <2>8 DEF EqHolds, Comparable
<1>10. FieldUnique(FieldOf(o, key.right.field)) /\ key.right.field \in ColumnsOf(o)
  BY <1>5 DEF KeyedBy
<1> QED BY <1>8, <1>9, <1>10 DEF ConformsTo

\* A join of a proven cardinality keeps joined rows identified by the rows of
\* the sources before it.
LEMMA JoinPrefix ==
    ASSUME TypeInv, PlanInv, PrefixDetermines, Join
    PROVE  PrefixDetermines'
<1>1. /\ step \in 1..(Len(sources) - 1) /\ step' = step + 1 /\ step \in Nat \ {0}
      /\ sources' = sources /\ Len(sources) \in Nat
      /\ joined' = UNION {Extensions(row, step + 1) : row \in joined}
      /\ joined \subseteq [1..step -> SourceRow]
  BY DEF Join, TypeInv, ExecTypeOK
<1> SUFFICES ASSUME ConjunctiveJoins, NEW g \in 1..(step + 1),
                    \A j \in (g + 1)..(step + 1) : sources[j].cardinality # "one_to_many",
                    NEW t1 \in joined', NEW u1 \in joined',
                    Agree(t1, u1, g)
             PROVE  t1 = u1
  BY <1>1 DEF PrefixDetermines, NoFanOutAfter, ConjunctiveJoins
<1>2. PICK t \in joined : t1 \in Extensions(t, step + 1)
  BY <1>1
<1>3. PICK u \in joined : u1 \in Extensions(u, step + 1)
  BY <1>1
<1>4. PICK x \in SourceRow :
          /\ t1 = Append(t, x) /\ t1 \in [1..(step + 1) -> SourceRow]
          /\ \A i \in 1..step : t1[i] = t[i]
          /\ t1[step + 1] = x
  BY <1>1, <1>2, ExtensionType
<1>5. PICK y \in SourceRow :
          /\ u1 = Append(u, y) /\ u1 \in [1..(step + 1) -> SourceRow]
          /\ \A i \in 1..step : u1[i] = u[i]
          /\ u1[step + 1] = y
  BY <1>1, <1>3, ExtensionType
<1>6. CASE g = step + 1
  BY <1>4, <1>5, <1>6 DEF Agree
<1>7. CASE g \in 1..step
  <2>1. Agree(t, u, g)
    BY <1>1, <1>4, <1>5, <1>7 DEF Agree
  <2>2. NoFanOutAfter(g)
    BY <1>1, <1>7 DEF NoFanOutAfter
  <2>3. t = u
    BY <1>7, <2>1, <2>2 DEF PrefixDetermines
  <2>4. sources[step + 1].cardinality # "one_to_many"
        /\ sources[step + 1].on.form = "and"
    BY <1>1, <1>7 DEF ConjunctiveJoins
  <2>5. \A r, s \in Matches(t, step + 1) : r = s
    BY <1>1, <2>4, OneMatch
  <2> QED BY <1>2, <1>3, <2>3, <2>5 DEF Extensions
<1> QED BY <1>1, <1>6, <1>7

\* While the plan is compiled no row has been read.
LEMMA NoRowsBeforeScan ==
    ASSUME TypeInv, Compile, PrefixDetermines
    PROVE  PrefixDetermines'
<1>1. step' = step /\ step \in Nat /\ (step > 0 => phase = "accepted")
  BY DEF Compile, execVars, TypeInv, ExecTypeOK
<1>2. phase # "accepted"
  BY DEF Compile, Next, AddRoot, AddJoin, FinishFrom, Project, Accept, Refuse
<1>3. 1..step' = {}
  BY <1>1, <1>2
<1> QED BY <1>3 DEF PrefixDetermines

\* The rows of the root identify themselves.
LEMMA ScanPrefix ==
    ASSUME NEW d \in Databases, Scan(d)
    PROVE  PrefixDetermines'
<1>1. step' = 1 /\ joined' = {<<r>> : r \in DOMAIN d[sources[1].object]}
  BY DEF Scan
<1> SUFFICES ASSUME NEW g \in 1..1, NEW t \in joined', NEW u \in joined', Agree(t, u, g)
             PROVE  t = u
  BY <1>1 DEF PrefixDetermines
<1> QED BY <1>1 DEF Agree

ExecInv == TypeInv /\ PlanInv /\ PrefixDetermines

\* The inductive invariant: types, the key behind every cardinality, and what
\* identifies a joined row.
THEOREM ExecInvHolds == ExecSpec => []ExecInv
<1>1. ExecInit => ExecInv
  <2>1. ExecInit => PlanInv /\ PrefixDetermines
    BY DEF ExecInit, Init, PlanInv, UniqueAliases, PrefixDetermines
  <2> QED BY <2>1, InitTypeInv DEF ExecInv
<1>2. ExecInv /\ [ExecNext]_vars => ExecInv'
  <2> SUFFICES ASSUME ExecInv, [ExecNext]_vars PROVE ExecInv'
    OBVIOUS
  <2>1. TypeInv' /\ PlanInv'
    BY TypeInvStep, PlanInvStep DEF ExecInv
  <2>2. CASE Compile
    BY <2>1, <2>2, NoRowsBeforeScan DEF ExecInv
  <2>3. ASSUME NEW d \in Databases, Scan(d) PROVE ExecInv'
    BY <2>1, <2>3, ScanPrefix DEF ExecInv
  <2>4. CASE Join
    BY <2>1, <2>4, JoinPrefix DEF ExecInv
  <2>5. CASE UNCHANGED vars
    <3>1. PrefixDetermines'
      BY <2>5 DEF ExecInv, PrefixDetermines, ConjunctiveJoins, NoFanOutAfter, vars
    <3> QED BY <2>1, <3>1 DEF ExecInv
  <2> QED BY <2>2, <2>3, <2>4, <2>5 DEF ExecNext
<1> QED BY <1>1, <1>2, PTL DEF ExecSpec

(***************************************************************************)
(* Joins of a proven cardinality never repeat the rows joined before them.  *)
(***************************************************************************)
THEOREM JoinsKeepRows == ExecSpec => []PrefixDetermines
<1>1. ExecInv => PrefixDetermines
  BY DEF ExecInv
<1> QED BY <1>1, ExecInvHolds, PTL

(***************************************************************************)
(* An accepted plan has no fanning join after the source of a measure, so   *)
(* its rows are those of a prefix, and they are not repeated.               *)
(***************************************************************************)
LEMMA AcceptedMeasures ==
    ASSUME ExecInv
    PROVE  MeasureGrain /\ CountGrain
<1>1. ASSUME step > 0, step = Len(sources), ConjunctiveJoins
      PROVE  /\ DOMAIN sources = 1..step /\ step \in Nat \ {0}
             /\ \A m \in measures : ~Amplified(sources, m)
             /\ \A g \in 1..step : NoFanOutAfter(g) =>
                    \A t, u \in joined : Agree(t, u, g) => t = u
  <2>1. TypeInv /\ PlanInv /\ PrefixDetermines
    BY DEF ExecInv
  <2>2. sources \in Seq(Source) /\ step \in Nat \ {0} /\ phase = "accepted"
    BY <1>1, <2>1 DEF TypeInv, ExecTypeOK
  <2>3. DOMAIN sources = 1..step
    BY <1>1, <2>2
  <2>4. \A m \in measures : ~Amplified(sources, m)
    BY <2>1, <2>2 DEF PlanInv
  <2> QED BY <1>1, <2>1, <2>2, <2>3, <2>4 DEF PrefixDetermines
<1>2. MeasureGrain
  <2> SUFFICES ASSUME step > 0, step = Len(sources), ConjunctiveJoins,
                      NEW m \in measures, NEW g \in 1..step,
                      ~AmplificationExempt(m), sources[g].alias \in m.aliases
               PROVE  NoFanOutAfter(g)
    BY <1>1 DEF MeasureGrain
  <2> QED BY <1>1 DEF Amplified, NoFanOutAfter
<1>3. CountGrain
  <2> SUFFICES ASSUME step > 0, step = Len(sources), ConjunctiveJoins,
                      NEW m \in measures, m.name = "count", ~m.distinct,
                      m.aliases = {}
               PROVE  NoFanOutAfter(1)
    BY <1>1 DEF CountGrain
  <2>1. ~AmplificationExempt(m)
    BY DEF AmplificationExempt
  <2> QED BY <1>1, <2>1 DEF Amplified, NoFanOutAfter
<1> QED BY <1>2, <1>3

(***************************************************************************)
(* The sums, averages and counts of columns of an accepted plan see every   *)
(* combination of the rows of the sources up to their own at most once      *)
(* (object_sql_cardinality.go 99-131).                                      *)
(***************************************************************************)
THEOREM MeasuresNotAmplified == ExecSpec => []MeasureGrain
<1>1. ExecInv => MeasureGrain
  BY AcceptedMeasures
<1> QED BY <1>1, ExecInvHolds, PTL

(***************************************************************************)
(* COUNT over no column counts every row of the root at most once           *)
(* (object_sql_cardinality.go 113-118).                                     *)
(***************************************************************************)
THEOREM CountsNotAmplified == ExecSpec => []CountGrain
<1>1. ExecInv => CountGrain
  BY AcceptedMeasures
<1> QED BY <1>1, ExecInvHolds, PTL

=============================================================================
