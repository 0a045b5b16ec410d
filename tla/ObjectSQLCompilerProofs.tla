------------------------ MODULE ObjectSQLCompilerProofs ------------------------
(***************************************************************************)
(* What holds of every compilation, for any declarations, any metadata and  *)
(* any statement: no declaration of an author is ignored, the finished plan *)
(* is typed, closed and ordered, and the compiler implements JoinPlan.      *)
(*                                                                          *)
(* Facts about sequences come first, then DeclarationInv, CompilerInv and   *)
(* the refinement, each with a lemma per action that disturbs it.           *)
(***************************************************************************)
EXTENDS ObjectSQLCompiler, ObjectSQLExpressionProofs

(***************************************************************************)
(* Sequences whose elements have no type of their own: s is one of its own  *)
(* elements.                                                                *)
(***************************************************************************)
IsSequence(s) == s \in Seq(Elements(s))

LEMMA Extended ==
    ASSUME NEW s, IsSequence(s), NEW e
    PROVE  /\ IsSequence(Append(s, e))
           /\ Len(s) \in Nat /\ DOMAIN s = 1..Len(s)
           /\ Len(Append(s, e)) = Len(s) + 1
           /\ DOMAIN Append(s, e) = 1..(Len(s) + 1)
           /\ \A i \in 1..Len(s) : Append(s, e)[i] = s[i]
           /\ Append(s, e)[Len(s) + 1] = e
  <1> DEFINE S == Elements(s) \cup {e}
             t == Append(s, e)
  <1>1. s \in Seq(S) /\ e \in S
    BY DEF IsSequence
  <1> HIDE DEF S
  <1>2. /\ t \in Seq(S) /\ Len(s) \in Nat /\ DOMAIN s = 1..Len(s)
        /\ Len(t) = Len(s) + 1 /\ DOMAIN t = 1..(Len(s) + 1)
        /\ \A i \in 1..Len(s) : t[i] = s[i]
        /\ t[Len(s) + 1] = e
    BY <1>1
  <1>3. t \in Seq(Elements(t))
    BY <1>2 DEF Elements
  <1> QED BY <1>2, <1>3 DEF IsSequence

-----------------------------------------------------------------------------
(***************************************************************************)
(* The invariant: what each declaration has become so far, and from which   *)
(* phase on it has been compared with all of the statement.                 *)
(***************************************************************************)
FromRead == phase \notin {"metadata", "parse", "from", "refused"}
SelectRead == FromRead /\ phase # "select"

SourceShapes ==
    \A i \in DOMAIN sources :
        DOMAIN sources[i] = {"object", "alias", "join", "cardinality", "on", "fields"}

CardinalitiesAsserted ==
    \A a \in Elements(schema.assertions), i \in 2..Len(sources) :
        sources[i].alias = a.alias => sources[i].cardinality = a.cardinality

ObjectsUsed ==
    DeclaredObjects # {} =>
        DeclaredObjects = {sources[i].object : i \in DOMAIN sources}

AssertionsUsed ==
    \A a \in Elements(schema.assertions) :
        \E i \in 2..Len(sources) : sources[i].alias = a.alias

ResultsTyped ==
    /\ \A i \in DOMAIN projections : resultSchema[i].key = projections[i].alias
    /\ \A r \in Elements(schema.results), i \in DOMAIN projections :
           projections[i].alias = r.key =>
               r.type \in {"", resultSchema[i].type} /\ r.kind \in {"", resultSchema[i].kind}

ResultsSelected ==
    \A r \in Elements(schema.results) :
        \E i \in DOMAIN projections : projections[i].alias = r.key

SourcesInv ==
    /\ IsSequence(sources)
    /\ SourceShapes
    /\ CardinalitiesAsserted
    /\ FromRead => ObjectsUsed /\ AssertionsUsed

ResultsInv ==
    /\ IsSequence(projections) /\ IsSequence(resultSchema)
    /\ Len(projections) = Len(resultSchema)
    /\ ResultsTyped
    /\ SelectRead => ResultsSelected

DeclarationInv ==
    /\ schema \in Schemas
    /\ phase \notin {"metadata", "refused"} => ValidDeclarations
    /\ SourcesInv
    /\ ResultsInv

-----------------------------------------------------------------------------
(***************************************************************************)
(* The invariant at the end of a compilation.                               *)
(***************************************************************************)
LEMMA AssertedIs ==
    ASSUME ValidDeclarations, NEW a \in Elements(schema.assertions)
    PROVE  AssertedCardinality(a.alias) = a.cardinality /\ a.cardinality # ""
  <1>1. \A b \in Elements(schema.assertions) : b.alias = a.alias => b = a
    <2> DEFINE A == schema.assertions
               names == [i \in DOMAIN A |-> A[i].alias]
    <2>1. Distinct(names)
      BY Zenon DEF ValidDeclarations
    <2>2. \A i, k \in DOMAIN A : A[i].alias = A[k].alias => i = k
      BY <2>1 DEF Distinct
    <2> QED BY <2>2 DEF Elements
  <1>2. a.cardinality # ""
    <2>1. a.cardinality \in Cardinalities
      <3>1. \A b \in Elements(schema.assertions) : b.cardinality \in Cardinalities
        BY Zenon DEF ValidDeclarations
      <3> QED BY <3>1
    <2> QED BY <2>1 DEF Cardinalities
  <1> QED BY <1>1, <1>2 DEF AssertedCardinality

LEMMA AuthoredIs ==
    ASSUME ValidDeclarations, NEW r \in Elements(schema.results)
    PROVE  AuthoredResult(r.key) = r
  <1>1. \A q \in Elements(schema.results) : q.key = r.key => q = r
    <2> DEFINE R == schema.results
    <2>1. Distinct(Keys(R))
      BY Zenon DEF ValidDeclarations
    <2>2. \A i, k \in DOMAIN R : R[i].key = R[k].key => i = k
      BY <2>1 DEF Distinct, Keys
    <2> QED BY <2>2 DEF Elements
  <1> QED BY <1>1 DEF AuthoredResult

LEMMA InvGivesDeclarations == DeclarationInv => DeclarationsHold
  <1> SUFFICES ASSUME DeclarationInv, phase = "accepted"
               PROVE  /\ DeclaredObjects # {} =>
                             DeclaredObjects = {s.object : s \in Elements(sources)}
                      /\ \A a \in Elements(schema.assertions) :
                             \E i \in 2..Len(sources) :
                                 /\ sources[i].alias = a.alias
                                 /\ sources[i].cardinality = a.cardinality
                      /\ \A r \in Elements(schema.results) :
                             \E i \in DOMAIN projections :
                                 /\ projections[i].alias = r.key /\ resultSchema[i].key = r.key
                                 /\ r.type \in {"", resultSchema[i].type}
                                 /\ r.kind \in {"", resultSchema[i].kind}
    BY DEF DeclarationsHold
  <1>1. /\ ValidDeclarations /\ ObjectsUsed /\ AssertionsUsed /\ CardinalitiesAsserted
        /\ ResultsTyped /\ ResultsSelected
    BY DEF DeclarationInv, SourcesInv, ResultsInv, FromRead, SelectRead
  <1>2. {s.object : s \in Elements(sources)} = {sources[i].object : i \in DOMAIN sources}
    BY DEF Elements
  <1>3. ASSUME NEW a \in Elements(schema.assertions)
        PROVE  \E i \in 2..Len(sources) :
                   sources[i].alias = a.alias /\ sources[i].cardinality = a.cardinality
    <2>1. PICK i \in 2..Len(sources) : sources[i].alias = a.alias
      BY <1>1 DEF AssertionsUsed
    <2> QED BY <1>1, <2>1 DEF CardinalitiesAsserted
  <1>4. ASSUME NEW r \in Elements(schema.results)
        PROVE  \E i \in DOMAIN projections :
                   /\ projections[i].alias = r.key /\ resultSchema[i].key = r.key
                   /\ r.type \in {"", resultSchema[i].type}
                   /\ r.kind \in {"", resultSchema[i].kind}
    <2>1. PICK i \in DOMAIN projections : projections[i].alias = r.key
      BY <1>1 DEF ResultsSelected
    <2> QED BY <1>1, <2>1 DEF ResultsTyped
  <1> QED BY <1>1, <1>2, <1>3, <1>4 DEF ObjectsUsed

-----------------------------------------------------------------------------
(***************************************************************************)
(* The steps that read a table.                                             *)
(***************************************************************************)
LEMMA SchemaTables ==
    ASSUME schema' = schema
    PROVE  /\ ValidDeclarations' = ValidDeclarations
           /\ DeclaredObjects' = DeclaredObjects
  BY DEF ValidDeclarations, ValidTimeout, DeclaredObjects

LEMMA RootStep ==
    ASSUME DeclarationInv, NEW object, NEW alias, CompileRoot(object, alias),
           phase' # "refused"
    PROVE  DeclarationInv'
  <1> DEFINE s == Source(object, alias, "", "", Blank)
  <1>1. /\ phase = "from" /\ sources' = <<s>>
        /\ UNCHANGED <<phase, schema, projections, resultSchema>>
    BY DEF CompileRoot, Refuse
  <1>2. DOMAIN s = {"object", "alias", "join", "cardinality", "on", "fields"}
    BY DEF Source
  <1> HIDE DEF s
  <1>3. IsSequence(<<s>>) /\ Len(<<s>>) = 1 /\ DOMAIN <<s>> = 1..1 /\ <<s>>[1] = s
    BY DEF IsSequence, Elements
  <1>4. SourcesInv'
    BY <1>1, <1>2, <1>3 DEF SourcesInv, SourceShapes, CardinalitiesAsserted, FromRead
  <1>5. ResultsInv'
    BY <1>1, SchemaTables DEF DeclarationInv, ResultsInv, ResultsTyped, ResultsSelected, SelectRead, FromRead
  <1> QED BY <1>1, <1>4, <1>5, SchemaTables DEF DeclarationInv

LEMMA JoinStep ==
    ASSUME DeclarationInv, NEW object, NEW alias, NEW join, NEW tree,
           CompileJoin(object, alias, join, tree), phase' # "refused"
    PROVE  DeclarationInv'
  <1> DEFINE registered == Append(sources, Source(object, alias, join, "", Blank))
             on == Compiled(registered, tree)
             inferred == InferJoinCardinality(registered, alias, on.eqs)
             s == Source(object, alias, join, inferred, on)
  <1>1. /\ phase = "from" /\ sources' = Append(sources, s)
        /\ AssertedCardinality(alias) \in {"", inferred}
        /\ UNCHANGED <<phase, schema, projections, resultSchema>>
    BY Zenon DEF CompileJoin, Refuse
  <1>2. /\ DOMAIN s = {"object", "alias", "join", "cardinality", "on", "fields"}
        /\ s.alias = alias /\ s.cardinality = inferred
    BY DEF Source
  <1> HIDE DEF inferred, s
  <1>3. IsSequence(sources)
    BY DEF DeclarationInv, SourcesInv
  <1>4. /\ DOMAIN sources = 1..Len(sources) /\ Len(sources) \in Nat
        /\ DOMAIN sources' = 1..(Len(sources) + 1) /\ Len(sources') = Len(sources) + 1
        /\ \A i \in 1..Len(sources) : sources'[i] = sources[i]
        /\ sources'[Len(sources) + 1] = s
        /\ IsSequence(sources')
    <2>1. sources' = Append(sources, s)
      BY <1>1
    <2> QED BY ONLY <1>3, <2>1, Extended
  <1>5. SourcesInv'
    <2>1. SourceShapes'
      <3> SUFFICES ASSUME NEW i \in 1..(Len(sources) + 1)
                   PROVE  DOMAIN sources'[i] =
                              {"object", "alias", "join", "cardinality", "on", "fields"}
        BY <1>4 DEF SourceShapes
      <3>1. CASE i \in 1..Len(sources)
        BY <1>4, <3>1 DEF DeclarationInv, SourcesInv, SourceShapes
      <3>2. CASE i = Len(sources) + 1
        BY <1>2, <1>4, <3>2
      <3> QED BY <1>4, <3>1, <3>2
    <2>2. CardinalitiesAsserted'
      <3> SUFFICES ASSUME NEW a \in Elements(schema.assertions), NEW i \in 2..(Len(sources) + 1),
                          sources'[i].alias = a.alias
                   PROVE  sources'[i].cardinality = a.cardinality
        BY <1>1, <1>4 DEF CardinalitiesAsserted
      <3>1. CASE i \in 2..Len(sources)
        BY <1>4, <3>1 DEF DeclarationInv, SourcesInv, CardinalitiesAsserted
      <3>2. CASE i = Len(sources) + 1
        <4>1. AssertedCardinality(a.alias) = a.cardinality /\ a.cardinality # ""
          BY <1>1, AssertedIs DEF DeclarationInv
        <4> QED BY <1>1, <1>2, <1>4, <3>2, <4>1
      <3> QED BY <1>4, <3>1, <3>2
    <2> QED BY <1>1, <1>4, <2>1, <2>2 DEF SourcesInv, FromRead
  <1>6. ResultsInv'
    BY <1>1, SchemaTables DEF DeclarationInv, ResultsInv, ResultsTyped, ResultsSelected, SelectRead, FromRead
  <1> QED BY <1>1, <1>5, <1>6, SchemaTables DEF DeclarationInv

LEMMA FinishSourcesStep ==
    ASSUME DeclarationInv, FinishSources, phase' # "refused"
    PROVE  DeclarationInv'
  <1>1. /\ phase = "from" /\ phase' = "select" /\ sources # <<>>
        /\ AssertionsNameJoins
        /\ DeclaredObjects # {} => {s.object : s \in Elements(sources)} = DeclaredObjects
        /\ UNCHANGED <<schema, sources, projections, resultSchema>>
    BY DEF FinishSources, Refuse, plan
  <1>2. IsSequence(sources)
    BY DEF DeclarationInv, SourcesInv
  <1>3. ObjectsUsed
    BY <1>1 DEF ObjectsUsed, Elements
  <1>4. AssertionsUsed
    <2> SUFFICES ASSUME NEW a \in Elements(schema.assertions)
                 PROVE  \E i \in 2..Len(sources) : sources[i].alias = a.alias
      BY DEF AssertionsUsed
    <2>1. a.alias \in SourceAliases(Tail(sources))
      BY <1>1 DEF AssertionsNameJoins
    <2>2. PICK k \in DOMAIN Tail(sources) : Tail(sources)[k].alias = a.alias
      BY <2>1 DEF SourceAliases
    <2>3. /\ Len(sources) \in Nat \ {0} /\ DOMAIN Tail(sources) = 1..(Len(sources) - 1)
          /\ Tail(sources)[k] = sources[k + 1]
      BY <1>1, <1>2, <2>2 DEF IsSequence
    <2>4. k + 1 \in 2..Len(sources)
      BY <2>2, <2>3
    <2> QED BY <2>2, <2>3, <2>4
  <1>5. ObjectsUsed' /\ AssertionsUsed' /\ SourceShapes' /\ CardinalitiesAsserted'
    BY <1>1, <1>3, <1>4, SchemaTables
    DEF DeclarationInv, SourcesInv, ObjectsUsed, AssertionsUsed, SourceShapes, CardinalitiesAsserted
  <1>6. ResultsInv'
    BY <1>1, SchemaTables DEF DeclarationInv, ResultsInv, ResultsTyped, ResultsSelected, SelectRead, FromRead
  <1> QED BY <1>1, <1>2, <1>5, <1>6, SchemaTables DEF DeclarationInv, SourcesInv

-----------------------------------------------------------------------------
(***************************************************************************)
(* The steps that read a projection.                                        *)
(***************************************************************************)
ResultFields == {"key", "type", "kind", "prec", "scale"}

LEMMA TypedResultKeeps ==
    ASSUME NEW r, DOMAIN r = ResultFields, NEW x
    PROVE  /\ TypedResult(r, x).key = r.key
           /\ r.type \in {"", TypedResult(r, x).type}
           /\ r.kind \in {"", TypedResult(r, x).kind}
  <1> DEFINE typed == IF r.type = "" THEN TypedLike(r, x) ELSE r
  <1>1. /\ DOMAIN typed = ResultFields /\ typed.key = r.key
        /\ r.type \in {"", typed.type} /\ typed.kind = r.kind
    BY DEF TypedLike, TypedAs, ResultFields
  <1> HIDE DEF typed
  <1>2. \A k, p, c : LET t == [typed EXCEPT !.kind = k, !.prec = p, !.scale = c]
                     IN  t.key = typed.key /\ t.type = typed.type /\ t.kind = k
    BY <1>1 DEF ResultFields
  <1>3. \E k, p, c :
            /\ TypedResult(r, x) = [typed EXCEPT !.kind = k, !.prec = p, !.scale = c]
            /\ k = IF typed.kind = "" THEN IF x.measures = {} THEN "dimension" ELSE "measure"
                   ELSE typed.kind
    <2> DEFINE fills == typed.type \in {"decimal", "currency"} /\ x.prec > 0
               k0 == IF typed.kind = "" THEN IF x.measures = {} THEN "dimension" ELSE "measure"
                     ELSE typed.kind
               p0 == IF fills /\ typed.prec = 0 THEN x.prec ELSE typed.prec
               c0 == IF fills /\ typed.scale = 0 THEN x.scale ELSE typed.scale
    <2>1. TypedResult(r, x) = [typed EXCEPT !.kind = k0, !.prec = p0, !.scale = c0]
      BY DEF TypedResult, typed
    <2> HIDE DEF p0, c0
    <2> QED BY <2>1
  <1>4. PICK k, p, c :
            /\ TypedResult(r, x) = [typed EXCEPT !.kind = k, !.prec = p, !.scale = c]
            /\ k = IF typed.kind = "" THEN IF x.measures = {} THEN "dimension" ELSE "measure"
                   ELSE typed.kind
    BY <1>3
  <1>5. /\ TypedResult(r, x).key = typed.key /\ TypedResult(r, x).type = typed.type
        /\ TypedResult(r, x).kind = k
    <2> DEFINE t == [typed EXCEPT !.kind = k, !.prec = p, !.scale = c]
    <2>1. t.key = typed.key /\ t.type = typed.type /\ t.kind = k
      BY <1>2
    <2> HIDE DEF t
    <2>2. TypedResult(r, x) = t
      BY <1>4 DEF t
    <2> QED BY ONLY <2>1, <2>2
  <1>6. typed.kind \in {"", k}
    BY ONLY <1>4
  <1> QED BY ONLY <1>1, <1>5, <1>6

LEMMA AuthoredFields ==
    ASSUME schema \in Schemas, NEW alias
    PROVE  DOMAIN AuthoredResult(alias) = ResultFields /\ AuthoredResult(alias).key = alias
  <1>1. CASE \E r \in Elements(schema.results) : r.key = alias
    <2>1. AuthoredResult(alias) \in Elements(schema.results) /\ AuthoredResult(alias).key = alias
      BY <1>1 DEF AuthoredResult
    <2> QED BY <2>1, SchemaAssumption DEF ResultFields
  <1>2. CASE ~\E r \in Elements(schema.results) : r.key = alias
    BY <1>2 DEF AuthoredResult, ResultFields
  <1> QED BY <1>1, <1>2

LEMMA ProjectionStep ==
    ASSUME DeclarationInv, NEW alias, NEW tree, CompileProjection(alias, tree),
           phase' # "refused"
    PROVE  DeclarationInv'
  <1> DEFINE x == Compiled(sources, tree)
             p == [alias |-> alias, x |-> x, tree |-> tree]
             typed == TypedResult(AuthoredResult(alias), x)
  <1>1. /\ phase = "select" /\ projections' = Append(projections, p)
        /\ resultSchema' = Append(resultSchema, typed)
        /\ UNCHANGED <<phase, schema, sources>>
    BY Zenon DEF CompileProjection, Refuse
  <1>2. p.alias = alias
    OBVIOUS
  <1>3. /\ typed.key = alias
        /\ AuthoredResult(alias).type \in {"", typed.type}
        /\ AuthoredResult(alias).kind \in {"", typed.kind}
    BY AuthoredFields, TypedResultKeeps DEF DeclarationInv
  <1> HIDE DEF p, typed
  <1>4. /\ IsSequence(projections) /\ IsSequence(resultSchema)
        /\ Len(projections) = Len(resultSchema)
    BY DEF DeclarationInv, ResultsInv
  <1> DEFINE n == Len(projections)
  <1>5. /\ n \in Nat /\ DOMAIN projections = 1..n /\ DOMAIN projections' = 1..(n + 1)
        /\ Len(projections') = n + 1 /\ IsSequence(projections')
        /\ \A i \in 1..n : projections'[i] = projections[i]
        /\ projections'[n + 1] = p
    <2>1. projections' = Append(projections, p)
      BY <1>1
    <2> QED BY ONLY <1>4, <2>1, Extended
  <1>6. /\ Len(resultSchema') = n + 1 /\ IsSequence(resultSchema')
        /\ \A i \in 1..n : resultSchema'[i] = resultSchema[i]
        /\ resultSchema'[n + 1] = typed
    <2>1. resultSchema' = Append(resultSchema, typed)
      BY <1>1
    <2> QED BY ONLY <1>4, <2>1, Extended
  <1> HIDE DEF n
  <1>7. ResultsTyped'
    <2> SUFFICES ASSUME NEW i \in 1..(n + 1)
                 PROVE  /\ resultSchema'[i].key = projections'[i].alias
                        /\ \A r \in Elements(schema.results) :
                               projections'[i].alias = r.key =>
                                   /\ r.type \in {"", resultSchema'[i].type}
                                   /\ r.kind \in {"", resultSchema'[i].kind}
      BY <1>1, <1>5 DEF ResultsTyped
    <2>1. CASE i \in 1..n
      BY <1>5, <1>6, <2>1 DEF DeclarationInv, ResultsInv, ResultsTyped
    <2>2. CASE i = n + 1
      <3>1. \A r \in Elements(schema.results) : alias = r.key => AuthoredResult(alias) = r
        BY <1>1, AuthoredIs DEF DeclarationInv
      <3> QED BY <1>2, <1>3, <1>5, <1>6, <2>2, <3>1
    <2>3. i \in 1..n \/ i = n + 1
      <3>1. n \in Nat
        BY <1>5
      <3> QED BY ONLY <3>1, i \in 1..(n + 1)
    <2> QED BY Zenon, <2>1, <2>2, <2>3
  <1>8. ResultsInv'
    BY <1>1, <1>5, <1>6, <1>7 DEF ResultsInv, SelectRead
  <1>9. SourcesInv'
    BY <1>1, SchemaTables
    DEF DeclarationInv, SourcesInv, SourceShapes, CardinalitiesAsserted, FromRead, ObjectsUsed,
        AssertionsUsed
  <1> QED BY <1>1, <1>8, <1>9, SchemaTables DEF DeclarationInv

LEMMA FinishProjectionsStep ==
    ASSUME DeclarationInv, FinishProjections, phase' # "refused"
    PROVE  DeclarationInv'
  <1>1. /\ phase = "select" /\ phase' = "where"
        /\ {r.key : r \in Elements(schema.results)} \subseteq DOMAIN ProjectionByAlias
        /\ UNCHANGED <<schema, sources, projections, resultSchema>>
    BY DEF FinishProjections, Refuse, plan
  <1>2. DOMAIN ProjectionByAlias = {projections[i].alias : i \in DOMAIN projections}
    BY DEF ProjectionByAlias, Elements
  <1>3. ResultsSelected
    BY <1>1, <1>2 DEF ResultsSelected
  <1>4. ResultsInv'
    BY <1>1, <1>3 DEF DeclarationInv, ResultsInv, ResultsTyped, ResultsSelected
  <1>5. SourcesInv'
    BY <1>1, SchemaTables
    DEF DeclarationInv, SourcesInv, SourceShapes, CardinalitiesAsserted, FromRead, ObjectsUsed,
        AssertionsUsed
  <1> QED BY <1>1, <1>4, <1>5, SchemaTables DEF DeclarationInv

-----------------------------------------------------------------------------
(***************************************************************************)
(* The other steps: they leave the tables alone, or only fill in the        *)
(* columns of the sources.                                                  *)
(***************************************************************************)
LEMMA RefusedStep ==
    ASSUME DeclarationInv, phase' = "refused",
           UNCHANGED <<schema, sources, projections, resultSchema>>
    PROVE  DeclarationInv'
  <1>1. SourcesInv' /\ ResultsInv'
    BY DEF DeclarationInv, SourcesInv, SourceShapes, CardinalitiesAsserted, FromRead,
           ResultsInv, ResultsTyped, SelectRead
  <1> QED BY <1>1 DEF DeclarationInv

LEMMA QuietStep ==
    ASSUME DeclarationInv, UNCHANGED <<schema, sources, projections, resultSchema>>,
           phase' \notin {"metadata", "refused"} => ValidDeclarations,
           FromRead' => FromRead, SelectRead' => SelectRead
    PROVE  DeclarationInv'
  <1>1. SourcesInv'
    BY SchemaTables
    DEF DeclarationInv, SourcesInv, SourceShapes, CardinalitiesAsserted, ObjectsUsed, AssertionsUsed
  <1>2. ResultsInv'
    BY DEF DeclarationInv, ResultsInv, ResultsTyped, ResultsSelected
  <1> QED BY <1>1, <1>2, SchemaTables DEF DeclarationInv

LEMMA FinishSelectStep ==
    ASSUME DeclarationInv, NEW clause, FinishSelect(clause), phase' # "refused"
    PROVE  DeclarationInv'
  <1> DEFINE filled(i) == [sources[i] EXCEPT !.fields = SourceFields(sources[i], StableOrder)]
  <1>1. /\ phase = "order" /\ phase' = "amplification"
        /\ sources' = [i \in DOMAIN sources |-> filled(i)]
        /\ UNCHANGED <<schema, projections, resultSchema>>
    BY Zenon DEF FinishSelect, Refuse
  <1>2. /\ IsSequence(sources) /\ SourceShapes /\ CardinalitiesAsserted
        /\ ObjectsUsed /\ AssertionsUsed
    BY <1>1 DEF DeclarationInv, SourcesInv, FromRead
  <1>3. \A i \in DOMAIN sources :
            /\ filled(i).alias = sources[i].alias /\ filled(i).object = sources[i].object
            /\ filled(i).cardinality = sources[i].cardinality
            /\ DOMAIN filled(i) = DOMAIN sources[i]
    BY <1>2 DEF SourceShapes
  <1> HIDE DEF filled
  <1>4. Len(sources) \in Nat /\ DOMAIN sources = 1..Len(sources)
    BY <1>2 DEF IsSequence
  <1>5. DOMAIN sources' = DOMAIN sources /\ \A i \in DOMAIN sources : sources'[i] = filled(i)
    BY <1>1
  <1>6. IsSequence(sources') /\ Len(sources') = Len(sources)
    <2> DEFINE S == Elements(sources')
    <2>1. \A i \in DOMAIN sources' : sources'[i] \in S
      BY DEF Elements
    <2> HIDE DEF S
    <2>2. sources' \in Seq(S) /\ Len(sources') = Len(sources)
      BY <1>1, <1>4, <1>5, <2>1
    <2> QED BY <2>2 DEF S, IsSequence
  <1>7. SourceShapes' /\ CardinalitiesAsserted'
    <2>1. SourceShapes'
      BY <1>2, <1>3, <1>5 DEF SourceShapes
    <2>2. ASSUME NEW a \in Elements(schema.assertions), NEW i \in 2..Len(sources),
                 sources'[i].alias = a.alias
          PROVE  sources'[i].cardinality = a.cardinality
      <3>1. i \in DOMAIN sources
        BY <1>4
      <3>2. sources[i].alias = a.alias /\ sources'[i].cardinality = sources[i].cardinality
        BY <1>3, <1>5, <2>2, <3>1
      <3> QED BY <1>2, <3>2 DEF CardinalitiesAsserted
    <2>3. CardinalitiesAsserted'
      BY <1>1, <1>6, <2>2 DEF CardinalitiesAsserted
    <2> QED BY <2>1, <2>3
  <1>8. ObjectsUsed' /\ AssertionsUsed'
    <2>1. {sources'[i].object : i \in DOMAIN sources'} = {sources[i].object : i \in DOMAIN sources}
      BY <1>3, <1>5
    <2> QED BY <1>1, <1>2, <1>3, <1>4, <1>5, <1>6, <2>1, SchemaTables DEF ObjectsUsed, AssertionsUsed
  <1>9. ResultsInv'
    BY <1>1 DEF DeclarationInv, ResultsInv, ResultsTyped, ResultsSelected, SelectRead, FromRead
  <1> QED BY <1>1, <1>6, <1>7, <1>8, <1>9, SchemaTables DEF DeclarationInv, SourcesInv

LEMMA DeclarationStep == DeclarationInv /\ [Next]_vars => DeclarationInv'
  <1> SUFFICES ASSUME DeclarationInv, [Next]_vars PROVE DeclarationInv'
    OBVIOUS
  <1> USE DEF Refuse, plan
  <1>1. CASE CompileMetadata
    BY <1>1, RefusedStep, QuietStep DEF CompileMetadata, FromRead, SelectRead
  <1>2. CASE Parse
    BY <1>2, RefusedStep, QuietStep DEF Parse, DeclarationInv, FromRead, SelectRead
  <1>3. ASSUME NEW object, NEW alias, CompileRoot(object, alias) PROVE DeclarationInv'
    BY <1>3, RootStep, RefusedStep DEF CompileRoot
  <1>4. ASSUME NEW object, NEW alias, NEW join, NEW tree, CompileJoin(object, alias, join, tree)
        PROVE  DeclarationInv'
    BY <1>4, JoinStep, RefusedStep DEF CompileJoin
  <1>5. CASE FinishSources
    BY <1>5, FinishSourcesStep, RefusedStep DEF FinishSources
  <1>6. ASSUME NEW alias, NEW tree, CompileProjection(alias, tree) PROVE DeclarationInv'
    BY <1>6, ProjectionStep, RefusedStep DEF CompileProjection
  <1>7. CASE FinishProjections
    BY <1>7, FinishProjectionsStep, RefusedStep DEF FinishProjections
  <1>8. ASSUME NEW clause \in {"where", "having"}, SkipFilter(clause) PROVE DeclarationInv'
    BY <1>8, QuietStep DEF SkipFilter, After, DeclarationInv, FromRead, SelectRead
  <1>9. ASSUME NEW clause \in {"where", "having"}, NEW tree, CompileFilter(clause, tree)
        PROVE  DeclarationInv'
    BY <1>9, RefusedStep, QuietStep DEF CompileFilter, After, DeclarationInv, FromRead, SelectRead
  <1>10. ASSUME NEW tree, CompileGroupTerm(tree) PROVE DeclarationInv'
    BY <1>10, RefusedStep, QuietStep DEF CompileGroupTerm, DeclarationInv, FromRead, SelectRead
  <1>11. CASE FinishGroupBy
    BY <1>11, QuietStep DEF FinishGroupBy, DeclarationInv, FromRead, SelectRead
  <1>12. ASSUME NEW tree, CompileOrderByTerm(tree) PROVE DeclarationInv'
    BY <1>12, RefusedStep, QuietStep DEF CompileOrderByTerm, DeclarationInv, FromRead, SelectRead
  <1>13. ASSUME NEW clause, FinishSelect(clause) PROVE DeclarationInv'
    BY <1>13, FinishSelectStep, RefusedStep DEF FinishSelect
  <1>14. CASE ValidateAmplification
    BY <1>14, RefusedStep, QuietStep DEF ValidateAmplification, DeclarationInv, FromRead, SelectRead
  <1>15. CASE UNCHANGED vars
    BY <1>15, QuietStep DEF vars, DeclarationInv, FromRead, SelectRead
  <1> QED BY <1>1, <1>2, <1>3, <1>4, <1>5, <1>6, <1>7, <1>8, <1>9, <1>10, <1>11, <1>12, <1>13,
             <1>14, <1>15 DEF Next

(***************************************************************************)
(* Every declaration of an author is an assertion the compiler has checked: *)
(* of an accepted plan the declared objects are those it reads, every       *)
(* declared cardinality is that of a join of that alias, and every declared *)
(* result is a column of the declared type and kind                         *)
(* (object_sql_validation.go 140-142, 169-194, 291-345).                    *)
(***************************************************************************)
THEOREM DeclarationsAlwaysHold == Spec => []DeclarationsHold
  <1>1. Init => DeclarationInv
    <2> SUFFICES ASSUME Init PROVE DeclarationInv
      OBVIOUS
    <2>1. IsSequence(<<>>) /\ Len(<<>>) = 0 /\ DOMAIN <<>> = {}
      BY DEF IsSequence, Elements
    <2> QED BY <2>1 DEF Init, DeclarationInv, SourcesInv, ResultsInv, SourceShapes,
                       CardinalitiesAsserted, ResultsTyped, FromRead, SelectRead
  <1> QED BY <1>1, DeclarationStep, InvGivesDeclarations, PTL DEF Spec

-----------------------------------------------------------------------------
(***************************************************************************)
(* The order of a finished plan: what the author wrote, then the tie terms  *)
(* it does not already contain.                                             *)
(***************************************************************************)
Appended(s, term) == IF OrderContains(s, term.x) THEN s ELSE Append(s, term)

LEMMA StableOrderDef ==
    ASSUME NEW n \in Nat, n = Len(TieCandidates)
    PROVE  \E f : /\ f = [k \in 0..n |-> IF k = 0 THEN orderBy
                                          ELSE Appended(f[k - 1], TieCandidates[k])]
                  /\ StableOrder = f[n]
  <1> DEFINE ties == TieCandidates
             Appends(f, m) == f = [k \in 0..m |-> IF k = 0 THEN orderBy
                                                  ELSE Appended(f[k - 1], ties[k])]
             S == {k \in 0..n : \E f : Appends(f, k)}
  <1> HIDE DEF ties
  <1>1. 0 \in S
    <2>1. Appends([k \in 0..0 |-> orderBy], 0)
      OBVIOUS
    <2>2. \E f : Appends(f, 0)
      <3> HIDE DEF Appends
      <3> QED BY <2>1
    <2> QED BY <2>2
  <1>2. ASSUME NEW m \in 0..(n - 1), m \in S PROVE m + 1 \in S
    <2>1. PICK f : Appends(f, m)
      BY <1>2
    <2> DEFINE g == [k \in 0..(m + 1) |-> IF k = m + 1 THEN Appended(f[m], ties[m + 1]) ELSE f[k]]
    <2>2. Appends(g, m + 1)
      <3> SUFFICES ASSUME NEW k \in 0..(m + 1)
                   PROVE  g[k] = IF k = 0 THEN orderBy ELSE Appended(g[k - 1], ties[k])
        OBVIOUS
      <3>1. CASE k = m + 1
        BY <3>1
      <3>2. CASE k # m + 1
        BY <2>1, <3>2
      <3> QED BY <3>1, <3>2
    <2>3. \E h : Appends(h, m + 1)
      <3> HIDE DEF Appends, g
      <3> QED BY <2>2
    <2> QED BY <2>3
  <1>3. n \in S
    <2> HIDE DEF S
    <2>1. \A k \in 0..n : k \in S
      BY <1>1, <1>2, UpTo
    <2> QED BY <2>1
  <1>4. PICK f : Appends(f, n)
    BY <1>3
  <1> DEFINE g == CHOOSE h : Appends(h, n)
  <1>5. Appends(g, n)
    BY <1>4
  <1>6. StableOrder = g[n]
    BY DEF StableOrder, Appended, ties
  <1> HIDE DEF g
  <1> QED BY <1>5, <1>6 DEF Appended, ties

LEMMA AppendsAre ==
    ASSUME NEW orders, IsSequence(orders), NEW term
    PROVE  /\ IsSequence(Appended(orders, term))
           /\ Elements(orders) \subseteq Elements(Appended(orders, term))
           /\ Elements(Appended(orders, term)) \subseteq Elements(orders) \cup {term}
           /\ OrderContains(Appended(orders, term), term.x)
  <1>1. CASE OrderContains(orders, term.x)
    BY <1>1 DEF Appended
  <1>2. CASE ~OrderContains(orders, term.x)
    <2> DEFINE t == Append(orders, term)
    <2>1. /\ IsSequence(t) /\ Len(orders) \in Nat
          /\ DOMAIN orders = 1..Len(orders) /\ DOMAIN t = 1..(Len(orders) + 1)
          /\ \A i \in 1..Len(orders) : t[i] = orders[i]
          /\ t[Len(orders) + 1] = term
      BY ONLY IsSequence(orders), Extended
    <2> HIDE DEF t
    <2>2. Elements(t) = Elements(orders) \cup {term}
      BY <2>1 DEF Elements
    <2>3. OrderContains(t, term.x)
      BY <2>2 DEF OrderContains
    <2> QED BY <1>2, <2>1, <2>2, <2>3 DEF t, Appended
  <1> QED BY <1>1, <1>2

LEMMA ContainsMore ==
    ASSUME NEW s, NEW t, Elements(s) \subseteq Elements(t), NEW x, OrderContains(s, x)
    PROVE  OrderContains(t, x)
  BY DEF OrderContains

LEMMA StableOrderIs ==
    ASSUME IsSequence(orderBy), IsSequence(TieCandidates)
    PROVE  /\ IsSequence(StableOrder)
           /\ Elements(orderBy) \subseteq Elements(StableOrder)
           /\ Elements(StableOrder) \subseteq Elements(orderBy) \cup Elements(TieCandidates)
           /\ \A t \in Elements(TieCandidates) : OrderContains(StableOrder, t.x)
  <1> DEFINE ties == TieCandidates
  <1>1. PICK n \in Nat : n = Len(ties) /\ DOMAIN ties = 1..n
    BY DEF IsSequence
  <1>2. PICK f : /\ f = [k \in 0..n |-> IF k = 0 THEN orderBy ELSE Appended(f[k - 1], ties[k])]
                 /\ StableOrder = f[n]
    BY <1>1, StableOrderDef
  <1> HIDE DEF ties
  <1>3. /\ f[0] = orderBy
        /\ \A k \in 0..(n - 1) : f[k + 1] = Appended(f[k], ties[k + 1])
    BY ONLY <1>2, n \in Nat
  <1> DEFINE Orders(k) == /\ IsSequence(f[k])
                          /\ Elements(orderBy) \subseteq Elements(f[k])
                          /\ Elements(f[k]) \subseteq Elements(orderBy) \cup Elements(ties)
                          /\ \A i \in 1..k : OrderContains(f[k], ties[i].x)
             S == {k \in 0..n : Orders(k)}
  <1>4. 0 \in S
    BY <1>3
  <1>5. ASSUME NEW k \in 0..(n - 1), k \in S PROVE k + 1 \in S
    <2> DEFINE term == ties[k + 1]
               s == Appended(f[k], term)
    <2>1. Orders(k)
      BY <1>5
    <2>2. f[k + 1] = s
      BY <1>3
    <2>3. k + 1 \in 1..n /\ k + 1 \in 0..n
      BY ONLY n \in Nat, k \in 0..(n - 1)
    <2>4. term \in Elements(ties)
      BY <1>1, <2>3 DEF Elements
    <2> HIDE DEF term
    <2>5. /\ IsSequence(s) /\ Elements(f[k]) \subseteq Elements(s)
          /\ Elements(s) \subseteq Elements(f[k]) \cup {term} /\ OrderContains(s, term.x)
      BY <2>1, AppendsAre
    <2> HIDE DEF s
    <2>6. ASSUME NEW i \in 1..(k + 1) PROVE OrderContains(s, ties[i].x)
      <3>1. CASE i = k + 1
        BY <2>5, <3>1 DEF term
      <3>2. CASE i \in 1..k
        BY <2>1, <2>5, <3>2, ContainsMore
      <3>3. i = k + 1 \/ i \in 1..k
        BY ONLY n \in Nat, k \in 0..(n - 1), i \in 1..(k + 1)
      <3> QED BY <3>1, <3>2, <3>3
    <2> QED BY <2>1, <2>2, <2>3, <2>4, <2>5, <2>6
  <1>6. n \in S
    <2> HIDE DEF S
    <2>1. \A k \in 0..n : k \in S
      BY <1>4, <1>5, UpTo
    <2> QED BY <2>1
  <1>7. Orders(n)
    BY <1>6
  <1>8. \A t \in Elements(ties) : \E i \in 1..n : t = ties[i]
    BY <1>1 DEF Elements, ties
  <1> QED BY <1>2, <1>7, <1>8 DEF ties


-----------------------------------------------------------------------------
(***************************************************************************)
(* What an expression mentions stays in scope: the sources of a statement   *)
(* are only added to, and each keeps its alias and its object.              *)
(***************************************************************************)
OneSourceEach(srcs) ==
    \A i, k \in DOMAIN srcs : srcs[i].alias = srcs[k].alias => i = k

Continues(srcs, earlier) ==
    /\ DOMAIN earlier \subseteq DOMAIN srcs
    /\ \A i \in DOMAIN earlier :
           srcs[i].alias = earlier[i].alias /\ srcs[i].object = earlier[i].object

Mentions(srcs, x) == Reaches([aliases |-> ObjectsByAlias(srcs)], x)

LEMMA LookUp ==
    ASSUME NEW srcs, OneSourceEach(srcs), NEW i \in DOMAIN srcs
    PROVE  Position(srcs, srcs[i].alias) = i
  BY DEF Position, OneSourceEach

LEMMA ObjectsAre ==
    ASSUME NEW srcs, OneSourceEach(srcs)
    PROVE  /\ \A a \in DOMAIN ObjectsByAlias(srcs) : \E i \in DOMAIN srcs : a = srcs[i].alias
           /\ \A i \in DOMAIN srcs :
                  /\ srcs[i].alias \in DOMAIN ObjectsByAlias(srcs)
                  /\ ObjectsByAlias(srcs)[srcs[i].alias] = srcs[i].object
  BY LookUp DEF ObjectsByAlias, SourceAliases

LEMMA ReachesFarther ==
    ASSUME NEW c, NEW d, NEW x, Reaches(c, x),
           DOMAIN c.aliases \subseteq DOMAIN d.aliases,
           \A a \in DOMAIN c.aliases : d.aliases[a] = c.aliases[a]
    PROVE  Reaches(d, x)
  <1>1. \A ref : InScope(c, ref) => InScope(d, ref)
    BY DEF InScope
  <1> QED BY <1>1 DEF Reaches

LEMMA MentionsMore ==
    ASSUME NEW srcs, NEW earlier, OneSourceEach(srcs), OneSourceEach(earlier),
           Continues(srcs, earlier), NEW x, Mentions(earlier, x)
    PROVE  Mentions(srcs, x)
  <1> DEFINE c == [aliases |-> ObjectsByAlias(earlier)]
             d == [aliases |-> ObjectsByAlias(srcs)]
  <1>1. c.aliases = ObjectsByAlias(earlier) /\ d.aliases = ObjectsByAlias(srcs)
    OBVIOUS
  <1>2. ASSUME NEW a \in DOMAIN c.aliases
        PROVE  a \in DOMAIN d.aliases /\ d.aliases[a] = c.aliases[a]
    <2>1. PICK i \in DOMAIN earlier : a = earlier[i].alias
      BY <1>1, <1>2, ObjectsAre
    <2>2. i \in DOMAIN srcs /\ srcs[i].alias = a /\ srcs[i].object = earlier[i].object
      BY <2>1 DEF Continues
    <2>3. c.aliases[a] = earlier[i].object
      BY <1>1, <2>1, ObjectsAre
    <2>4. a \in DOMAIN d.aliases /\ d.aliases[a] = srcs[i].object
      BY <1>1, <2>2, ObjectsAre
    <2> QED BY <2>2, <2>3, <2>4
  <1>3. Reaches(c, x)
    BY DEF Mentions
  <1> HIDE DEF c, d
  <1>4. Reaches(d, x)
    BY <1>2, <1>3, ReachesFarther
  <1> QED BY <1>4 DEF d, Mentions

LEMMA BlankMentions == ASSUME NEW srcs PROVE Mentions(srcs, Blank)
  BY BlankIs DEF Mentions, Reaches

LEMMA ScopeIs ==
    ASSUME NEW srcs
    PROVE  /\ Scope(srcs).aliases = ObjectsByAlias(srcs)
           /\ Scope(srcs).parameters = DeclaredParameters(schema)
  BY DEF Scope, ScopeOf

\* The scope of any statement of valid declarations.
LEMMA ScopesAre ==
    ASSUME ValidDeclarations, NEW srcs, OneSourceEach(srcs),
           \A i \in DOMAIN srcs : srcs[i].object \in Objects
    PROVE  IsScope(Scope(srcs))
  <1>1. \A a \in DOMAIN ObjectsByAlias(srcs) : ObjectsByAlias(srcs)[a] \in Objects
    BY ObjectsAre
  <1>2. ASSUME NEW name \in DOMAIN DeclaredParameters(schema)
        PROVE  DeclaredParameters(schema)[name] \in PlanTypes
    <2> DEFINE P == Elements(schema.parameters)
               p == CHOOSE q \in P : q.key = name
    <2>1. name \in {q.key : q \in P} /\ DeclaredParameters(schema)[name] = p.type
      BY DEF DeclaredParameters
    <2>2. p \in P
      BY <2>1
    <2>3. \A q \in P : q.type \in ValueTypes
      BY Zenon DEF ValidDeclarations
    <2> HIDE DEF p, P
    <2>4. p.type \in ValueTypes
      BY <2>2, <2>3
    <2> QED BY <2>1, <2>4 DEF ValueTypes, PlanTypes
  <1> QED BY <1>1, <1>2, ScopeIs DEF IsScope

LEMMA CompiledIs ==
    ASSUME ValidDeclarations, NEW srcs, OneSourceEach(srcs),
           \A i \in DOMAIN srcs : srcs[i].object \in Objects,
           NEW tree \in Trees, NEW x, x = Compiled(srcs, tree), Valid(x)
    PROVE  HasUnit(x) /\ Mentions(srcs, x)
  <1>1. Sound(Scope(srcs), x)
    BY ScopesAre, CompilerAssumption, CompiledExpressionsAreSound DEF Compiled
  <1>2. Reaches(Scope(srcs), x) /\ HasUnit(x)
    BY <1>1 DEF Sound
  <1> DEFINE d == [aliases |-> ObjectsByAlias(srcs)]
  <1>3. d.aliases = Scope(srcs).aliases
    BY ScopeIs
  <1> HIDE DEF d
  <1>4. Reaches(d, x)
    BY <1>2, <1>3, ReachesFarther
  <1> QED BY <1>2, <1>4 DEF d, Mentions

-----------------------------------------------------------------------------
(***************************************************************************)
(* The invariant of the names: every clause of the plan mentions sources of *)
(* the plan and columns of their objects.                                   *)
(***************************************************************************)
SourceBound(s) ==
    /\ s.object \in Objects /\ s.alias \in Aliases
    /\ s.cardinality \in Cardinalities \cup {""}
    /\ s.fields \subseteq ColumnsOf(s.object)

SourcesBound(srcs) ==
    /\ OneSourceEach(srcs)
    /\ \A i \in DOMAIN srcs : SourceBound(srcs[i]) /\ Mentions(srcs, srcs[i].on)

TermsMention(srcs, terms) == \A i \in DOMAIN terms : Mentions(srcs, terms[i].x)

FiltersMention(srcs, clauses) ==
    /\ DOMAIN clauses = {"where", "having"}
    /\ \A clause \in {"where", "having"} : Mentions(srcs, clauses[clause])

BindingInv ==
    /\ SourcesBound(sources)
    /\ TermsMention(sources, projections)
    /\ FiltersMention(sources, filters)
    /\ IsSequence(groupBy) /\ TermsMention(sources, groupBy)
    /\ IsSequence(orderBy) /\ TermsMention(sources, orderBy)

LEMMA TermAdded ==
    ASSUME NEW srcs, NEW terms, IsSequence(terms), TermsMention(srcs, terms),
           NEW t, Mentions(srcs, t.x), NEW more, more = Append(terms, t)
    PROVE  IsSequence(more) /\ TermsMention(srcs, more)
  <1>1. /\ IsSequence(more) /\ Len(terms) \in Nat
        /\ DOMAIN terms = 1..Len(terms) /\ DOMAIN more = 1..(Len(terms) + 1)
        /\ \A i \in 1..Len(terms) : more[i] = terms[i]
        /\ more[Len(terms) + 1] = t
    BY ONLY IsSequence(terms), more = Append(terms, t), Extended
  <1>2. ASSUME NEW i \in 1..(Len(terms) + 1) PROVE Mentions(srcs, more[i].x)
    <2>1. i \in 1..Len(terms) \/ i = Len(terms) + 1
      BY ONLY <1>1, i \in 1..(Len(terms) + 1)
    <2> QED BY <1>1, <2>1 DEF TermsMention
  <1> QED BY <1>1, <1>2 DEF TermsMention

\* Reading more of the FROM tree leaves what is bound bound.
LEMMA Rebound ==
    ASSUME BindingInv, SourcesBound(sources'), Continues(sources', sources),
           UNCHANGED <<projections, filters, groupBy, orderBy>>
    PROVE  BindingInv'
  <1>1. \A x : Mentions(sources, x) => Mentions(sources', x)
    BY MentionsMore DEF BindingInv, SourcesBound
  <1> QED BY <1>1 DEF BindingInv, TermsMention, FiltersMention

LEMMA RootBinding ==
    ASSUME BindingInv, NEW object, NEW alias \in Aliases, CompileRoot(object, alias),
           phase' # "refused"
    PROVE  BindingInv'
  <1> DEFINE s == Source(object, alias, "", "", Blank)
  <1>1. /\ phase = "from" /\ sources' = <<s>> /\ sources = <<>> /\ object \in Objects
        /\ UNCHANGED <<projections, filters, groupBy, orderBy>>
    BY DEF CompileRoot, Refuse, BindableTable
  <1>2. /\ s.alias = alias /\ s.object = object /\ s.cardinality = "" /\ s.on = Blank
        /\ s.fields = {}
    BY DEF Source
  <1> HIDE DEF s
  <1>3. DOMAIN <<s>> = {1} /\ <<s>>[1] = s /\ DOMAIN sources = {}
    BY <1>1
  <1>4. SourceBound(s)
    BY <1>1, <1>2 DEF SourceBound
  <1>5. SourcesBound(<<s>>)
    <2>1. Mentions(<<s>>, s.on)
      BY <1>2, BlankMentions
    <2> QED BY <1>3, <1>4, <2>1 DEF SourcesBound, OneSourceEach
  <1>6. Continues(<<s>>, sources)
    BY <1>3 DEF Continues
  <1> QED BY <1>1, <1>5, <1>6, Rebound

\* A source of another alias is added, before or after its ON is compiled.
LEMMA SourceAdded ==
    ASSUME NEW srcs, IsSequence(srcs), OneSourceEach(srcs), NEW s,
           \A i \in DOMAIN srcs : srcs[i].alias # s.alias,
           NEW more, more = Append(srcs, s)
    PROVE  OneSourceEach(more) /\ Continues(more, srcs)
  <1>1. /\ Len(srcs) \in Nat /\ DOMAIN srcs = 1..Len(srcs)
        /\ DOMAIN more = 1..(Len(srcs) + 1)
        /\ \A i \in 1..Len(srcs) : more[i] = srcs[i]
        /\ more[Len(srcs) + 1] = s
    BY ONLY IsSequence(srcs), more = Append(srcs, s), Extended
  <1>2. \A i \in 1..(Len(srcs) + 1) : i \in 1..Len(srcs) \/ i = Len(srcs) + 1
    BY ONLY <1>1
  <1>3. Continues(more, srcs)
    BY <1>1 DEF Continues
  <1>4. OneSourceEach(more)
    BY <1>1, <1>2 DEF OneSourceEach
  <1> QED BY <1>3, <1>4

LEMMA InferredIs ==
    ASSUME NEW srcs, NEW alias, NEW eqs
    PROVE  InferJoinCardinality(srcs, alias, eqs) \in Cardinalities \cup {""}
  <1> DEFINE inferred == {CardinalityOf(srcs, eq) : eq \in UsableEqualities(srcs, alias, eqs)}
             c == InferJoinCardinality(srcs, alias, eqs)
  <1>1. c = CASE "one_to_one" \in inferred -> "one_to_one"
              [] "one_to_one" \notin inferred /\ "many_to_one" \in inferred -> "many_to_one"
              [] inferred = {"one_to_many"} -> "one_to_many"
              [] OTHER -> ""
    BY Zenon DEF InferJoinCardinality
  <1> HIDE DEF inferred, c
  <1> QED BY <1>1 DEF Cardinalities, c

LEMMA JoinBinding ==
    ASSUME DeclarationInv, BindingInv, NEW object, NEW alias \in Aliases, NEW join,
           NEW tree \in OnTrees, CompileJoin(object, alias, join, tree), phase' # "refused"
    PROVE  BindingInv'
  <1> DEFINE r == Source(object, alias, join, "", Blank)
             registered == Append(sources, r)
             on == Compiled(registered, tree)
             inferred == InferJoinCardinality(registered, alias, on.eqs)
             s == Source(object, alias, join, inferred, on)
             more == Append(sources, s)
  <1>1. /\ phase = "from" /\ sources' = more
        /\ BindableTable(object, alias) /\ Valid(on)
        /\ UNCHANGED <<projections, filters, groupBy, orderBy>>
    BY Zenon DEF CompileJoin, Refuse
  <1>2. /\ s.alias = alias /\ s.object = object /\ s.cardinality = inferred /\ s.on = on
        /\ s.fields = {} /\ r.alias = alias /\ r.object = object
    BY DEF Source
  <1>3. inferred \in Cardinalities \cup {""}
    BY InferredIs
  <1> HIDE DEF inferred, on, r, s
  <1>4. /\ IsSequence(sources) /\ OneSourceEach(sources) /\ ValidDeclarations
        /\ object \in Objects /\ \A i \in DOMAIN sources : sources[i].alias # alias
    <2>1. object \in Objects /\ alias \notin SourceAliases(sources)
      BY <1>1 DEF BindableTable
    <2> QED BY <1>1, <2>1 DEF DeclarationInv, SourcesInv, BindingInv, SourcesBound, SourceAliases
  <1>5. /\ OneSourceEach(registered) /\ OneSourceEach(more) /\ Continues(more, sources)
    BY <1>2, <1>4, SourceAdded
  <1>6. /\ Len(sources) \in Nat /\ DOMAIN sources = 1..Len(sources)
        /\ DOMAIN registered = 1..(Len(sources) + 1) /\ DOMAIN more = 1..(Len(sources) + 1)
        /\ \A i \in 1..Len(sources) : registered[i] = sources[i] /\ more[i] = sources[i]
        /\ registered[Len(sources) + 1] = r /\ more[Len(sources) + 1] = s
    BY ONLY <1>4, Extended
  <1>7. \A i \in 1..(Len(sources) + 1) : i \in 1..Len(sources) \/ i = Len(sources) + 1
    BY ONLY <1>6
  <1> HIDE DEF registered, more
  <1>8. \A i \in DOMAIN registered : registered[i].object \in Objects
    BY <1>2, <1>4, <1>6, <1>7 DEF BindingInv, SourcesBound, SourceBound
  <1>9. Mentions(registered, on)
    <2>1. tree \in Trees
      BY CompilerAssumption
    <2> QED BY <1>1, <1>4, <1>5, <1>8, <2>1, CompiledIs DEF on
  <1>10. Continues(more, registered)
    BY <1>2, <1>6, <1>7 DEF Continues
  <1>11. \A x : Mentions(registered, x) \/ Mentions(sources, x) => Mentions(more, x)
    BY <1>4, <1>5, <1>10, MentionsMore
  <1>12. SourcesBound(more)
    <2>1. ASSUME NEW i \in DOMAIN more PROVE SourceBound(more[i]) /\ Mentions(more, more[i].on)
      <3>1. CASE i \in 1..Len(sources)
        BY <1>6, <1>11, <3>1 DEF BindingInv, SourcesBound
      <3>2. CASE i = Len(sources) + 1
        BY <1>2, <1>3, <1>4, <1>6, <1>9, <1>11, <3>2 DEF SourceBound
      <3> QED BY <1>6, <1>7, <3>1, <3>2
    <2> QED BY <1>5, <2>1 DEF SourcesBound
  <1> QED BY <1>1, <1>5, <1>12, Rebound

-----------------------------------------------------------------------------
(***************************************************************************)
(* The end of the SELECT: the tie terms and the columns of the sources.     *)
(***************************************************************************)
LEMMA IdTermIs ==
    ASSUME NEW alias
    PROVE  LET x == IdTerm(alias).x
           IN  /\ x.kind = "field" /\ x.alias = alias /\ x.field = "id" /\ x.name = ""
               /\ x.refs = {[alias |-> alias, field |-> "id"]}
               /\ x.measures = {} /\ x.eqs = {} /\ x.required = {}
  BY DEF IdTerm, Term, Blank

LEMMA IdInScope ==
    ASSUME NEW srcs, OneSourceEach(srcs), NEW i \in DOMAIN srcs
    PROVE  Mentions(srcs, IdTerm(srcs[i].alias).x)
  <1> DEFINE x == IdTerm(srcs[i].alias).x
             ref == [alias |-> srcs[i].alias, field |-> "id"]
             d == [aliases |-> ObjectsByAlias(srcs)]
  <1>1. x.refs = {ref} /\ x.measures = {} /\ x.eqs = {} /\ x.required = {}
    BY IdTermIs
  <1>2. ref.alias = srcs[i].alias /\ ref.field = "id" /\ d.aliases = ObjectsByAlias(srcs)
    OBVIOUS
  <1>3. "id" \in ColumnsOf(srcs[i].object)
    BY EnvelopeIs DEF ColumnsOf
  <1> HIDE DEF x, ref, d
  <1>4. InScope(d, ref)
    BY <1>2, <1>3, ObjectsAre DEF InScope
  <1> QED BY <1>1, <1>4 DEF Mentions, Reaches, d, x

LEMMA TiesMention ==
    ASSUME BindingInv, IsSequence(sources)
    PROVE  IsSequence(TieCandidates) /\ TermsMention(sources, TieCandidates)
  <1>1. CASE groupBy # <<>>
    BY <1>1 DEF TieCandidates, BindingInv
  <1>2. CASE groupBy = <<>> /\ SingleRow
    <2>1. TieCandidates = <<>>
      BY <1>2 DEF TieCandidates
    <2> QED BY <2>1 DEF IsSequence, Elements, TermsMention
  <1>3. CASE groupBy = <<>> /\ ~SingleRow
    <2> DEFINE ties == [i \in DOMAIN sources |-> IdTerm(sources[i].alias)]
    <2>1. TieCandidates = ties
      BY <1>3 DEF TieCandidates
    <2>2. DOMAIN ties = DOMAIN sources /\ \A i \in DOMAIN sources : ties[i] = IdTerm(sources[i].alias)
      OBVIOUS
    <2>3. Len(sources) \in Nat /\ DOMAIN sources = 1..Len(sources)
      BY DEF IsSequence
    <2>4. IsSequence(ties)
      <3> DEFINE T == Elements(ties)
      <3>1. \A i \in DOMAIN sources : ties[i] \in T
        BY DEF Elements
      <3> HIDE DEF T
      <3>2. ties \in Seq(T)
        BY <2>2, <2>3, <3>1
      <3> QED BY <3>2 DEF T, IsSequence
    <2> HIDE DEF ties
    <2>5. TermsMention(sources, ties)
      <3> SUFFICES ASSUME NEW i \in DOMAIN sources PROVE Mentions(sources, ties[i].x)
        BY <2>2 DEF TermsMention
      <3>1. OneSourceEach(sources)
        BY DEF BindingInv, SourcesBound
      <3>2. Mentions(sources, IdTerm(sources[i].alias).x)
        BY <3>1, IdInScope
      <3> QED BY <2>2, <3>2
    <2> QED BY <2>1, <2>4, <2>5
  <1> QED BY <1>1, <1>2, <1>3

LEMMA OrderMentions ==
    ASSUME BindingInv, IsSequence(sources)
    PROVE  /\ IsSequence(StableOrder) /\ TermsMention(sources, StableOrder)
           /\ \A t \in Elements(TieCandidates) : OrderContains(StableOrder, t.x)
  <1>1. IsSequence(orderBy) /\ IsSequence(TieCandidates)
    BY TiesMention DEF BindingInv
  <1>2. /\ IsSequence(StableOrder)
        /\ Elements(StableOrder) \subseteq Elements(orderBy) \cup Elements(TieCandidates)
        /\ \A t \in Elements(TieCandidates) : OrderContains(StableOrder, t.x)
    BY <1>1, StableOrderIs
  <1>3. ASSUME NEW i \in DOMAIN StableOrder PROVE Mentions(sources, StableOrder[i].x)
    <2>1. StableOrder[i] \in Elements(orderBy) \cup Elements(TieCandidates)
      BY <1>2 DEF Elements
    <2>2. TermsMention(sources, orderBy) /\ TermsMention(sources, TieCandidates)
      BY TiesMention DEF BindingInv
    <2> QED BY <2>1, <2>2 DEF TermsMention, Elements
  <1> QED BY <1>2, <1>3 DEF TermsMention

Delivers(s, ref) == ref.alias = s.alias /\ ref.field \in ColumnsOf(s.object)

LEMMA MentionedIs ==
    ASSUME NEW srcs, OneSourceEach(srcs), NEW x, Mentions(srcs, x), NEW ref \in x.refs
    PROVE  \E i \in DOMAIN srcs : Delivers(srcs[i], ref)
  <1> DEFINE d == [aliases |-> ObjectsByAlias(srcs)]
  <1>1. d.aliases = ObjectsByAlias(srcs) /\ Reaches(d, x)
    BY DEF Mentions
  <1> HIDE DEF d
  <1>2. ref.alias \in DOMAIN ObjectsByAlias(srcs) /\ ref.field \in ColumnsOf(ObjectsByAlias(srcs)[ref.alias])
    BY <1>1 DEF Reaches, InScope
  <1>3. PICK i \in DOMAIN srcs : ref.alias = srcs[i].alias
    BY <1>2, ObjectsAre
  <1>4. ObjectsByAlias(srcs)[ref.alias] = srcs[i].object
    BY <1>3, ObjectsAre
  <1> QED BY <1>2, <1>3, <1>4 DEF Delivers

LEMMA ReferencesAre ==
    ASSUME BindingInv, NEW order, TermsMention(sources, order), NEW ref \in References(order)
    PROVE  \E i \in DOMAIN sources : Delivers(sources[i], ref)
  <1>1. \E x : Mentions(sources, x) /\ ref \in x.refs
    <2>1. PICK R \in {s.on.refs : s \in Elements(sources)}
                     \cup {p.x.refs : p \in Elements(projections)}
                     \cup {filters.where.refs, filters.having.refs}
                     \cup {t.x.refs : t \in Elements(groupBy)}
                     \cup {t.x.refs : t \in Elements(order)} : ref \in R
      BY DEF References
    <2>2. CASE R \in {s.on.refs : s \in Elements(sources)}
      BY <2>1, <2>2 DEF BindingInv, SourcesBound, Elements
    <2>3. CASE R \in {p.x.refs : p \in Elements(projections)}
      BY <2>1, <2>3 DEF BindingInv, TermsMention, Elements
    <2>4. CASE R \in {filters.where.refs, filters.having.refs}
      <3>1. Mentions(sources, filters.where) /\ Mentions(sources, filters.having)
        BY DEF BindingInv, FiltersMention
      <3> QED BY <2>1, <2>4, <3>1
    <2>5. CASE R \in {t.x.refs : t \in Elements(groupBy)}
      BY <2>1, <2>5 DEF BindingInv, TermsMention, Elements
    <2>6. CASE R \in {t.x.refs : t \in Elements(order)}
      BY <2>1, <2>6 DEF TermsMention, Elements
    <2> QED BY <2>1, <2>2, <2>3, <2>4, <2>5, <2>6
  <1>2. OneSourceEach(sources)
    BY DEF BindingInv, SourcesBound
  <1> QED BY <1>1, <1>2, MentionedIs

\* FinishSelect, in the terms of the lemmas above.
LEMMA Filled ==
    ASSUME DeclarationInv, NEW clause, FinishSelect(clause), phase' # "refused"
    PROVE  /\ orderBy' = StableOrder /\ DOMAIN sources' = DOMAIN sources
           /\ \A i \in DOMAIN sources :
                  /\ sources'[i].alias = sources[i].alias
                  /\ sources'[i].object = sources[i].object
                  /\ sources'[i].join = sources[i].join
                  /\ sources'[i].cardinality = sources[i].cardinality
                  /\ sources'[i].on = sources[i].on
                  /\ sources'[i].fields = SourceFields(sources[i], StableOrder)
           /\ UNCHANGED <<schema, projections, resultSchema, filters, groupBy>>
  <1> DEFINE fields(i) == SourceFields(sources[i], StableOrder)
             filled(i) == [sources[i] EXCEPT !.fields = fields(i)]
  <1>1. /\ orderBy' = StableOrder /\ sources' = [i \in DOMAIN sources |-> filled(i)]
        /\ UNCHANGED <<schema, projections, resultSchema, filters, groupBy>>
    BY Zenon DEF FinishSelect, Refuse
  <1>2. SourceShapes
    BY DEF DeclarationInv, SourcesInv
  <1> HIDE DEF fields
  <1>3. \A i \in DOMAIN sources :
            /\ filled(i).alias = sources[i].alias /\ filled(i).object = sources[i].object
            /\ filled(i).join = sources[i].join
            /\ filled(i).cardinality = sources[i].cardinality
            /\ filled(i).on = sources[i].on /\ filled(i).fields = fields(i)
    BY <1>2 DEF SourceShapes
  <1> HIDE DEF filled
  <1> QED BY <1>1, <1>3 DEF fields

LEMMA FilledBinding ==
    ASSUME DeclarationInv, BindingInv, NEW clause, FinishSelect(clause), phase' # "refused"
    PROVE  BindingInv'
  <1>1. /\ orderBy' = StableOrder /\ DOMAIN sources' = DOMAIN sources
        /\ \A i \in DOMAIN sources :
               /\ sources'[i].alias = sources[i].alias
               /\ sources'[i].object = sources[i].object
               /\ sources'[i].cardinality = sources[i].cardinality
               /\ sources'[i].on = sources[i].on
               /\ sources'[i].fields = SourceFields(sources[i], StableOrder)
        /\ UNCHANGED <<projections, filters, groupBy>>
    BY Filled
  <1>2. IsSequence(sources)
    BY DEF DeclarationInv, SourcesInv
  <1>3. IsSequence(StableOrder) /\ TermsMention(sources, StableOrder)
    BY <1>2, OrderMentions
  <1>4. OneSourceEach(sources) /\ OneSourceEach(sources')
    BY <1>1 DEF BindingInv, SourcesBound, OneSourceEach
  <1>5. Continues(sources', sources)
    BY <1>1 DEF Continues
  <1>6. \A x : Mentions(sources, x) => Mentions(sources', x)
    BY <1>4, <1>5, MentionsMore
  <1>7. ASSUME NEW i \in DOMAIN sources PROVE SourceBound(sources'[i])
    <2>1. SourceBound(sources[i])
      BY DEF BindingInv, SourcesBound
    <2>2. ASSUME NEW f \in SourceFields(sources[i], StableOrder)
          PROVE  f \in ColumnsOf(sources[i].object)
      <3>1. PICK ref \in References(StableOrder) : ref.alias = sources[i].alias /\ f = ref.field
        BY DEF SourceFields
      <3>2. PICK k \in DOMAIN sources : Delivers(sources[k], ref)
        BY <1>3, ReferencesAre
      <3>3. k = i
        BY <1>4, <3>1, <3>2 DEF Delivers, OneSourceEach
      <3> QED BY <3>1, <3>2, <3>3 DEF Delivers
    <2> QED BY <1>1, <2>1, <2>2 DEF SourceBound
  <1>8. SourcesBound(sources')
    BY <1>1, <1>4, <1>6, <1>7 DEF BindingInv, SourcesBound
  <1> QED BY <1>1, <1>3, <1>6, <1>8 DEF BindingInv, TermsMention, FiltersMention

LEMMA FilledDelivers ==
    ASSUME DeclarationInv, BindingInv, NEW clause, FinishSelect(clause), phase' # "refused"
    PROVE  SourcesDeliverReferences'
  <1>1. /\ orderBy' = StableOrder /\ DOMAIN sources' = DOMAIN sources
        /\ \A i \in DOMAIN sources :
               /\ sources'[i].alias = sources[i].alias
               /\ sources'[i].on = sources[i].on
               /\ sources'[i].fields = SourceFields(sources[i], StableOrder)
        /\ UNCHANGED <<projections, filters, groupBy>>
    BY Filled
  <1>2. TermsMention(sources, StableOrder)
    BY OrderMentions DEF DeclarationInv, SourcesInv
  <1>3. References(orderBy)' = References(StableOrder)
    <2> DEFINE order == StableOrder
    <2>1. {s.on.refs : s \in Elements(sources')} = {s.on.refs : s \in Elements(sources)}
      BY <1>1 DEF Elements
    <2> HIDE DEF order
    <2>2. orderBy' = order
      BY <1>1 DEF order
    <2>3. References(orderBy)' = References(order)
      BY <1>1, <2>1, <2>2 DEF References
    <2> QED BY <2>3 DEF order
  <1> SUFFICES ASSUME NEW ref \in References(StableOrder)
               PROVE  \E s \in Elements(sources') : s.alias = ref.alias /\ ref.field \in s.fields
    BY <1>3 DEF SourcesDeliverReferences
  <1>4. PICK i \in DOMAIN sources : Delivers(sources[i], ref)
    BY <1>2, ReferencesAre
  <1>5. ref.field \in SourceFields(sources[i], StableOrder)
    BY <1>4 DEF SourceFields, Delivers
  <1>6. sources'[i] \in Elements(sources')
    BY <1>1 DEF Elements
  <1> QED BY <1>1, <1>4, <1>5, <1>6 DEF Delivers

LEMMA FilledIsOrdered ==
    ASSUME DeclarationInv, BindingInv, NEW clause, FinishSelect(clause), phase' # "refused"
    PROVE  UngroupedOrderIsTotal'
  <1>1. /\ orderBy' = StableOrder /\ DOMAIN sources' = DOMAIN sources
        /\ \A i \in DOMAIN sources : sources'[i].alias = sources[i].alias
        /\ UNCHANGED <<projections, groupBy>>
    BY Filled
  <1>2. \A t \in Elements(TieCandidates) : OrderContains(StableOrder, t.x)
    BY OrderMentions DEF DeclarationInv, SourcesInv
  <1> SUFFICES ASSUME groupBy = <<>>, ~SingleRow, NEW i \in DOMAIN sources
               PROVE  \E t \in Elements(StableOrder) :
                          /\ t.x.kind = "field" /\ t.x.alias = sources[i].alias
                          /\ t.x.field = "id"
    <2>1. SingleRow' = SingleRow
      BY <1>1 DEF SingleRow
    <2> QED BY <1>1, <2>1 DEF UngroupedOrderIsTotal, Elements
  <1>3. IdTerm(sources[i].alias) \in Elements(TieCandidates)
    <2> DEFINE ties == [k \in DOMAIN sources |-> IdTerm(sources[k].alias)]
    <2>1. TieCandidates = ties
      BY DEF TieCandidates
    <2>2. DOMAIN ties = DOMAIN sources /\ ties[i] = IdTerm(sources[i].alias)
      OBVIOUS
    <2> HIDE DEF ties
    <2> QED BY <2>1, <2>2 DEF Elements
  <1>4. OrderContains(StableOrder, IdTerm(sources[i].alias).x)
    BY <1>2, <1>3
  <1> DEFINE x == IdTerm(sources[i].alias).x
  <1>5. x.kind = "field" /\ x.alias = sources[i].alias /\ x.field = "id"
    BY IdTermIs
  <1> HIDE DEF x
  <1> QED BY <1>4, <1>5 DEF OrderContains, x

-----------------------------------------------------------------------------
(***************************************************************************)
(* The clauses that bind expressions to the finished FROM tree.             *)
(***************************************************************************)
LEMMA BoundExpression ==
    ASSUME DeclarationInv, BindingInv, phase \notin {"metadata", "refused"},
           NEW tree \in Trees, NEW x, x = Compiled(sources, tree), Valid(x)
    PROVE  HasUnit(x) /\ Mentions(sources, x)
  <1>1. /\ ValidDeclarations /\ OneSourceEach(sources)
        /\ \A i \in DOMAIN sources : sources[i].object \in Objects
    BY DEF DeclarationInv, BindingInv, SourcesBound, SourceBound
  <1> QED BY <1>1, CompiledIs

LEMMA ScopeCompiled ==
    ASSUME DeclarationInv, NEW srcs, OneSourceEach(srcs),
           \A i \in DOMAIN srcs : srcs[i].object \in Objects /\ srcs[i].alias \in Aliases,
           NEW trees, NEW tree \in trees
    PROVE  Compiled(srcs, tree) \in CompiledFrom(trees)
  <1> DEFINE objects == ObjectsByAlias(srcs)
             names == DOMAIN objects
             all == UNION {[N -> Objects] : N \in SUBSET Aliases}
  <1>1. /\ \A a \in names : a \in Aliases /\ objects[a] \in Objects
    BY ObjectsAre
  <1>2. objects = [a \in names |-> objects[a]]
    BY DEF ObjectsByAlias
  <1> HIDE DEF objects
  <1>3. objects \in [names -> Objects] /\ names \in SUBSET Aliases
    BY <1>1, <1>2
  <1>4. objects \in all
    BY <1>3
  <1> HIDE DEF all
  <1>5. Compiled(srcs, tree) = CompileExpression(ScopeOf(schema, objects), Trees, tree)
    BY DEF Compiled, Scope, objects
  <1>6. schema \in Schemas
    BY DEF DeclarationInv
  <1> QED BY <1>4, <1>5, <1>6 DEF CompiledFrom, all

\* CompileProjection, in the terms of the lemmas above.
LEMMA Projected ==
    ASSUME DeclarationInv, BindingInv, NEW alias, NEW tree \in SelectTrees,
           CompileProjection(alias, tree), phase' # "refused"
    PROVE  \E x : /\ x = Compiled(sources, tree) /\ Valid(x) /\ HasUnit(x) /\ Mentions(sources, x)
                  /\ projections' = Append(projections, [alias |-> alias, x |-> x, tree |-> tree])
                  /\ resultSchema' = Append(resultSchema, TypedResult(AuthoredResult(alias), x))
                  /\ ValidResult(AuthoredResult(alias), x)
                  /\ phase = "select" /\ Len(projections) < MaximumColumns
                  /\ UNCHANGED <<phase, schema, sources, filters, groupBy, orderBy, limit>>
  <1> DEFINE x == Compiled(sources, tree)
  <1>1. /\ Valid(x)
        /\ projections' = Append(projections, [alias |-> alias, x |-> x, tree |-> tree])
        /\ resultSchema' = Append(resultSchema, TypedResult(AuthoredResult(alias), x))
        /\ ValidResult(AuthoredResult(alias), x)
        /\ phase = "select" /\ Len(projections) < MaximumColumns
        /\ UNCHANGED <<phase, schema, sources, filters, groupBy, orderBy, limit>>
    BY Zenon DEF CompileProjection, Refuse
  <1>2. tree \in Trees
    BY CompilerAssumption
  <1>3. HasUnit(x) /\ Mentions(sources, x)
    BY <1>1, <1>2, BoundExpression
  <1> HIDE DEF x
  <1> QED BY <1>1, <1>3 DEF x

LEMMA ProjectionBinding ==
    ASSUME DeclarationInv, BindingInv, NEW alias, NEW tree \in SelectTrees,
           CompileProjection(alias, tree), phase' # "refused"
    PROVE  BindingInv'
  <1>1. PICK x : /\ Mentions(sources, x)
                 /\ projections' = Append(projections, [alias |-> alias, x |-> x, tree |-> tree])
                 /\ UNCHANGED <<sources, filters, groupBy, orderBy>>
    BY Projected
  <1> DEFINE p == [alias |-> alias, x |-> x, tree |-> tree]
  <1>2. p.x = x
    OBVIOUS
  <1> HIDE DEF p
  <1>3. projections' = Append(projections, p)
    BY <1>1 DEF p
  <1>4. TermsMention(sources, projections')
    BY <1>1, <1>2, <1>3, TermAdded DEF DeclarationInv, ResultsInv, BindingInv
  <1> QED BY <1>1, <1>4 DEF BindingInv

LEMMA FilterBinding ==
    ASSUME DeclarationInv, BindingInv, NEW clause \in {"where", "having"}, NEW tree \in FilterTrees,
           CompileFilter(clause, tree), phase' # "refused"
    PROVE  BindingInv'
  <1> DEFINE x == Compiled(sources, tree)
  <1>1. /\ Valid(x) /\ phase = clause /\ filters' = [filters EXCEPT ![clause] = x]
        /\ UNCHANGED <<sources, projections, groupBy, orderBy>>
    BY Zenon DEF CompileFilter, Refuse
  <1>2. tree \in Trees
    BY CompilerAssumption
  <1>3. Mentions(sources, x)
    BY <1>1, <1>2, BoundExpression
  <1> HIDE DEF x
  <1>4. FiltersMention(sources, filters')
    BY <1>1, <1>3 DEF BindingInv, FiltersMention
  <1> QED BY <1>1, <1>4 DEF BindingInv

LEMMA GroupBinding ==
    ASSUME DeclarationInv, BindingInv, NEW tree \in GroupTrees,
           CompileGroupTerm(tree), phase' # "refused"
    PROVE  BindingInv'
  <1> DEFINE x == Compiled(sources, tree)
             t == Term(x, tree)
  <1>1. /\ Valid(x) /\ phase = "group" /\ groupBy' = Append(groupBy, t)
        /\ UNCHANGED <<sources, projections, filters, orderBy>>
    BY Zenon DEF CompileGroupTerm, Refuse
  <1>2. tree \in Trees
    BY CompilerAssumption
  <1>3. Mentions(sources, x)
    BY <1>1, <1>2, BoundExpression
  <1>4. t.x = x
    BY DEF Term
  <1> HIDE DEF x, t
  <1>5. IsSequence(groupBy') /\ TermsMention(sources, groupBy')
    BY <1>1, <1>3, <1>4, TermAdded DEF BindingInv
  <1> QED BY <1>1, <1>5 DEF BindingInv

ProjectionsHaveUnits == \A i \in DOMAIN projections : HasUnit(projections[i].x)

LEMMA OrderTermBinding ==
    ASSUME DeclarationInv, BindingInv, ProjectionsHaveUnits, NEW tree \in OrderTrees,
           CompileOrderByTerm(tree), phase' # "refused"
    PROVE  BindingInv'
  <1> DEFINE x == CompileOrderTerm(Scope(sources), ProjectionByAlias, Trees, tree)
             t == Term(x, tree)
  <1>1. /\ Valid(x) /\ phase = "order" /\ orderBy' = Append(orderBy, t)
        /\ UNCHANGED <<sources, projections, filters, groupBy>>
    BY Zenon DEF CompileOrderByTerm, Refuse
  <1>2. tree \in Trees /\ IsForest(Trees, Depth)
    BY CompilerAssumption
  <1>3. /\ ValidDeclarations /\ OneSourceEach(sources)
        /\ \A i \in DOMAIN sources : sources[i].object \in Objects
    BY <1>1 DEF DeclarationInv, BindingInv, SourcesBound, SourceBound
  <1>4. IsScope(Scope(sources))
    BY <1>3, ScopesAre
  <1>5. \A name \in DOMAIN ProjectionByAlias : HasUnit(ProjectionByAlias[name])
    BY DEF ProjectionByAlias, ProjectionsHaveUnits, Elements
  <1> DEFINE p == ProjectionByAlias
  <1> HIDE DEF p
  <1>6. x = CompileOrderTerm(Scope(sources), p, Trees, tree) /\ \A name \in DOMAIN p : HasUnit(p[name])
    BY <1>5 DEF p
  <1>7. Sound(Scope(sources), x)
    BY <1>1, <1>2, <1>4, <1>6, OrderTermSound
  <1>8. t.x = x
    BY DEF Term
  <1> HIDE DEF x, t
  <1>9. Mentions(sources, x)
    <2> DEFINE d == [aliases |-> ObjectsByAlias(sources)]
    <2>1. d.aliases = Scope(sources).aliases
      BY ScopeIs
    <2> HIDE DEF d
    <2>2. Reaches(d, x)
      BY <1>7, <2>1, ReachesFarther DEF Sound
    <2> QED BY <2>2 DEF d, Mentions
  <1>10. IsSequence(orderBy') /\ TermsMention(sources, orderBy')
    BY <1>1, <1>8, <1>9, TermAdded DEF BindingInv
  <1> QED BY <1>1, <1>10 DEF BindingInv

LEMMA BindingUnchanged ==
    ASSUME BindingInv, UNCHANGED <<sources, projections, filters, groupBy, orderBy>>
    PROVE  BindingInv'
  BY DEF BindingInv

LEMMA BindingStep ==
    ASSUME DeclarationInv, BindingInv, ProjectionsHaveUnits, [Next]_vars
    PROVE  BindingInv'
  <1> USE DEF Refuse, plan
  <1>1. CASE CompileMetadata
    BY <1>1, BindingUnchanged DEF CompileMetadata
  <1>2. CASE Parse
    BY <1>2, BindingUnchanged DEF Parse
  <1>3. ASSUME NEW object, NEW alias \in Aliases, CompileRoot(object, alias) PROVE BindingInv'
    BY <1>3, RootBinding, BindingUnchanged DEF CompileRoot
  <1>4. ASSUME NEW object, NEW alias \in Aliases, NEW join, NEW tree \in OnTrees,
               CompileJoin(object, alias, join, tree)
        PROVE  BindingInv'
    BY <1>4, JoinBinding, BindingUnchanged DEF CompileJoin
  <1>5. CASE FinishSources
    BY <1>5, BindingUnchanged DEF FinishSources
  <1>6. ASSUME NEW alias, NEW tree \in SelectTrees, CompileProjection(alias, tree)
        PROVE  BindingInv'
    BY <1>6, ProjectionBinding, BindingUnchanged DEF CompileProjection
  <1>7. CASE FinishProjections
    BY <1>7, BindingUnchanged DEF FinishProjections
  <1>8. ASSUME NEW clause \in {"where", "having"}, SkipFilter(clause) PROVE BindingInv'
    BY <1>8, BindingUnchanged DEF SkipFilter
  <1>9. ASSUME NEW clause \in {"where", "having"}, NEW tree \in FilterTrees,
               CompileFilter(clause, tree)
        PROVE  BindingInv'
    <2>1. CASE phase' = "refused"
      <3>1. After(clause) # "refused"
        BY DEF After
      <3>2. UNCHANGED plan
        BY Zenon, <1>9, <2>1, <3>1 DEF CompileFilter
      <3> QED BY <3>2, BindingUnchanged
    <2>2. CASE phase' # "refused"
      BY <1>9, <2>2, FilterBinding
    <2> QED BY <2>1, <2>2
  <1>10. ASSUME NEW tree \in GroupTrees, CompileGroupTerm(tree) PROVE BindingInv'
    BY <1>10, GroupBinding, BindingUnchanged DEF CompileGroupTerm
  <1>11. CASE FinishGroupBy
    BY <1>11, BindingUnchanged DEF FinishGroupBy
  <1>12. ASSUME NEW tree \in OrderTrees, CompileOrderByTerm(tree) PROVE BindingInv'
    BY <1>12, OrderTermBinding, BindingUnchanged DEF CompileOrderByTerm
  <1>13. ASSUME NEW clause, FinishSelect(clause) PROVE BindingInv'
    BY <1>13, FilledBinding, BindingUnchanged DEF FinishSelect
  <1>14. CASE ValidateAmplification
    BY <1>14, BindingUnchanged DEF ValidateAmplification
  <1>15. CASE UNCHANGED vars
    BY <1>15, BindingUnchanged DEF vars
  <1> QED BY <1>1, <1>2, <1>3, <1>4, <1>5, <1>6, <1>7, <1>8, <1>9, <1>10, <1>11, <1>12, <1>13,
             <1>14, <1>15 DEF Next

-----------------------------------------------------------------------------
(***************************************************************************)
(* The results: what a projection is published as.                          *)
(***************************************************************************)
MeasuresCompiled == \A i \in DOMAIN projections : projections[i].x.measures \in CompiledMeasures

ResultsScaled ==
    /\ ProjectionsHaveUnits
    /\ ResultsKeepScale
    /\ MeasuresCompiled
    /\ Len(projections) <= MaximumColumns

LEMMA TypedResultScale ==
    ASSUME NEW result, DOMAIN result = ResultFields, NEW x, HasUnit(x), ValidResult(result, x),
           NEW r, r = TypedResult(result, x),
           r.type \in {"currency", "decimal"}, r.type = x.type
    PROVE  r.scale = x.scale
  <1> DEFINE typed == IF result.type = "" THEN TypedLike(result, x) ELSE result
             fills == typed.type \in {"decimal", "currency"} /\ x.prec > 0
             kind == IF typed.kind = "" THEN IF x.measures = {} THEN "dimension" ELSE "measure"
                     ELSE typed.kind
             prec == IF fills /\ typed.prec = 0 THEN x.prec ELSE typed.prec
             scale == IF fills /\ typed.scale = 0 THEN x.scale ELSE typed.scale
  <1>1. r = [typed EXCEPT !.kind = kind, !.prec = prec, !.scale = scale]
    BY DEF TypedResult
  <1>2. DOMAIN typed = ResultFields
    BY DEF TypedLike, TypedAs
  <1>3. \A k, p, c : LET t == [typed EXCEPT !.kind = k, !.prec = p, !.scale = c]
                     IN  t.type = typed.type /\ t.scale = c
    <2> HIDE DEF typed
    <2> QED BY <1>2 DEF ResultFields
  <1>4. r.type = typed.type /\ r.scale = scale
    <2> HIDE DEF typed, kind, prec, scale
    <2> QED BY <1>1, <1>3
  <1>5. x.prec \in Nat /\ (x.prec = 0 => x.scale = 0)
    BY PrecisionsAreNat DEF HasUnit
  <1>6. CASE result.type = ""
    <2>1. typed.scale = x.scale
      BY <1>2, <1>6 DEF TypedLike, TypedAs, ResultFields
    <2> HIDE DEF typed
    <2> QED BY <1>4, <2>1
  <1>7. CASE result.type # ""
    <2>1. typed = result
      BY <1>7
    <2> HIDE DEF typed
    <2>2. ResultCompatible(result, x) /\ result.type = x.type
      BY <1>4, <1>7, <2>1 DEF ValidResult
    <2>3. result.scale \in {0, x.scale}
      BY <1>4, <2>1, <2>2 DEF ResultCompatible
    <2> QED BY <1>4, <1>5, <2>1, <2>2, <2>3
  <1> QED BY <1>6, <1>7

LEMMA ResultsUnchanged ==
    ASSUME ResultsScaled, UNCHANGED <<projections, resultSchema>>
    PROVE  ResultsScaled'
  BY DEF ResultsScaled, ProjectionsHaveUnits, ResultsKeepScale, MeasuresCompiled

LEMMA ProjectionScaled ==
    ASSUME DeclarationInv, BindingInv, ResultsScaled, NEW alias, NEW tree \in SelectTrees,
           CompileProjection(alias, tree), phase' # "refused"
    PROVE  ResultsScaled'
  <1>1. PICK x : /\ x = Compiled(sources, tree) /\ Valid(x) /\ HasUnit(x)
                 /\ projections' = Append(projections, [alias |-> alias, x |-> x, tree |-> tree])
                 /\ resultSchema' = Append(resultSchema, TypedResult(AuthoredResult(alias), x))
                 /\ ValidResult(AuthoredResult(alias), x)
                 /\ Len(projections) < MaximumColumns
    BY Projected
  <1> DEFINE p == [alias |-> alias, x |-> x, tree |-> tree]
             r == TypedResult(AuthoredResult(alias), x)
             n == Len(projections)
  <1>2. p.x = x
    OBVIOUS
  <1>3. /\ r.type \in {"currency", "decimal"} /\ r.type = x.type => r.scale = x.scale
    BY <1>1, AuthoredFields, TypedResultScale DEF DeclarationInv
  <1>4. x.measures \in CompiledMeasures
    <2>1. /\ OneSourceEach(sources)
          /\ \A i \in DOMAIN sources : sources[i].object \in Objects /\ sources[i].alias \in Aliases
      BY DEF BindingInv, SourcesBound, SourceBound
    <2>2. x \in CompiledFrom(SelectTrees)
      BY <1>1, <2>1, ScopeCompiled
    <2> QED BY <1>1, <2>2 DEF CompiledMeasures
  <1> HIDE DEF p, r
  <1>5. IsSequence(projections) /\ IsSequence(resultSchema) /\ Len(projections) = Len(resultSchema)
    BY DEF DeclarationInv, ResultsInv
  <1>6. projections' = Append(projections, p) /\ resultSchema' = Append(resultSchema, r)
    BY <1>1 DEF p, r
  <1>7. /\ n \in Nat /\ DOMAIN projections = 1..n
        /\ DOMAIN projections' = 1..(n + 1) /\ Len(projections') = n + 1
        /\ \A i \in 1..n : projections'[i] = projections[i]
        /\ projections'[n + 1] = p
    BY ONLY <1>5, <1>6, Extended
  <1>8. /\ \A i \in 1..n : resultSchema'[i] = resultSchema[i]
        /\ resultSchema'[n + 1] = r
    BY ONLY <1>5, <1>6, Extended
  <1>9. \A i \in 1..(n + 1) : i \in 1..n \/ i = n + 1
    BY ONLY <1>7
  <1>10. n + 1 <= MaximumColumns
    BY <1>1, <1>7, CompilerAssumption
  <1> HIDE DEF n
  <1>11. ProjectionsHaveUnits' /\ MeasuresCompiled'
    BY <1>1, <1>2, <1>4, <1>7, <1>9 DEF ResultsScaled, ProjectionsHaveUnits, MeasuresCompiled
  <1>12. ResultsKeepScale'
    BY <1>2, <1>3, <1>7, <1>8, <1>9 DEF ResultsScaled, ResultsKeepScale
  <1> QED BY <1>7, <1>10, <1>11, <1>12 DEF ResultsScaled

LEMMA ResultsStep ==
    ASSUME DeclarationInv, BindingInv, ResultsScaled, [Next]_vars
    PROVE  ResultsScaled'
  <1> USE DEF Refuse, plan
  <1>1. ASSUME NEW alias, NEW tree \in SelectTrees, CompileProjection(alias, tree)
        PROVE  ResultsScaled'
    BY <1>1, ProjectionScaled, ResultsUnchanged DEF CompileProjection
  <1>2. ASSUME NEW clause \in {"where", "having"}, NEW tree, CompileFilter(clause, tree)
        PROVE  ResultsScaled'
    <2>1. UNCHANGED <<projections, resultSchema>>
      BY Zenon, <1>2 DEF CompileFilter
    <2> QED BY <2>1, ResultsUnchanged
  <1>3. ASSUME NEW object, NEW alias, NEW join, NEW tree, CompileJoin(object, alias, join, tree)
        PROVE  ResultsScaled'
    <2>1. UNCHANGED <<projections, resultSchema>>
      BY Zenon, <1>3 DEF CompileJoin
    <2> QED BY <2>1, ResultsUnchanged
  <1>4. ASSUME NEW object, NEW alias, CompileRoot(object, alias) PROVE ResultsScaled'
    BY <1>4, ResultsUnchanged DEF CompileRoot
  <1>5. ASSUME NEW tree, CompileGroupTerm(tree) \/ CompileOrderByTerm(tree) PROVE ResultsScaled'
    BY <1>5, ResultsUnchanged DEF CompileGroupTerm, CompileOrderByTerm
  <1>6. ASSUME NEW clause, FinishSelect(clause) \/ SkipFilter(clause) PROVE ResultsScaled'
    BY <1>6, ResultsUnchanged DEF FinishSelect, SkipFilter
  <1>7. CASE \/ CompileMetadata \/ Parse \/ FinishSources \/ FinishProjections \/ FinishGroupBy
             \/ ValidateAmplification \/ UNCHANGED vars
    BY <1>7, ResultsUnchanged DEF CompileMetadata, Parse, FinishSources, FinishProjections,
       FinishGroupBy, ValidateAmplification, vars
  <1> QED BY <1>1, <1>2, <1>3, <1>4, <1>5, <1>6, <1>7 DEF Next

-----------------------------------------------------------------------------
(***************************************************************************)
(* The control of a compilation, and its limit.                             *)
(***************************************************************************)
Phases ==
    {"metadata", "parse", "from", "select", "where", "group", "having", "order",
     "amplification", "accepted", "refused"}

ControlInv ==
    /\ phase \in Phases
    /\ DOMAIN limit = {"rows", "explicit", "ordered"}
    /\ limit.rows \in 0..MaximumLimit

\* A finished plan has rows to return.
LimitFinished == Complete => limit.rows \in 1..MaximumLimit

LEMMA FilledLimit ==
    ASSUME ControlInv, NEW clause, FinishSelect(clause), phase' # "refused"
    PROVE  ControlInv' /\ LimitFinished'
  <1> DEFINE rows == LimitRows(clause)
  <1>1. /\ clause.given => clause.rows \in 1..MaximumLimit
        /\ phase' = "amplification"
        /\ limit' = [limit EXCEPT !.rows = rows, !.explicit = clause.given]
    BY Zenon DEF FinishSelect, Refuse
  <1>2. rows \in 1..MaximumLimit
    BY <1>1, CompilerAssumption DEF LimitRows
  <1> HIDE DEF rows
  <1> QED BY <1>1, <1>2, CompilerAssumption DEF ControlInv, Phases, LimitFinished

LEMMA ControlStep == ControlInv /\ [Next]_vars => ControlInv'
  <1> SUFFICES ASSUME ControlInv, [Next]_vars PROVE ControlInv'
    OBVIOUS
  <1>0. ASSUME UNCHANGED limit, phase' \in Phases PROVE ControlInv'
    BY <1>0 DEF ControlInv
  <1>1. ASSUME NEW object, NEW alias, CompileRoot(object, alias) PROVE ControlInv'
    BY <1>0, <1>1 DEF CompileRoot, Refuse, plan, ControlInv, Phases
  <1>2. ASSUME NEW object, NEW alias, NEW join, NEW tree, CompileJoin(object, alias, join, tree)
        PROVE  ControlInv'
    <2>1. UNCHANGED limit /\ phase' \in {phase, "refused"}
      <3>1. \/ UNCHANGED <<phase, limit>>
            \/ phase' = "refused" /\ UNCHANGED limit
        BY Zenon, <1>2 DEF CompileJoin, Refuse, plan
      <3> QED BY <3>1
    <2> QED BY <1>0, <2>1 DEF ControlInv, Phases
  <1>3. ASSUME NEW alias, NEW tree, CompileProjection(alias, tree) PROVE ControlInv'
    <2>1. UNCHANGED limit /\ phase' \in {phase, "refused"}
      <3>1. \/ UNCHANGED <<phase, limit>>
            \/ phase' = "refused" /\ UNCHANGED limit
        BY Zenon, <1>3 DEF CompileProjection, Refuse, plan
      <3> QED BY <3>1
    <2> QED BY <1>0, <2>1 DEF ControlInv, Phases
  <1>4. ASSUME NEW clause, NEW tree, CompileFilter(clause, tree) PROVE ControlInv'
    <2>1. UNCHANGED limit /\ phase' \in {After(clause), "refused"}
      <3>1. \/ phase' = After(clause) /\ UNCHANGED limit
            \/ phase' = "refused" /\ UNCHANGED limit
        BY Zenon, <1>4 DEF CompileFilter, Refuse, plan
      <3> QED BY <3>1
    <2> QED BY <1>0, <2>1 DEF After, Phases
  <1>5. ASSUME NEW clause, SkipFilter(clause) PROVE ControlInv'
    BY <1>0, <1>5 DEF SkipFilter, After, Phases, plan
  <1>6. ASSUME NEW tree, CompileGroupTerm(tree) PROVE ControlInv'
    BY <1>0, <1>6 DEF CompileGroupTerm, Refuse, plan, ControlInv, Phases
  <1>7. ASSUME NEW tree, CompileOrderByTerm(tree) PROVE ControlInv'
    <2> DEFINE x == CompileOrderTerm(Scope(sources), ProjectionByAlias, Trees, tree)
    <2>1. \/ phase' = phase /\ limit' = [limit EXCEPT !.ordered = TRUE]
          \/ phase' = "refused" /\ UNCHANGED limit
      BY Zenon, <1>7 DEF CompileOrderByTerm, Refuse, plan
    <2> QED BY <1>0, <2>1 DEF ControlInv, Phases
  <1>8. ASSUME NEW clause, FinishSelect(clause) PROVE ControlInv'
    <2>1. CASE phase' = "refused"
      BY <1>0, <1>8, <2>1 DEF FinishSelect, Refuse, plan, Phases
    <2>2. CASE phase' # "refused"
      BY <1>8, <2>2, FilledLimit
    <2> QED BY <2>1, <2>2
  <1>9. CASE \/ CompileMetadata \/ Parse \/ FinishSources \/ FinishProjections \/ FinishGroupBy
             \/ ValidateAmplification \/ UNCHANGED vars
    BY <1>0, <1>9 DEF CompileMetadata, Parse, FinishSources, FinishProjections, FinishGroupBy,
       ValidateAmplification, vars, Refuse, plan, ControlInv, Phases
  <1> QED BY <1>1, <1>2, <1>3, <1>4, <1>5, <1>6, <1>7, <1>8, <1>9 DEF Next

-----------------------------------------------------------------------------
(***************************************************************************)
(* The finished plan, made by FinishSelect and only looked at after it.     *)
(***************************************************************************)
PlanFinished == SourcesDeliverReferences /\ UngroupedOrderIsTotal /\ LimitFinished

LEMMA FinishedUnchanged ==
    ASSUME PlanFinished, UNCHANGED plan, Complete' => Complete
    PROVE  PlanFinished'
  <1>1. References(orderBy)' = References(orderBy) /\ SingleRow' = SingleRow
    BY DEF References, SingleRow, plan
  <1> QED BY <1>1 DEF PlanFinished, SourcesDeliverReferences, UngroupedOrderIsTotal,
             LimitFinished, plan

LEMMA Unfinished ==
    ASSUME ~Complete'
    PROVE  PlanFinished'
  BY DEF PlanFinished, SourcesDeliverReferences, UngroupedOrderIsTotal, LimitFinished

LEMMA FinishedStep ==
    ASSUME DeclarationInv, BindingInv, ControlInv, PlanFinished, [Next]_vars
    PROVE  PlanFinished'
  <1>1. ASSUME NEW object, NEW alias, CompileRoot(object, alias) PROVE ~Complete'
    BY <1>1 DEF CompileRoot, Refuse, Complete
  <1>2. ASSUME NEW object, NEW alias, NEW join, NEW tree, CompileJoin(object, alias, join, tree)
        PROVE  ~Complete'
    <2>1. phase = "from" /\ (UNCHANGED phase \/ phase' = "refused")
      BY Zenon, <1>2 DEF CompileJoin, Refuse
    <2> QED BY <2>1 DEF Complete
  <1>3. ASSUME NEW alias, NEW tree, CompileProjection(alias, tree) PROVE ~Complete'
    <2>1. phase = "select" /\ (UNCHANGED phase \/ phase' = "refused")
      BY Zenon, <1>3 DEF CompileProjection, Refuse
    <2> QED BY <2>1 DEF Complete
  <1>4. ASSUME NEW clause \in {"where", "having"}, NEW tree, CompileFilter(clause, tree)
        PROVE  ~Complete'
    <2>1. phase' = After(clause) \/ phase' = "refused"
      BY Zenon, <1>4 DEF CompileFilter, Refuse
    <2> QED BY <2>1 DEF Complete, After
  <1>5. ASSUME NEW clause \in {"where", "having"}, SkipFilter(clause) PROVE ~Complete'
    BY <1>5 DEF SkipFilter, After, Complete
  <1>6. ASSUME NEW tree, CompileGroupTerm(tree) PROVE ~Complete'
    BY <1>6 DEF CompileGroupTerm, Refuse, Complete
  <1>7. ASSUME NEW tree, CompileOrderByTerm(tree) PROVE ~Complete'
    <2>1. phase = "order" /\ (UNCHANGED phase \/ phase' = "refused")
      BY Zenon, <1>7 DEF CompileOrderByTerm, Refuse
    <2> QED BY <2>1 DEF Complete
  <1>8. ASSUME NEW clause, FinishSelect(clause) PROVE PlanFinished'
    <2>1. CASE phase' = "refused"
      BY <2>1, Unfinished DEF Complete
    <2>2. CASE phase' # "refused"
      BY <1>8, <2>2, FilledDelivers, FilledIsOrdered, FilledLimit DEF PlanFinished
    <2> QED BY <2>1, <2>2
  <1>9. CASE CompileMetadata \/ Parse \/ FinishSources \/ FinishProjections \/ FinishGroupBy
    <2>1. ~Complete'
      BY <1>9 DEF CompileMetadata, Parse, FinishSources, FinishProjections, FinishGroupBy,
         Refuse, Complete
    <2> QED BY <2>1, Unfinished
  <1>10. CASE ValidateAmplification \/ UNCHANGED vars
    BY <1>10, FinishedUnchanged DEF ValidateAmplification, vars, plan, Complete
  <1> QED BY <1>1, <1>2, <1>3, <1>4, <1>5, <1>6, <1>7, <1>8, <1>9, <1>10, Unfinished DEF Next

-----------------------------------------------------------------------------
(***************************************************************************)
(* The invariant of a whole compilation.                                    *)
(***************************************************************************)
CompilerInv ==
    /\ DeclarationInv
    /\ BindingInv
    /\ ResultsScaled
    /\ ControlInv
    /\ PlanFinished

LEMMA CompilerStarts == Init => CompilerInv
  <1> SUFFICES ASSUME Init PROVE CompilerInv
    OBVIOUS
  <1>1. IsSequence(<<>>) /\ Len(<<>>) = 0 /\ DOMAIN <<>> = {}
    BY DEF IsSequence, Elements
  <1>2. DeclarationInv
    BY <1>1 DEF Init, DeclarationInv, SourcesInv, ResultsInv, SourceShapes,
       CardinalitiesAsserted, ResultsTyped, FromRead, SelectRead
  <1>3. BindingInv
    <2>1. sources = <<>> /\ projections = <<>> /\ groupBy = <<>> /\ orderBy = <<>>
      BY DEF Init
    <2>2. SourcesBound(<<>>)
      BY <1>1 DEF SourcesBound, OneSourceEach
    <2>3. FiltersMention(<<>>, filters)
      <3> DEFINE clauses == [where |-> Blank, having |-> Blank]
      <3>1. /\ DOMAIN clauses = {"where", "having"}
            /\ clauses["where"] = Blank /\ clauses["having"] = Blank
        OBVIOUS
      <3> HIDE DEF clauses
      <3>2. filters = clauses
        BY DEF Init, clauses
      <3> QED BY <3>1, <3>2, BlankMentions DEF FiltersMention
    <2>4. TermsMention(<<>>, <<>>)
      BY <1>1 DEF TermsMention
    <2> QED BY <1>1, <2>1, <2>2, <2>3, <2>4 DEF BindingInv
  <1>4. ResultsScaled
    BY <1>1, CompilerAssumption
    DEF Init, ResultsScaled, ProjectionsHaveUnits, ResultsKeepScale, MeasuresCompiled
  <1>5. ControlInv
    BY CompilerAssumption DEF Init, ControlInv, Phases
  <1>6. PlanFinished
    BY DEF Init, PlanFinished, SourcesDeliverReferences, UngroupedOrderIsTotal, LimitFinished,
       Complete
  <1> QED BY <1>2, <1>3, <1>4, <1>5, <1>6 DEF CompilerInv

LEMMA CompilerStep == CompilerInv /\ [Next]_vars => CompilerInv'
  <1> SUFFICES ASSUME CompilerInv, [Next]_vars PROVE CompilerInv'
    OBVIOUS
  <1>1. /\ DeclarationInv /\ BindingInv /\ ResultsScaled /\ ControlInv /\ PlanFinished
        /\ ProjectionsHaveUnits
    BY DEF CompilerInv, ResultsScaled
  <1> QED BY <1>1, DeclarationStep, BindingStep, ResultsStep, ControlStep, FinishedStep
          DEF CompilerInv

LEMMA CompilerInvHolds == Spec => []CompilerInv
  BY CompilerStarts, CompilerStep, PTL DEF Spec

(***************************************************************************)
(* Every part of a plan keeps its type: the sources are published objects   *)
(* read with columns of their own, and the limit is within the maximum      *)
(* (object_sql_cardinality.go 133-162, object_sql_validation.go 362-405).   *)
(***************************************************************************)
THEOREM PlansAlwaysTyped == Spec => []TypeOK
  <1>1. CompilerInv => TypeOK
    <2> SUFFICES ASSUME CompilerInv PROVE TypeOK
      OBVIOUS
    <2>1. /\ phase \in Phases /\ schema \in Schemas
          /\ Len(projections) <= MaximumColumns /\ Len(resultSchema) = Len(projections)
          /\ limit.rows \in 0..MaximumLimit
      BY DEF CompilerInv, ControlInv, DeclarationInv, ResultsInv, ResultsScaled
    <2>2. \A s \in Elements(sources) : SourceBound(s)
      BY DEF CompilerInv, BindingInv, SourcesBound, Elements
    <2> QED BY <2>1, <2>2 DEF TypeOK, Phases, SourceBound
  <1> QED BY <1>1, CompilerInvHolds, PTL

(***************************************************************************)
(* A source is read with every column the finished plan mentions, the tie   *)
(* terms of the compiler included (object_sql_cardinality.go 133-162), for  *)
(* any statement over any metadata.                                         *)
(***************************************************************************)
THEOREM SourcesAlwaysDeliver == Spec => []SourcesDeliverReferences
  <1>1. CompilerInv => SourcesDeliverReferences
    BY DEF CompilerInv, PlanFinished
  <1> QED BY <1>1, CompilerInvHolds, PTL

(***************************************************************************)
(* A published amount has the scale its expression is computed with         *)
(* (object_sql_validation.go 297-333), whatever the author declared.        *)
(***************************************************************************)
THEOREM ResultsAlwaysKeepScale == Spec => []ResultsKeepScale
  <1>1. CompilerInv => ResultsKeepScale
    BY DEF CompilerInv, ResultsScaled
  <1> QED BY <1>1, CompilerInvHolds, PTL

(***************************************************************************)
(* The order of an ungrouped plan contains the id of every source it joins  *)
(* (object_sql_validation.go 407-430), whatever the author ordered by.      *)
(***************************************************************************)
THEOREM UngroupedOrderIsAlwaysTotal == Spec => []UngroupedOrderIsTotal
  <1>1. CompilerInv => UngroupedOrderIsTotal
    BY DEF CompilerInv, PlanFinished
  <1> QED BY <1>1, CompilerInvHolds, PTL

-----------------------------------------------------------------------------
(***************************************************************************)
(* The compilation follows JoinPlan.  The cardinality of a join depends on  *)
(* the aliases and the objects of the sources only, so what the compiler    *)
(* infers is what JoinPlan does.                                            *)
(***************************************************************************)
LEMMA SameInference ==
    ASSUME NEW srcs, NEW alias, NEW eqs
    PROVE  Plan!InferJoinCardinality(srcs, alias, eqs) = InferJoinCardinality(srcs, alias, eqs)
  BY Zenon
  DEF Plan!InferJoinCardinality, Plan!CardinalityOf, Plan!UsableEqualities, Plan!ColumnField,
      Plan!Position, Plan!FieldUnique, Plan!JoinEqualityBacked, Plan!RelationTargets,
      Plan!Oriented, Plan!FieldOf, Plan!Envelope, Plan!PlainField,
      InferJoinCardinality, CardinalityOf, UsableEqualities, ColumnField, Position, FieldUnique,
      JoinEqualityBacked, RelationTargets, Oriented, FieldOf, Envelope, PlainField

LEMMA SameColumns == \A object : Plan!ColumnsOf(object) = ColumnsOf(object)
  BY DEF Plan!ColumnsOf, ColumnsOf, Plan!Envelope, Envelope, Plan!PlainField, PlainField

Alike(srcs, others) ==
    /\ DOMAIN srcs = DOMAIN others
    /\ \A i \in DOMAIN srcs :
           srcs[i].alias = others[i].alias /\ srcs[i].object = others[i].object

Within(srcs, eqs) ==
    \A eq \in eqs : eq.left.alias \in SourceAliases(srcs) /\ eq.right.alias \in SourceAliases(srcs)

LEMMA AlikePlaces ==
    ASSUME NEW srcs, NEW others, OneSourceEach(srcs), Alike(srcs, others)
    PROVE  \A a \in SourceAliases(srcs) :
               /\ Position(srcs, a) = Position(others, a)
               /\ srcs[Position(srcs, a)].object = others[Position(others, a)].object
  <1> SUFFICES ASSUME NEW i \in DOMAIN srcs
               PROVE  /\ Position(srcs, srcs[i].alias) = i
                      /\ Position(others, srcs[i].alias) = i
                      /\ srcs[i].object = others[i].object
    BY DEF SourceAliases
  <1>1. OneSourceEach(others)
    BY DEF OneSourceEach, Alike
  <1>2. others[i].alias = srcs[i].alias /\ i \in DOMAIN others
    BY DEF Alike
  <1>3. Position(others, others[i].alias) = i
    BY <1>1, <1>2, LookUp
  <1> QED BY <1>2, <1>3, LookUp DEF Alike

\* The parts of the inference that look at the sources.
UsableEquality(srcs, alias, eq) ==
    /\ eq.right.alias = alias
    /\ Position(srcs, eq.left.alias) < Position(srcs, alias)
    /\ JoinEqualityBacked(
           srcs[Position(srcs, eq.left.alias)].object, ColumnField(srcs, eq.left), eq.left.field,
           srcs[Position(srcs, alias)].object, ColumnField(srcs, eq.right), eq.right.field)

LEMMA InferredFrom ==
    ASSUME NEW srcs, NEW alias, NEW eqs
    PROVE  UsableEqualities(srcs, alias, eqs)
               = {eq \in {Oriented(e, alias) : e \in eqs} : UsableEquality(srcs, alias, eq)}
  BY Zenon DEF UsableEqualities, UsableEquality

LEMMA AlikeInference ==
    ASSUME NEW srcs, NEW others, OneSourceEach(srcs), Alike(srcs, others),
           NEW alias \in SourceAliases(srcs), NEW eqs, Within(srcs, eqs)
    PROVE  InferJoinCardinality(srcs, alias, eqs) = InferJoinCardinality(others, alias, eqs)
  <1> DEFINE O == {Oriented(e, alias) : e \in eqs}
  <1>1. ASSUME NEW eq \in O
        PROVE  eq.left.alias \in SourceAliases(srcs) /\ eq.right.alias \in SourceAliases(srcs)
    <2>1. PICK e \in eqs : eq = Oriented(e, alias)
      OBVIOUS
    <2>2. eq = e \/ (eq.left = e.right /\ eq.right = e.left)
      BY <2>1 DEF Oriented
    <2> QED BY <2>2 DEF Within
  <1>2. \A a \in SourceAliases(srcs) :
            /\ Position(srcs, a) = Position(others, a)
            /\ srcs[Position(srcs, a)].object = others[Position(others, a)].object
    BY AlikePlaces
  <1>3. ASSUME NEW eq \in O
        PROVE  /\ ColumnField(srcs, eq.left) = ColumnField(others, eq.left)
               /\ ColumnField(srcs, eq.right) = ColumnField(others, eq.right)
    BY <1>1, <1>2 DEF ColumnField
  <1>4. ASSUME NEW eq \in O
        PROVE  /\ UsableEquality(srcs, alias, eq) <=> UsableEquality(others, alias, eq)
               /\ CardinalityOf(srcs, eq) = CardinalityOf(others, eq)
    <2>1. UsableEquality(srcs, alias, eq) <=> UsableEquality(others, alias, eq)
      BY <1>1, <1>2, <1>3 DEF UsableEquality
    <2>2. CardinalityOf(srcs, eq) = CardinalityOf(others, eq)
      BY Zenon, <1>3 DEF CardinalityOf
    <2> QED BY <2>1, <2>2
  <1>5. UsableEqualities(srcs, alias, eqs) = {eq \in O : UsableEquality(srcs, alias, eq)}
    BY Zenon, InferredFrom
  <1>6. UsableEqualities(others, alias, eqs) = {eq \in O : UsableEquality(others, alias, eq)}
    BY Zenon, InferredFrom
  <1>7. UsableEqualities(srcs, alias, eqs) = UsableEqualities(others, alias, eqs)
    BY <1>4, <1>5, <1>6
  <1> DEFINE U == UsableEqualities(srcs, alias, eqs)
             inferred == {CardinalityOf(srcs, eq) : eq \in U}
             other == {CardinalityOf(others, eq) : eq \in U}
  <1>8. inferred = other
    <2>1. U \subseteq O
      BY <1>5
    <2> HIDE DEF U
    <2> QED BY <1>4, <2>1
  <1>9. InferJoinCardinality(srcs, alias, eqs)
            = CASE "one_to_one" \in inferred -> "one_to_one"
                [] "one_to_one" \notin inferred /\ "many_to_one" \in inferred -> "many_to_one"
                [] inferred = {"one_to_many"} -> "one_to_many"
                [] OTHER -> ""
    BY Zenon DEF InferJoinCardinality
  <1>10. InferJoinCardinality(others, alias, eqs)
            = CASE "one_to_one" \in other -> "one_to_one"
                [] "one_to_one" \notin other /\ "many_to_one" \in other -> "many_to_one"
                [] other = {"one_to_many"} -> "one_to_many"
                [] OTHER -> ""
    BY Zenon, <1>7 DEF InferJoinCardinality
  <1> HIDE DEF inferred, other
  <1> QED BY Zenon, <1>8, <1>9, <1>10

-----------------------------------------------------------------------------
(***************************************************************************)
(* The sources and measures JoinPlan sees.                                  *)
(***************************************************************************)
Planned(s) ==
    [object |-> s.object, alias |-> s.alias, join |-> s.join,
     cardinality |-> s.cardinality, on |-> OnOf(s.on)]

PlannedSources(srcs) == [i \in DOMAIN srcs |-> Planned(srcs[i])]

MeasuresOf(ps) == UNION {p.x.measures : p \in Elements(ps)}

LEMMA PlanIs ==
    /\ PlanSources = PlannedSources(sources)
    /\ PlanSources' = PlannedSources(sources')
  BY DEF PlanSources, PlannedSources, Planned

LEMMA PlannedAre ==
    ASSUME NEW srcs
    PROVE  /\ DOMAIN PlannedSources(srcs) = DOMAIN srcs
           /\ \A i \in DOMAIN srcs : PlannedSources(srcs)[i] = Planned(srcs[i])
           /\ Alike(srcs, PlannedSources(srcs))
           /\ Plan!SourceAliases(PlannedSources(srcs)) = SourceAliases(srcs)
  <1>1. /\ DOMAIN PlannedSources(srcs) = DOMAIN srcs
        /\ \A i \in DOMAIN srcs : PlannedSources(srcs)[i] = Planned(srcs[i])
    BY DEF PlannedSources
  <1>2. \A s : Planned(s).alias = s.alias /\ Planned(s).object = s.object
    BY DEF Planned
  <1> QED BY <1>1, <1>2 DEF Alike, Plan!SourceAliases, SourceAliases

LEMMA PlannedAdded ==
    ASSUME NEW srcs, IsSequence(srcs), NEW s
    PROVE  /\ PlannedSources(Append(srcs, s)) = Append(PlannedSources(srcs), Planned(s))
           /\ IsSequence(PlannedSources(srcs)) /\ Len(PlannedSources(srcs)) = Len(srcs)
  <1> DEFINE p == PlannedSources(srcs)
             more == Append(srcs, s)
             q == PlannedSources(more)
             r == Append(p, Planned(s))
             n == Len(srcs)
  <1>1. /\ n \in Nat /\ DOMAIN srcs = 1..n /\ DOMAIN more = 1..(n + 1)
        /\ \A i \in 1..n : more[i] = srcs[i]
        /\ more[n + 1] = s
    BY ONLY IsSequence(srcs), Extended
  <1>2. DOMAIN p = 1..n /\ \A i \in 1..n : p[i] = Planned(srcs[i])
    BY <1>1, PlannedAre
  <1>3. DOMAIN q = 1..(n + 1) /\ \A i \in 1..(n + 1) : q[i] = Planned(more[i])
    BY <1>1, PlannedAre
  <1>4. p = [i \in 1..n |-> p[i]] /\ q = [i \in 1..(n + 1) |-> q[i]]
    BY <1>1 DEF PlannedSources
  <1> HIDE DEF p, q, more, n
  <1>5. IsSequence(p) /\ Len(p) = n
    <2> DEFINE T == Elements(p)
    <2>1. \A i \in 1..n : p[i] \in T
      BY <1>2 DEF Elements
    <2> HIDE DEF T
    <2>2. p \in Seq(T) /\ Len(p) = n
      BY ONLY <1>1, <1>2, <1>4, <2>1
    <2> QED BY <2>2 DEF T, IsSequence
  <1>6. /\ DOMAIN r = 1..(n + 1) /\ r[n + 1] = Planned(s)
        /\ \A i \in 1..n : r[i] = p[i]
        /\ IsSequence(r)
    BY ONLY <1>5, Extended
  <1>7. \A i \in 1..(n + 1) : i \in 1..n \/ i = n + 1
    BY ONLY <1>1
  <1>8. \A i \in 1..(n + 1) : q[i] = r[i]
    BY <1>1, <1>2, <1>3, <1>6, <1>7
  <1>9. q = r
    <2> DEFINE T == Elements(r)
    <2>1. r \in Seq(T)
      BY <1>6 DEF IsSequence
    <2> HIDE DEF T, r
    <2>2. r = [i \in 1..(n + 1) |-> r[i]]
      BY ONLY <2>1, <1>6
    <2> QED BY <1>4, <1>8, <2>2
  <1> QED BY <1>5, <1>9 DEF p, q, more, n

PlanVars == <<PlanPhase, PlanSources, MeasuresOf(projections)>>

LEMMA PlanVarsAre == Plan!planVars = PlanVars /\ Plan!planVars' = PlanVars'
  BY DEF Plan!planVars, PlanVars, MeasuresOf

\* A step of the compiler JoinPlan does not see.
LEMMA Unseen ==
    ASSUME UNCHANGED <<sources, projections>>, PlanPhase' = PlanPhase
    PROVE  UNCHANGED Plan!planVars
  <1>1. PlanSources' = PlanSources
    BY PlanIs
  <1> QED BY <1>1, PlanVarsAre DEF PlanVars, MeasuresOf

LEMMA RefusalFollows ==
    ASSUME Refuse, phase \in Phases \ {"accepted", "refused"}
    PROVE  Plan!Next
  <1>1. PlanPhase \in {"from", "select"} /\ PlanPhase' = "refused"
    BY DEF Refuse, PlanPhase, Phases
  <1>2. PlanSources' = PlanSources /\ MeasuresOf(projections)' = MeasuresOf(projections)
    BY PlanIs DEF Refuse, plan, MeasuresOf
  <1>3. Plan!Refuse
    BY <1>1, <1>2 DEF Plan!Refuse, MeasuresOf
  <1> QED BY <1>3 DEF Plan!Next

LEMMA RootFollows ==
    ASSUME NEW object \in Objects, NEW alias \in Aliases, CompileRoot(object, alias),
           phase' # "refused"
    PROVE  Plan!Next
  <1> DEFINE s == Source(object, alias, "", "", Blank)
             p == [object |-> object, alias |-> alias, join |-> "", cardinality |-> "",
                   on |-> Plan!NoOn]
  <1>1. /\ phase = "from" /\ sources = <<>> /\ sources' = <<s>>
        /\ UNCHANGED <<phase, projections>>
    BY DEF CompileRoot, Refuse
  <1>2. Planned(s) = p
    BY DEF Planned, Source, OnOf, Blank, Plan!NoOn
  <1>3. PlannedSources(<<>>) = <<>>
    BY DEF PlannedSources
  <1>4. PlannedSources(<<s>>) = <<Planned(s)>>
    <2> HIDE DEF s
    <2>1. IsSequence(<<>>) /\ <<s>> = Append(<<>>, s) /\ <<Planned(s)>> = Append(<<>>, Planned(s))
      BY DEF IsSequence, Elements
    <2> QED BY <1>3, <2>1, PlannedAdded
  <1> HIDE DEF s, p
  <1>5. PlanSources = <<>> /\ PlanSources' = <<p>>
    BY <1>1, <1>2, <1>3, <1>4, PlanIs
  <1>6. PlanPhase = "from" /\ PlanPhase' = "from"
    BY <1>1 DEF PlanPhase
  <1>7. Plan!AddRoot(object, alias)
    BY <1>1, <1>5, <1>6 DEF Plan!AddRoot, p
  <1> QED BY <1>7 DEF Plan!Next

LEMMA EqsWithin ==
    ASSUME NEW srcs, OneSourceEach(srcs), NEW x, Mentions(srcs, x)
    PROVE  /\ Within(srcs, x.eqs)
           /\ \A eq \in x.eqs : \A column \in {eq.left, eq.right} :
                  \E i \in DOMAIN srcs : Delivers(srcs[i], column)
  <1> DEFINE d == [aliases |-> ObjectsByAlias(srcs)]
  <1>1. d.aliases = ObjectsByAlias(srcs) /\ Reaches(d, x)
    BY DEF Mentions
  <1> HIDE DEF d
  <1>2. ASSUME NEW column, InScope(d, column)
        PROVE  \E i \in DOMAIN srcs : Delivers(srcs[i], column)
    <2>1. PICK i \in DOMAIN srcs : column.alias = srcs[i].alias
      BY <1>1, <1>2, ObjectsAre DEF InScope
    <2>2. ObjectsByAlias(srcs)[column.alias] = srcs[i].object
      BY <2>1, ObjectsAre
    <2> QED BY <1>1, <1>2, <2>1, <2>2 DEF InScope, Delivers
  <1>3. \A eq \in x.eqs : InScope(d, eq.left) /\ InScope(d, eq.right)
    BY <1>1 DEF Reaches
  <1>4. \A eq \in x.eqs : \A column \in {eq.left, eq.right} :
            \E i \in DOMAIN srcs : Delivers(srcs[i], column)
    BY <1>2, <1>3
  <1>5. Within(srcs, x.eqs)
    BY <1>4 DEF Within, SourceAliases, Delivers
  <1> QED BY <1>4, <1>5

\* The source of a join before its cardinality is known.
Entry(object, alias, join, on) ==
    [object |-> object, alias |-> alias, join |-> join, cardinality |-> "", on |-> on]

WithCardinality(entry, cardinality) == [entry EXCEPT !.cardinality = cardinality]

LEMMA PlannedSource ==
    ASSUME NEW object, NEW alias, NEW join, NEW cardinality, NEW x
    PROVE  Planned(Source(object, alias, join, cardinality, x))
               = WithCardinality(Entry(object, alias, join, OnOf(x)), cardinality)
  <1> DEFINE D == {"object", "alias", "join", "cardinality", "on"}
             on == OnOf(x)
             s == Source(object, alias, join, cardinality, x)
             entry == Entry(object, alias, join, on)
             added == WithCardinality(entry, cardinality)
             p == [object |-> object, alias |-> alias, join |-> join,
                   cardinality |-> cardinality, on |-> on]
  <1>1. Planned(s) = p
    BY DEF Planned, Source
  <1> HIDE DEF on
  <1>2. /\ DOMAIN entry = D /\ entry.object = object /\ entry.alias = alias
        /\ entry.join = join /\ entry.on = on
    BY DEF Entry
  <1> HIDE DEF entry
  <1>3. DOMAIN added = D /\ DOMAIN p = D
    BY <1>2 DEF WithCardinality
  <1>4. /\ added.object = p.object /\ added.alias = p.alias /\ added.join = p.join
        /\ added.cardinality = p.cardinality /\ added.on = p.on
    BY <1>2 DEF WithCardinality
  <1>5. added = [f \in DOMAIN added |-> added[f]] /\ p = [f \in DOMAIN p |-> p[f]]
    BY DEF WithCardinality
  <1> HIDE DEF p, added, s
  <1>6. \A f \in D : added[f] = p[f]
    BY <1>4
  <1>7. added = p
    BY <1>3, <1>5, <1>6
  <1> QED BY <1>1, <1>7 DEF s, added, entry, on

LEMMA JoinFollows ==
    ASSUME CompilerInv, NEW object \in Objects, NEW alias \in Aliases, NEW join,
           NEW tree \in OnTrees, CompileJoin(object, alias, join, tree), phase' # "refused"
    PROVE  Plan!Next
  <1> DEFINE r == Source(object, alias, join, "", Blank)
             registered == Append(sources, r)
             x == Compiled(registered, tree)
             inferred == InferJoinCardinality(registered, alias, x.eqs)
             s == Source(object, alias, join, inferred, x)
             on == OnOf(x)
             entry == Entry(object, alias, join, on)
             planned == Append(PlanSources, entry)
             added == WithCardinality(entry, inferred)
  <1>1. /\ phase = "from" /\ Len(sources) \in 1..(MaxSources - 1)
        /\ join \in {"inner", "left"} /\ inferred # ""
        /\ alias \notin SourceAliases(sources) /\ Valid(x)
        /\ sources' = Append(sources, s)
        /\ UNCHANGED <<phase, projections>>
    BY Zenon DEF CompileJoin, Refuse, BindableTable
  <1>2. r.alias = alias /\ r.object = object /\ Planned(s) = added
    <2>1. r.alias = alias /\ r.object = object
      BY DEF Source
    <2>2. Planned(s) = added
      <3> HIDE DEF x, inferred
      <3> QED BY PlannedSource
    <2> QED BY <2>1, <2>2
  <1>3. on.eqs = x.eqs
    BY DEF OnOf
  <1>4. /\ entry.alias = alias /\ entry.object = object /\ entry.on = on
    BY DEF Entry
  <1> HIDE DEF r, x, inferred, s, on, entry
  <1>5. /\ IsSequence(sources) /\ OneSourceEach(sources) /\ ValidDeclarations
        /\ DeclarationInv
        /\ \A i \in DOMAIN sources :
               /\ sources[i].alias # alias /\ sources[i].alias \in Aliases
               /\ sources[i].object \in Objects
    BY <1>1 DEF CompilerInv, DeclarationInv, SourcesInv, BindingInv, SourcesBound, SourceBound,
       SourceAliases
  <1>6. OneSourceEach(registered)
    BY <1>2, <1>5, SourceAdded
  <1>7. /\ Len(sources) \in Nat /\ DOMAIN sources = 1..Len(sources)
        /\ DOMAIN registered = 1..(Len(sources) + 1)
        /\ \A i \in 1..Len(sources) : registered[i] = sources[i]
        /\ registered[Len(sources) + 1] = r
    BY ONLY <1>5, Extended
  <1>8. \A i \in 1..(Len(sources) + 1) : i \in 1..Len(sources) \/ i = Len(sources) + 1
    BY ONLY <1>7
  <1>9. /\ IsSequence(PlanSources) /\ Len(PlanSources) = Len(sources)
        /\ PlanSources = PlannedSources(sources)
        /\ PlanSources' = Append(PlanSources, added)
    BY <1>1, <1>2, <1>5, PlannedAdded, PlanIs
  <1>10. /\ DOMAIN planned = 1..(Len(sources) + 1)
         /\ \A i \in 1..Len(sources) : planned[i] = PlanSources[i]
         /\ planned[Len(sources) + 1] = entry
    BY ONLY <1>9, Extended
  <1> HIDE DEF registered, planned
  <1>11. \A i \in DOMAIN registered : registered[i].object \in Objects /\ registered[i].alias \in Aliases
    BY <1>2, <1>5, <1>7, <1>8
  <1>12. Mentions(registered, x)
    <2>1. tree \in Trees
      BY CompilerAssumption
    <2> QED BY <1>1, <1>5, <1>6, <1>11, <2>1, CompiledIs DEF x
  <1>13. on \in CompiledOns
    <2>1. x \in CompiledFrom(OnTrees)
      BY <1>5, <1>6, <1>11, ScopeCompiled DEF x
    <2> QED BY <1>1, <2>1 DEF CompiledOns, on
  <1>14. Alike(registered, planned)
    <2>1. ASSUME NEW i \in 1..(Len(sources) + 1)
          PROVE  registered[i].alias = planned[i].alias /\ registered[i].object = planned[i].object
      <3>1. CASE i \in 1..Len(sources)
        <4>1. Alike(sources, PlanSources)
          BY <1>9, PlannedAre
        <4> QED BY <1>7, <1>10, <3>1, <4>1 DEF Alike
      <3>2. CASE i = Len(sources) + 1
        BY <1>2, <1>4, <1>7, <1>10, <3>2
      <3> QED BY <1>8, <3>1, <3>2
    <2> QED BY <1>7, <1>10, <2>1 DEF Alike
  <1>15. Plan!InferJoinCardinality(planned, alias, on.eqs) = inferred
    <2>1. Len(sources) + 1 \in DOMAIN registered
      BY <1>7
    <2>2. alias \in SourceAliases(registered)
      BY <1>2, <1>7, <2>1 DEF SourceAliases
    <2>3. InferJoinCardinality(planned, alias, x.eqs) = inferred
      BY <1>6, <1>12, <1>14, <2>2, EqsWithin, AlikeInference DEF inferred
    <2> QED BY <1>3, <2>3, SameInference
  <1>16. Plan!Resolves(on, planned)
    <2> SUFFICES ASSUME NEW eq \in x.eqs, NEW column \in {eq.left, eq.right}
                 PROVE  \E i \in DOMAIN planned :
                            /\ planned[i].alias = column.alias
                            /\ column.field \in ColumnsOf(planned[i].object)
      BY <1>3, SameColumns DEF Plan!Resolves, Plan!OnColumns
    <2>1. PICK i \in DOMAIN registered : Delivers(registered[i], column)
      BY <1>6, <1>12, EqsWithin
    <2> QED BY <1>14, <2>1 DEF Alike, Delivers
  <1>17. PlanSources # <<>> /\ Len(PlanSources) < MaxSources
    <2>1. Len(sources) # 0 /\ Len(sources) < MaxSources
      <3>1. Len(sources) \in 1..(MaxSources - 1) /\ MaxSources \in Nat
        BY <1>1, CompilerAssumption
      <3> QED BY ONLY <3>1
    <2> QED BY <1>9, <2>1
  <1>18. alias \notin Plan!SourceAliases(PlanSources)
    BY <1>1, <1>9, PlannedAre
  <1>19. PlanPhase = "from" /\ PlanPhase' = "from"
    BY <1>1 DEF PlanPhase
  <1>20. MeasuresOf(projections)' = MeasuresOf(projections)
    BY <1>1
  <1>21. Plan!AddJoin(object, alias, join, on)
    BY <1>1, <1>9, <1>15, <1>16, <1>17, <1>18, <1>19, <1>20
    DEF Plan!AddJoin, entry, planned, added, MeasuresOf, Entry, WithCardinality
  <1>22. join \in Plan!JoinTypes
    BY <1>1 DEF Plan!JoinTypes
  <1> QED BY <1>13, <1>21, <1>22 DEF Plan!Next

LEMMA FromFollows ==
    ASSUME FinishSources, phase' # "refused"
    PROVE  Plan!Next
  <1>1. /\ phase = "from" /\ phase' = "select" /\ sources # <<>>
        /\ UNCHANGED <<sources, projections>>
    BY DEF FinishSources, Refuse, plan
  <1>2. PlanPhase = "from" /\ PlanPhase' = "select"
    BY <1>1 DEF PlanPhase
  <1>3. PlanSources' = PlanSources /\ MeasuresOf(projections)' = MeasuresOf(projections)
    BY <1>1, PlanIs
  <1>4. PlanSources # <<>>
    <2>1. ASSUME PlanSources = <<>> PROVE FALSE
      <3>1. DOMAIN sources = {}
        BY <2>1, PlanIs, PlannedAre
      <3> QED BY <1>1, <3>1
    <2> QED BY <2>1
  <1>5. Plan!FinishFrom
    BY <1>2, <1>3, <1>4 DEF Plan!FinishFrom, MeasuresOf
  <1> QED BY <1>5 DEF Plan!Next

LEMMA SameCardinality == \A S : Plan!Cardinality(S) = Cardinality(S)
  BY Zenon DEF Plan!Cardinality, Cardinality

LEMMA ProjectionFollows ==
    ASSUME CompilerInv, NEW alias, NEW tree \in SelectTrees,
           CompileProjection(alias, tree), phase' # "refused"
    PROVE  Plan!Next
  <1>1. DeclarationInv /\ BindingInv /\ MeasuresCompiled
    BY DEF CompilerInv, ResultsScaled
  <1>2. PICK x : /\ x = Compiled(sources, tree) /\ Valid(x) /\ Mentions(sources, x)
                 /\ projections' = Append(projections, [alias |-> alias, x |-> x, tree |-> tree])
                 /\ phase = "select" /\ UNCHANGED <<phase, sources>>
    BY <1>1, Projected
  <1> DEFINE p == [alias |-> alias, x |-> x, tree |-> tree]
             before == MeasuresOf(projections)
             all == UNION CompiledMeasures
  <1>3. p.x = x
    OBVIOUS
  <1> HIDE DEF p
  <1>4. /\ IsSequence(projections) /\ projections' = Append(projections, p)
    BY <1>1, <1>2 DEF p, DeclarationInv, ResultsInv
  <1>5. Elements(projections') = Elements(projections) \cup {p}
    <2> DEFINE n == Len(projections)
    <2>1. /\ n \in Nat /\ DOMAIN projections = 1..n /\ DOMAIN projections' = 1..(n + 1)
          /\ \A i \in 1..n : projections'[i] = projections[i]
          /\ projections'[n + 1] = p
      BY ONLY <1>4, Extended
    <2>2. \A i \in 1..(n + 1) : i \in 1..n \/ i = n + 1
      BY ONLY <2>1
    <2>3. n + 1 \in 1..(n + 1) /\ \A i \in 1..n : i \in 1..(n + 1)
      BY ONLY <2>1
    <2> HIDE DEF n
    <2> QED BY <2>1, <2>2, <2>3 DEF Elements
  <1>6. MeasuresOf(projections') = before \cup x.measures
    BY <1>3, <1>5 DEF MeasuresOf
  <1>7. x.measures \in CompiledMeasures
    <2>1. /\ OneSourceEach(sources)
          /\ \A i \in DOMAIN sources : sources[i].object \in Objects /\ sources[i].alias \in Aliases
      BY <1>1 DEF BindingInv, SourcesBound, SourceBound
    <2>2. x \in CompiledFrom(SelectTrees)
      BY <1>1, <1>2, <2>1, ScopeCompiled
    <2> QED BY <1>2, <2>2 DEF CompiledMeasures
  <1>8. Cardinality(before \cup x.measures) <= Cardinality(all)
    <2>1. before \subseteq all
      BY <1>1 DEF MeasuresOf, MeasuresCompiled, Elements
    <2>2. before \cup x.measures \subseteq all
      BY <1>7, <2>1
    <2> HIDE DEF before, all
    <2>3. IsFiniteSet(all)
      BY MeasuresAreFinite DEF all
    <2> QED BY <2>2, <2>3, FS_Subset
  <1>9. \A m \in x.measures : m.aliases \subseteq Plan!SourceAliases(PlanSources)
    <2> DEFINE d == [aliases |-> ObjectsByAlias(sources)]
    <2>1. d.aliases = ObjectsByAlias(sources) /\ Reaches(d, x)
      BY <1>2 DEF Mentions
    <2> HIDE DEF d
    <2>2. DOMAIN ObjectsByAlias(sources) = SourceAliases(sources)
      BY DEF ObjectsByAlias
    <2>3. Plan!SourceAliases(PlanSources) = SourceAliases(sources)
      BY PlanIs, PlannedAre
    <2> QED BY <2>1, <2>2, <2>3 DEF Reaches
  <1>10. /\ PlanPhase = "select" /\ PlanPhase' = "select" /\ PlanSources' = PlanSources
    BY <1>2, PlanIs DEF PlanPhase
  <1>11. Plan!Project(x.measures)
    <2>1. Plan!Cardinality(before \cup x.measures) <= Cardinality(all)
      BY <1>8, SameCardinality
    <2> QED BY <1>6, <1>9, <1>10, <2>1 DEF Plan!Project, MeasuresOf
  <1> QED BY <1>7, <1>11 DEF Plan!Next

LEMMA FilledFollows ==
    ASSUME CompilerInv, NEW clause, FinishSelect(clause), phase' # "refused"
    PROVE  UNCHANGED Plan!planVars
  <1>1. DeclarationInv
    BY DEF CompilerInv
  <1>2. /\ DOMAIN sources' = DOMAIN sources
        /\ \A i \in DOMAIN sources :
               /\ sources'[i].alias = sources[i].alias
               /\ sources'[i].object = sources[i].object
               /\ sources'[i].join = sources[i].join
               /\ sources'[i].cardinality = sources[i].cardinality
               /\ sources'[i].on = sources[i].on
        /\ UNCHANGED projections
    BY <1>1, Filled
  <1>3. \A i \in DOMAIN sources : Planned(sources'[i]) = Planned(sources[i])
    BY <1>2 DEF Planned
  <1>4. PlannedSources(sources') = PlannedSources(sources)
    BY <1>2, <1>3 DEF PlannedSources
  <1>5. phase = "order" /\ phase' = "amplification"
    BY Zenon DEF FinishSelect, Refuse
  <1>6. PlanPhase = "select" /\ PlanPhase' = "select"
    BY <1>5 DEF PlanPhase
  <1> QED BY <1>2, <1>4, <1>6, PlanIs, PlanVarsAre DEF PlanVars, MeasuresOf

LEMMA AmplificationFollows ==
    ASSUME ValidateAmplification, phase' # "refused"
    PROVE  Plan!Next
  <1>1. /\ phase = "amplification" /\ phase' = "accepted"
        /\ \A p \in Elements(projections) : \A m \in p.x.measures : ~Amplified(sources, m)
        /\ UNCHANGED <<sources, projections>>
    BY DEF ValidateAmplification, plan
  <1>2. PlanPhase = "select" /\ PlanPhase' = "accepted"
    BY <1>1 DEF PlanPhase
  <1>3. PlanSources' = PlanSources /\ MeasuresOf(projections)' = MeasuresOf(projections)
    BY <1>1, PlanIs
  <1>4. ASSUME NEW m PROVE Plan!Amplified(PlanSources, m) <=> Amplified(sources, m)
    <2>1. /\ DOMAIN PlanSources = DOMAIN sources
          /\ \A i \in DOMAIN sources : /\ PlanSources[i].alias = sources[i].alias
                                       /\ PlanSources[i].cardinality = sources[i].cardinality
      <3>1. \A s : Planned(s).alias = s.alias /\ Planned(s).cardinality = s.cardinality
        BY DEF Planned
      <3> QED BY <3>1, PlanIs, PlannedAre
    <2> QED BY <2>1 DEF Plan!Amplified, Amplified, Plan!AmplificationExempt, AmplificationExempt
  <1>5. \A m \in MeasuresOf(projections) : ~Plan!Amplified(PlanSources, m)
    BY <1>1, <1>4 DEF MeasuresOf
  <1>6. Plan!Accept
    BY <1>2, <1>3, <1>5 DEF Plan!Accept, MeasuresOf
  <1> QED BY <1>6 DEF Plan!Next

(***************************************************************************)
(* Every step of the compiler is a step of JoinPlan or none.                *)
(***************************************************************************)
LEMMA StepFollows ==
    ASSUME CompilerInv, [Next]_vars
    PROVE  [Plan!Next]_Plan!planVars
  <1>0. phase \in Phases
    BY DEF CompilerInv, ControlInv
  <1>1. CASE CompileMetadata
    BY <1>0, <1>1, RefusalFollows, Unseen DEF CompileMetadata, PlanPhase, plan
  <1>2. CASE Parse
    BY <1>0, <1>2, RefusalFollows, Unseen DEF Parse, PlanPhase, plan
  <1>3. ASSUME NEW object \in Objects, NEW alias \in Aliases, CompileRoot(object, alias)
        PROVE  Plan!Next
    <2>1. CASE phase' = "refused"
      <3>1. phase = "from" /\ Refuse
        BY <1>3, <2>1 DEF CompileRoot
      <3> QED BY <1>0, <3>1, RefusalFollows
    <2> QED BY <1>3, <2>1, RootFollows
  <1>4. ASSUME NEW object \in Objects, NEW alias \in Aliases, NEW join, NEW tree \in OnTrees,
               CompileJoin(object, alias, join, tree)
        PROVE  Plan!Next
    <2>1. CASE phase' = "refused"
      <3>1. phase = "from" /\ (Refuse \/ UNCHANGED phase)
        BY Zenon, <1>4 DEF CompileJoin
      <3> QED BY <1>0, <2>1, <3>1, RefusalFollows
    <2> QED BY <1>4, <2>1, JoinFollows
  <1>5. CASE FinishSources
    <2>1. CASE phase' = "refused"
      <3>1. phase = "from" /\ Refuse
        BY <1>5, <2>1 DEF FinishSources
      <3> QED BY <1>0, <3>1, RefusalFollows
    <2> QED BY <1>5, <2>1, FromFollows
  <1>6. ASSUME NEW alias, NEW tree \in SelectTrees, CompileProjection(alias, tree)
        PROVE  Plan!Next
    <2>1. CASE phase' = "refused"
      <3>1. phase = "select" /\ (Refuse \/ UNCHANGED phase)
        BY Zenon, <1>6 DEF CompileProjection
      <3> QED BY <1>0, <2>1, <3>1, RefusalFollows
    <2> QED BY <1>6, <2>1, ProjectionFollows
  <1>7. CASE FinishProjections
    BY <1>0, <1>7, RefusalFollows, Unseen DEF FinishProjections, PlanPhase, plan
  <1>8. ASSUME NEW clause \in {"where", "having"}, SkipFilter(clause)
        PROVE  UNCHANGED Plan!planVars
    BY <1>8, Unseen DEF SkipFilter, After, PlanPhase, plan
  <1>9. ASSUME NEW clause \in {"where", "having"}, NEW tree, CompileFilter(clause, tree)
        PROVE  [Plan!Next]_Plan!planVars
    <2>1. \/ Refuse
          \/ phase' = After(clause) /\ UNCHANGED <<sources, projections>>
      BY Zenon, <1>9 DEF CompileFilter
    <2>2. phase = clause
      BY <1>9 DEF CompileFilter
    <2>3. CASE Refuse
      BY <1>0, <2>2, <2>3, RefusalFollows
    <2>4. CASE phase' = After(clause) /\ UNCHANGED <<sources, projections>>
      BY <2>2, <2>4, Unseen DEF After, PlanPhase
    <2> QED BY <2>1, <2>3, <2>4
  <1>10. ASSUME NEW tree, CompileGroupTerm(tree) PROVE [Plan!Next]_Plan!planVars
    <2>1. phase = "group" /\ (Refuse \/ UNCHANGED <<phase, sources, projections>>)
      BY Zenon, <1>10 DEF CompileGroupTerm
    <2> QED BY <1>0, <2>1, RefusalFollows, Unseen DEF PlanPhase
  <1>11. CASE FinishGroupBy
    BY <1>11, Unseen DEF FinishGroupBy, PlanPhase, plan
  <1>12. ASSUME NEW tree, CompileOrderByTerm(tree) PROVE [Plan!Next]_Plan!planVars
    <2>1. phase = "order" /\ (Refuse \/ UNCHANGED <<phase, sources, projections>>)
      BY Zenon, <1>12 DEF CompileOrderByTerm
    <2> QED BY <1>0, <2>1, RefusalFollows, Unseen DEF PlanPhase
  <1>13. ASSUME NEW clause, FinishSelect(clause) PROVE [Plan!Next]_Plan!planVars
    <2>1. CASE phase' = "refused"
      <3>1. phase = "order" /\ Refuse
        BY Zenon, <1>13, <2>1 DEF FinishSelect
      <3> QED BY <1>0, <3>1, RefusalFollows
    <2> QED BY <1>13, <2>1, FilledFollows
  <1>14. CASE ValidateAmplification
    <2>1. CASE phase' = "refused"
      <3>1. phase = "amplification" /\ Refuse
        BY <1>14, <2>1 DEF ValidateAmplification, Refuse
      <3> QED BY <1>0, <3>1, RefusalFollows
    <2> QED BY <1>14, <2>1, AmplificationFollows
  <1>15. CASE UNCHANGED vars
    BY <1>15, Unseen DEF vars, PlanPhase
  <1> QED BY <1>1, <1>2, <1>3, <1>4, <1>5, <1>6, <1>7, <1>8, <1>9, <1>10, <1>11, <1>12, <1>13,
             <1>14, <1>15 DEF Next

(***************************************************************************)
(* The compiler implements JoinPlan: a join enters a plan only with the     *)
(* cardinality the metadata proves, and an accepted plan has no amplified   *)
(* measure in its projections (object_sql_cardinality.go 12-131), whatever  *)
(* else the statement and the declarations say.                             *)
(***************************************************************************)
THEOREM CompilationsFollowJoinPlan == Spec => ImplementsJoinPlan
  <1>1. Init => Plan!Init
    BY DEF Init, Plan!Init, PlanPhase, PlanSources, Elements
  <1> QED BY <1>1, StepFollows, CompilerInvHolds, PTL DEF Spec, ImplementsJoinPlan, Plan!Spec

=============================================================================
