-------------------------- MODULE ObjectSQLCompiler --------------------------
(***************************************************************************)
(* CompileReportObjectSQL, step by step: the authored declarations are      *)
(* checked, then the clauses of the statement are bound in the order the    *)
(* compiler reads them, and the finished plan is checked for amplification. *)
(*                                                                          *)
(* The declarations of a report (schema) are chosen in Init.  The statement *)
(* is chosen as it is read: each action takes the next table, join or       *)
(* expression the author may have written.  The compilation is one call and *)
(* has no effect but its result: what the steps make visible is in which    *)
(* order the tables of the compiler are filled and used.                    *)
(***************************************************************************)
EXTENDS ObjectSQLExpression, ObjectSQLCardinality, FiniteSets

CONSTANTS
    Schemas,        \* declarations an author may have made
    Aliases,        \* source aliases an author may use
    ResultAliases,  \* result aliases an author may use
    Trees,          \* parsed expressions, with all their operands
    Depth,          \* how deep each of them is
    OnTrees,        \* those that may stand in an ON
    SelectTrees,    \* in a projection
    GroupTrees,     \* in a GROUP BY
    FilterTrees,    \* in WHERE or HAVING
    OrderTrees,     \* in ORDER BY
    Limits,         \* LIMIT clauses, as [given, rows]
    MaximumJoins,   \* reportObjectSQLMaximumJoins
    MaximumColumns, \* reportObjectSQLMaximumColumns
    MaximumLimit,   \* reportObjectSQLMaximumLimit
    DefaultLimit,   \* reportObjectSQLDefaultLimit
    MaxSources,     \* bound of the model: tables of one statement
    MaxTerms        \* bound of the model: terms of a GROUP BY or an ORDER BY

VARIABLES
    phase,          \* the clause about to be read, "accepted" or "refused"
    schema,         \* the declarations, never changed
    sources,        \* plan.Sources
    projections,    \* plan.Projections
    resultSchema,   \* plan.ResultSchema
    filters,        \* plan.Where and plan.Having, by clause
    groupBy,        \* plan.GroupBy
    orderBy,        \* plan.OrderBy
    limit           \* plan.Limit, plan.ExplicitLimit and plan.ExplicitOrderBy

vars == <<phase, schema, sources, projections, resultSchema, filters, groupBy,
          orderBy, limit>>

plan == <<sources, projections, resultSchema, filters, groupBy, orderBy, limit>>

Cardinalities == {"one_to_one", "many_to_one", "one_to_many"}
ValueTypes == {"text", "integer", "number", "decimal", "boolean", "date", "datetime"}
ResultTypes == ValueTypes \cup {"currency"}

Elements(s) == {s[i] : i \in DOMAIN s}
Distinct(s) == \A i, k \in DOMAIN s : s[i] = s[k] => i = k
Keys(s) == [i \in DOMAIN s |-> s[i].key]

ASSUME CompilerAssumption ==
    /\ IsForest(Trees, Depth)
    /\ OnTrees \cup SelectTrees \cup GroupTrees \cup FilterTrees \cup OrderTrees
           \subseteq Trees
    /\ MaximumColumns \in Nat /\ MaxSources \in Nat
    /\ MaximumLimit \in Nat /\ DefaultLimit \in 1..MaximumLimit

ASSUME SchemaAssumption ==
    \A s \in Schemas : \A r \in Elements(s.results) :
        DOMAIN r = {"key", "type", "kind", "prec", "scale"}

(***************************************************************************)
(* A term of the plan: the compiled expression and the one it was compiled  *)
(* from.                                                                    *)
(***************************************************************************)
Term(x, tree) == [x |-> x, tree |-> tree]
IdTree(alias) == [node |-> "column", op |-> alias, name |-> "id", args |-> <<>>]
IdTerm(alias) ==
    Term([Blank EXCEPT !.kind = "field", !.alias = alias, !.field = "id",
                       !.type = "text", !.refs = {[alias |-> alias, field |-> "id"]}],
         IdTree(alias))

-----------------------------------------------------------------------------
(***************************************************************************)
(* The compiler's tables.                                                   *)
(***************************************************************************)
ObjectsByAlias(srcs) ==
    [alias \in SourceAliases(srcs) |-> srcs[Position(srcs, alias)].object]

DeclaredParameters(s) ==
    [name \in {p.key : p \in Elements(s.parameters)} |->
        (CHOOSE p \in Elements(s.parameters) : p.key = name).type]

ScopeOf(s, objects) ==
    [aliases |-> objects, parameters |-> DeclaredParameters(s), timeZone |-> s.timeZone]

Scope(srcs) == ScopeOf(schema, ObjectsByAlias(srcs))

Compiled(srcs, tree) == CompileExpression(Scope(srcs), Trees, tree)

\* c.projections
ProjectionByAlias ==
    [alias \in {p.alias : p \in Elements(projections)} |->
        (CHOOSE p \in Elements(projections) : p.alias = alias).x]

DeclaredObjects == Elements(schema.sourceObjects)

\* "" when no legacy assertion names the alias.
AssertedCardinality(alias) ==
    IF \E a \in Elements(schema.assertions) : a.alias = alias
    THEN (CHOOSE a \in Elements(schema.assertions) : a.alias = alias).cardinality
    ELSE ""

Refuse == phase' = "refused" /\ UNCHANGED <<schema, plan>>

-----------------------------------------------------------------------------
Init ==
    /\ phase = "metadata"
    /\ schema \in Schemas
    /\ sources = <<>>
    /\ projections = <<>>
    /\ resultSchema = <<>>
    /\ filters = [where |-> Blank, having |-> Blank]
    /\ groupBy = <<>>
    /\ orderBy = <<>>
    /\ limit = [rows |-> 0, explicit |-> FALSE, ordered |-> FALSE]

MaximumTimeout == 30000

ValidTimeout == schema.timeout \in 0..MaximumTimeout

\* "__" stands for the parameter keys with the prefix reserved to the host.
ValidDeclarations ==
    /\ Len(schema.results) <= MaximumColumns
    /\ DeclaredObjects \subseteq Objects /\ Distinct(schema.sourceObjects)
    /\ Distinct(Keys(schema.parameters))
    /\ Elements(Keys(schema.parameters)) \cap {"", "__"} = {}
    /\ \A p \in Elements(schema.parameters) : p.type \in ValueTypes
    /\ Distinct(Keys(schema.results)) /\ "" \notin Elements(Keys(schema.results))
    /\ Distinct([i \in DOMAIN schema.assertions |-> schema.assertions[i].alias])
    /\ \A a \in Elements(schema.assertions) :
           a.alias # "" /\ a.cardinality \in Cardinalities
    /\ ValidTimeout

CompileMetadata ==
    /\ phase = "metadata"
    /\ IF ValidDeclarations
       THEN phase' = "parse" /\ UNCHANGED <<schema, plan>>
       ELSE Refuse

(***************************************************************************)
(* The statement is one SELECT within the limits on its length and nodes,   *)
(* or the definition is refused.                                            *)
(***************************************************************************)
Parse ==
    /\ phase = "parse"
    /\ \/ phase' = "from" /\ UNCHANGED <<schema, plan>>
       \/ Refuse

-----------------------------------------------------------------------------
(***************************************************************************)
(* compileBaseSource: the table, its alias, and for a join the cardinality  *)
(* of its ON, compiled with the joined alias in scope.                      *)
(***************************************************************************)
\* Mutant: a second source may take the alias of the first.
BindableTableOfAnyAlias(object, alias) ==
    /\ object \in Objects
    /\ DeclaredObjects # {} => object \in DeclaredObjects

BindableTable(object, alias) ==
    /\ object \in Objects
    /\ DeclaredObjects # {} => object \in DeclaredObjects
    /\ alias # "" /\ alias \notin SourceAliases(sources)

Source(object, alias, join, cardinality, on) ==
    [object |-> object, alias |-> alias, join |-> join,
     cardinality |-> cardinality, on |-> on, fields |-> {}]

CompileRoot(object, alias) ==
    /\ phase = "from"
    /\ sources = <<>>
    /\ IF BindableTable(object, alias)
       THEN /\ sources' = <<Source(object, alias, "", "", Blank)>>
            /\ UNCHANGED <<phase, schema, projections, resultSchema, filters,
                           groupBy, orderBy, limit>>
       ELSE Refuse

\* join is neither "inner" nor "left" for the joins the compiler forbids.
CompileJoin(object, alias, join, tree) ==
    LET registered == Append(sources, Source(object, alias, join, "", Blank))
        on == Compiled(registered, tree)
        inferred == InferJoinCardinality(registered, alias, on.eqs)
    IN  /\ phase = "from"
        /\ Len(sources) \in 1..(MaxSources - 1)
        /\ IF /\ join \in {"inner", "left"}
              /\ BindableTable(object, alias)
              /\ Valid(on)
              /\ inferred # ""
              /\ AssertedCardinality(alias) \in {"", inferred}
           THEN /\ sources' = Append(sources, Source(object, alias, join, inferred, on))
                /\ UNCHANGED <<phase, schema, projections, resultSchema, filters,
                               groupBy, orderBy, limit>>
           ELSE Refuse

\* Mutant: an assertion about the root source passes.
AssertionsNameSources ==
    {a.alias : a \in Elements(schema.assertions)} \subseteq SourceAliases(sources)

AssertionsNameJoins ==
    {a.alias : a \in Elements(schema.assertions)}
        \subseteq SourceAliases(Tail(sources))

\* The end of compileSources.
FinishSources ==
    LET used == {s.object : s \in Elements(sources)}
    IN  /\ phase = "from"
        /\ sources # <<>>
        /\ IF /\ Len(sources) - 1 <= MaximumJoins
              /\ AssertionsNameJoins
              /\ DeclaredObjects # {} => used = DeclaredObjects
           THEN phase' = "select" /\ UNCHANGED <<schema, plan>>
           ELSE Refuse

-----------------------------------------------------------------------------
(***************************************************************************)
(* compileSelect, one projection: the declared result of that alias, if     *)
(* any, is checked against the expression and completed from it.            *)
(***************************************************************************)
AuthoredResult(alias) ==
    IF \E r \in Elements(schema.results) : r.key = alias
    THEN CHOOSE r \in Elements(schema.results) : r.key = alias
    ELSE [key |-> alias, type |-> "", kind |-> "", prec |-> 0, scale |-> 0]

ResultCompatible(result, x) ==
    IF result.type = x.type
    THEN result.type \in {"currency", "decimal"} => result.scale \in {0, x.scale}
    ELSE result.type = "decimal" /\ x.type = "integer"

\* Mutant: the scale an author left out is not taken from the expression.
TypedResultAsDeclared(result, x) ==
    LET typed == IF result.type = "" THEN TypedLike(result, x) ELSE result
    IN  [typed EXCEPT !.kind = IF @ = "" THEN "measure" ELSE @]

TypedResult(result, x) ==
    LET typed == IF result.type = "" THEN TypedLike(result, x) ELSE result
        kind == IF x.measures = {} THEN "dimension" ELSE "measure"
        fills == typed.type \in {"decimal", "currency"} /\ x.prec > 0
    IN  [typed EXCEPT
            !.kind = IF @ = "" THEN kind ELSE @,
            !.prec = IF fills /\ @ = 0 THEN x.prec ELSE @,
            !.scale = IF fills /\ @ = 0 THEN x.scale ELSE @]

ValidResult(result, x) ==
    /\ result.type \in ResultTypes \cup {""}
    /\ result.kind \in {"dimension", "measure", ""}
    /\ result.type # "" => ResultCompatible(result, x)

CompileProjection(alias, tree) ==
    LET x == Compiled(sources, tree)
        result == AuthoredResult(alias)
    IN  /\ phase = "select"
        /\ Len(projections) <= MaximumColumns
        /\ IF /\ Len(projections) < MaximumColumns
              /\ alias # "" /\ alias \notin DOMAIN ProjectionByAlias
              /\ Valid(x)
              /\ ValidResult(result, x)
           THEN /\ projections' = Append(projections, [alias |-> alias, x |-> x, tree |-> tree])
                /\ resultSchema' = Append(resultSchema, TypedResult(result, x))
                /\ UNCHANGED <<phase, schema, sources, filters, groupBy, orderBy, limit>>
           ELSE Refuse

FinishProjections ==
    /\ phase = "select"
    /\ projections # <<>>
    /\ IF {r.key : r \in Elements(schema.results)} \subseteq DOMAIN ProjectionByAlias
       THEN phase' = "where" /\ UNCHANGED <<schema, plan>>
       ELSE Refuse

-----------------------------------------------------------------------------
(***************************************************************************)
(* WHERE and HAVING bind one expression or none; their type is not checked. *)
(***************************************************************************)
After(clause) == IF clause = "where" THEN "group" ELSE "order"

CompileFilter(clause, tree) ==
    LET x == Compiled(sources, tree)
    IN  /\ phase = clause
        /\ IF Valid(x)
           THEN /\ filters' = [filters EXCEPT ![clause] = x]
                /\ phase' = After(clause)
                /\ UNCHANGED <<schema, sources, projections, resultSchema, groupBy,
                               orderBy, limit>>
           ELSE Refuse

SkipFilter(clause) ==
    phase = clause /\ phase' = After(clause) /\ UNCHANGED <<schema, plan>>

CompileGroupTerm(tree) ==
    LET x == Compiled(sources, tree)
    IN  /\ phase = "group"
        /\ Len(groupBy) < MaxTerms
        /\ IF Valid(x)
           THEN /\ groupBy' = Append(groupBy, Term(x, tree))
                /\ UNCHANGED <<phase, schema, sources, projections, resultSchema,
                               filters, orderBy, limit>>
           ELSE Refuse

FinishGroupBy == phase = "group" /\ phase' = "having" /\ UNCHANGED <<schema, plan>>

CompileOrderByTerm(tree) ==
    LET x == CompileOrderTerm(Scope(sources), ProjectionByAlias, Trees, tree)
    IN  /\ phase = "order"
        /\ Len(orderBy) < MaxTerms
        /\ IF Valid(x)
           THEN /\ orderBy' = Append(orderBy, Term(x, tree))
                /\ limit' = [limit EXCEPT !.ordered = TRUE]
                /\ UNCHANGED <<phase, schema, sources, projections, resultSchema,
                               filters, groupBy>>
           ELSE Refuse

-----------------------------------------------------------------------------
(***************************************************************************)
(* The end of compileSelect: the limit, the tie terms a cursor needs, and   *)
(* the columns each source is read with.                                    *)
(***************************************************************************)
OrderContains(orders, x) ==
    \E o \in Elements(orders) :
        /\ o.x.kind = x.kind /\ o.x.alias = x.alias
        /\ o.x.field = x.field /\ o.x.name = x.name

SingleRow == groupBy = <<>> /\ \E p \in Elements(projections) : p.x.measures # {}

\* Mutant: the sources joined after the first term of the order are skipped.
TieCandidatesOfRoot ==
    IF groupBy # <<>> THEN groupBy
    ELSE IF SingleRow THEN <<>> ELSE <<IdTerm(sources[1].alias)>>

TieCandidates ==
    IF groupBy # <<>> THEN groupBy
    ELSE IF SingleRow THEN <<>>
    ELSE [i \in DOMAIN sources |-> IdTerm(sources[i].alias)]

\* appendObjectSQLStableOrder: each term is compared with those before it.
StableOrder ==
    LET appended[n \in 0..Len(TieCandidates)] ==
            IF n = 0 THEN orderBy
            ELSE LET term == TieCandidates[n]
                 IN  IF OrderContains(appended[n - 1], term.x) THEN appended[n - 1]
                     ELSE Append(appended[n - 1], term)
    IN  appended[Len(TieCandidates)]

\* Every column mentioned in the plan, whose ORDER BY is order.
References(order) ==
    UNION ({s.on.refs : s \in Elements(sources)}
           \cup {p.x.refs : p \in Elements(projections)}
           \cup {filters.where.refs, filters.having.refs}
           \cup {t.x.refs : t \in Elements(groupBy)}
           \cup {t.x.refs : t \in Elements(order)})

\* Mutant: the columns are collected before the tie terms are appended.
SourceFieldsOfAuthoredOrder(s, order) ==
    {r.field : r \in {ref \in References(orderBy) : ref.alias = s.alias}}

\* Mutant: every source is read with the columns of all.
SourceFieldsOfAnyAlias(s, order) == {ref.field : ref \in References(order)}

\* populateSourceFields
SourceFields(s, order) ==
    {r.field : r \in {ref \in References(order) : ref.alias = s.alias}}

\* Mutant: a LIMIT left out stays zero.
LimitRowsAsGiven(clause) == clause.rows

LimitRows(clause) == IF clause.given THEN clause.rows ELSE DefaultLimit

FinishSelect(clause) ==
    /\ phase = "order"
    /\ IF clause.given => clause.rows \in 1..MaximumLimit
       THEN /\ limit' = [limit EXCEPT !.rows = LimitRows(clause), !.explicit = clause.given]
            /\ orderBy' = StableOrder
            /\ sources' = [i \in DOMAIN sources |->
                              [sources[i] EXCEPT !.fields = SourceFields(sources[i], StableOrder)]]
            /\ phase' = "amplification"
            /\ UNCHANGED <<schema, projections, resultSchema, filters, groupBy>>
       ELSE Refuse

ValidateAmplification ==
    /\ phase = "amplification"
    /\ phase' = IF \A p \in Elements(projections) :
                       \A m \in p.x.measures : ~Amplified(sources, m)
                THEN "accepted" ELSE "refused"
    /\ UNCHANGED <<schema, plan>>

Next ==
    \/ CompileMetadata
    \/ Parse
    \/ \E object \in Objects, alias \in Aliases : CompileRoot(object, alias)
    \/ \E object \in Objects, alias \in Aliases, join \in {"inner", "left", "cross"},
          tree \in OnTrees : CompileJoin(object, alias, join, tree)
    \/ FinishSources
    \/ \E alias \in ResultAliases, tree \in SelectTrees : CompileProjection(alias, tree)
    \/ FinishProjections
    \/ \E clause \in {"where", "having"} :
          SkipFilter(clause) \/ \E tree \in FilterTrees : CompileFilter(clause, tree)
    \/ \E tree \in GroupTrees : CompileGroupTerm(tree)
    \/ FinishGroupBy
    \/ \E tree \in OrderTrees : CompileOrderByTerm(tree)
    \/ \E clause \in Limits : FinishSelect(clause)
    \/ ValidateAmplification

Spec == Init /\ [][Next]_vars

-----------------------------------------------------------------------------
(***************************************************************************)
(* Every part of a plan has its type, and a source is read with columns of  *)
(* its own object only: what the host secures per object exists.            *)
(***************************************************************************)
TypeOK ==
    /\ phase \in {"metadata", "parse", "from", "select", "where", "group", "having",
                  "order", "amplification", "accepted", "refused"}
    /\ schema \in Schemas
    /\ \A s \in Elements(sources) :
           /\ s.object \in Objects /\ s.alias \in Aliases
           /\ s.cardinality \in Cardinalities \cup {""}
           /\ s.fields \subseteq ColumnsOf(s.object)
    /\ Len(projections) <= MaximumColumns
    /\ Len(resultSchema) = Len(projections)
    /\ limit.rows \in 0..MaximumLimit

Complete == phase \in {"amplification", "accepted"}

(***************************************************************************)
(* A source is read with every column the finished plan mentions, the tie   *)
(* terms the compiler added itself included (object_sql_cardinality.go      *)
(* 133-162): an executor that secures exactly these columns can run it.     *)
(***************************************************************************)
SourcesDeliverReferences ==
    Complete =>
        \A ref \in References(orderBy) :
            \E s \in Elements(sources) :
                s.alias = ref.alias /\ ref.field \in s.fields

(***************************************************************************)
(* The author's declarations are assertions: none is silently ignored       *)
(* (object_sql_validation.go 140-142, 169-194, 291-345).  Every declared    *)
(* object is read and no other, every cardinality is that of a JOIN of that *)
(* alias, and every declared result is a column of the plan with the        *)
(* declared type and kind.                                                  *)
(***************************************************************************)
DeclarationsHold ==
    phase = "accepted" =>
        /\ DeclaredObjects # {} =>
               DeclaredObjects = {s.object : s \in Elements(sources)}
        /\ \A a \in Elements(schema.assertions) :
               \E i \in 2..Len(sources) :
                   sources[i].alias = a.alias /\ sources[i].cardinality = a.cardinality
        /\ \A r \in Elements(schema.results) :
               \E i \in DOMAIN projections :
                   /\ projections[i].alias = r.key /\ resultSchema[i].key = r.key
                   /\ r.type \in {"", resultSchema[i].type}
                   /\ r.kind \in {"", resultSchema[i].kind}

(***************************************************************************)
(* A result published as money or as a scaled decimal has the scale its     *)
(* expression is computed with, whatever the author left out                *)
(* (object_sql_validation.go 297-333).                                      *)
(***************************************************************************)
ResultsKeepScale ==
    \A i \in DOMAIN projections :
        (/\ resultSchema[i].type \in {"currency", "decimal"}
         /\ resultSchema[i].type = projections[i].x.type) =>
            resultSchema[i].scale = projections[i].x.scale

(***************************************************************************)
(* The rows of an ungrouped plan are told apart by its order, so that a     *)
(* cursor over it is never ambiguous (object_sql_validation.go 407-430).    *)
(***************************************************************************)
UngroupedOrderIsTotal ==
    (Complete /\ groupBy = <<>> /\ ~SingleRow) =>
        \A s \in Elements(sources) :
            \E t \in Elements(orderBy) :
                t.x.kind = "field" /\ t.x.alias = s.alias /\ t.x.field = "id"

(***************************************************************************)
(* The same of a grouped plan: its rows differ in some GROUP BY term, so    *)
(* its order must contain each of them.                                     *)
(***************************************************************************)
GroupedOrderIsTotal ==
    Complete => \A g \in Elements(groupBy) :
                    \E t \in Elements(orderBy) : t.tree = g.tree

-----------------------------------------------------------------------------
(***************************************************************************)
(* The FROM tree and the measures of a compilation follow JoinPlan.         *)
(***************************************************************************)
OnOf(x) ==
    [form |-> IF x.required = x.eqs THEN "and" ELSE "or", eqs |-> x.eqs]

\* What any of these trees compiles to, in any scope a report may have.
CompiledFrom(trees) ==
    {CompileExpression(ScopeOf(s, objects), Trees, tree) :
        s \in Schemas, tree \in trees,
        objects \in UNION {[names -> Objects] : names \in SUBSET Aliases}}

CompiledOns == {OnOf(x) : x \in {y \in CompiledFrom(OnTrees) : Valid(y)}}
CompiledMeasures == {x.measures : x \in {y \in CompiledFrom(SelectTrees) : Valid(y)}}

ASSUME MeasuresAreFinite == IsFiniteSet(UNION CompiledMeasures)

PlanPhase ==
    IF phase \in {"metadata", "parse", "from"} THEN "from"
    ELSE IF phase \in {"accepted", "refused"} THEN phase ELSE "select"

PlanSources ==
    [i \in DOMAIN sources |->
        [object |-> sources[i].object, alias |-> sources[i].alias,
         join |-> sources[i].join, cardinality |-> sources[i].cardinality,
         on |-> OnOf(sources[i].on)]]

Plan == INSTANCE JoinPlan WITH
            phase <- PlanPhase,
            sources <- PlanSources,
            measures <- UNION {p.x.measures : p \in Elements(projections)},
            OnExpressions <- CompiledOns,
            Projections <- CompiledMeasures,
            MaxMeasures <- Cardinality(UNION CompiledMeasures)

(***************************************************************************)
(* A compilation only ever adds a join whose cardinality is proven from the *)
(* metadata and never accepts an amplified measure: what JoinExecution      *)
(* shows of accepted plans holds of the compiler's.                         *)
(***************************************************************************)
ImplementsJoinPlan == Plan!Spec

=============================================================================
