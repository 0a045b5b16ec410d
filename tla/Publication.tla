------------------------------ MODULE Publication ------------------------------
(***************************************************************************)
(* A report from its authoring to its execution: the statement is compiled, *)
(* CanonicalReportObjectSQL replaces the author's declarations by what the  *)
(* plan says, and the published definition is compiled again when the       *)
(* report is run.  The plan itself is never stored: the second compilation  *)
(* must find by itself what the first one published.                        *)
(*                                                                          *)
(* statement records the clauses the compiler has read, so that the second  *)
(* compilation reads the same SQL, and so that source discovery, which a    *)
(* host calls before it has metadata, can be asked about it.                *)
(***************************************************************************)
EXTENDS ObjectSQLCompiler

VARIABLES
    statement,  \* the clauses of the SQL text, in the order they are read
    position,   \* how many of them this compilation has read
    published   \* <<>> or the plan of the published definition, as <<plan>>

publicationVars == <<vars, statement, position, published>>

ASSUME PublicationAssumption ==
    \A s \in Schemas : DOMAIN s = {"sourceObjects", "parameters", "results", "assertions",
                                   "timeZone", "timeout"}

\* The entries of a list, each once, in the order in which they first occur.
EachOnce(list) ==
    LET listed[n \in 0..Len(list)] ==
            IF n = 0 THEN <<>>
            ELSE IF list[n] \in Elements(listed[n - 1]) THEN listed[n - 1]
            ELSE Append(listed[n - 1], list[n])
    IN  listed[Len(list)]

ObjectsOf(list) == [i \in DOMAIN list |-> list[i].object]

-----------------------------------------------------------------------------
(***************************************************************************)
(* Clauses.  An "end" closes the clause the compiler is in.                 *)
(***************************************************************************)
Table(object, alias, join, tree) ==
    [clause |-> "table", object |-> object, alias |-> alias, join |-> join, tree |-> tree]
Expression(clause, alias, tree) ==
    [clause |-> clause, object |-> "", alias |-> alias, join |-> "", tree |-> tree]
End == Expression("end", "", <<>>)
LimitClause(clause) == Expression("limit", "", clause)

\* The FROM tree: it is read before the other clauses.
Tables ==
    SubSeq(statement, 1,
           Cardinality({i \in DOMAIN statement : statement[i].clause = "table"}))

\* Whether the compiler reads c next, which in authoring is the author's choice.
Reads(c) ==
    IF published = <<>>
    THEN statement' = Append(statement, c) /\ position' = position + 1
    ELSE /\ position < Len(statement) /\ statement[position + 1] = c
         /\ position' = position + 1
         /\ UNCHANGED statement

ReadClause ==
    \/ \E object \in Objects, alias \in Aliases :
          \/ CompileRoot(object, alias) /\ Reads(Table(object, alias, "", <<>>))
          \/ \E join \in {"inner", "left", "cross"}, tree \in OnTrees :
                CompileJoin(object, alias, join, tree) /\ Reads(Table(object, alias, join, tree))
    \/ \E alias \in ResultAliases, tree \in SelectTrees :
          CompileProjection(alias, tree) /\ Reads(Expression("select", alias, tree))
    \/ \E clause \in {"where", "having"}, tree \in FilterTrees :
          CompileFilter(clause, tree) /\ Reads(Expression(clause, "", tree))
    \/ \E tree \in GroupTrees : CompileGroupTerm(tree) /\ Reads(Expression("group", "", tree))
    \/ \E tree \in OrderTrees : CompileOrderByTerm(tree) /\ Reads(Expression("order", "", tree))
    \/ \E clause \in Limits : FinishSelect(clause) /\ Reads(LimitClause(clause))
    \/ /\ FinishSources \/ FinishProjections \/ FinishGroupBy
       /\ Reads(End)
    \/ \E clause \in {"where", "having"} : SkipFilter(clause) /\ Reads(End)

\* Metadata, parsing and amplification read no clause.
CompileUnread ==
    /\ \/ CompileMetadata
       \/ ValidateAmplification
       \/ Parse /\ (published # <<>> => phase' = "from")
    /\ UNCHANGED <<statement, position>>

-----------------------------------------------------------------------------
(***************************************************************************)
(* DiscoverReportObjectSQLSources: the tables of the FROM tree, each once,  *)
(* or nothing when a join is of a kind it refuses.                          *)
(***************************************************************************)
\* Mutant: only the tables to the right of a join are collected.
DiscoveredOfJoins ==
    IF \E c \in Elements(Tables) : c.join \notin {"", "inner", "left"} THEN <<>>
    ELSE EachOnce(Tail(ObjectsOf(Tables)))

DiscoveredSources ==
    IF \E c \in Elements(Tables) : c.join \notin {"", "inner", "left"} THEN <<>>
    ELSE EachOnce(ObjectsOf(Tables))

(***************************************************************************)
(* CanonicalReportObjectSQL: the declarations are replaced, the statement,  *)
(* its parameters and its time zone are kept.                               *)
(***************************************************************************)
\* Mutant: an object joined to itself is listed twice.
CanonicalSourcesOfAliases == ObjectsOf(sources)

CanonicalSources == EachOnce(ObjectsOf(sources))

\* Mutant: the results are published with the types of their expressions.
CanonicalOfExpressions ==
    [schema EXCEPT !.sourceObjects = CanonicalSources, !.assertions = <<>>,
                   !.results = [i \in DOMAIN projections |->
                                   TypedLike(resultSchema[i], projections[i].x)]]

Canonical ==
    [schema EXCEPT !.sourceObjects = CanonicalSources,
                   !.results = resultSchema,
                   !.assertions = <<>>]

-----------------------------------------------------------------------------
PublicationInit ==
    /\ Init
    /\ statement = <<>>
    /\ position = 0
    /\ published = <<>>

Compile == (ReadClause \/ CompileUnread) /\ UNCHANGED published

(***************************************************************************)
(* The definition is published and a compilation of it begins.              *)
(***************************************************************************)
Publish ==
    /\ phase = "accepted"
    /\ published = <<>>
    /\ published' = <<plan>>
    /\ schema' = Canonical
    /\ phase' = "metadata"
    /\ sources' = <<>> /\ projections' = <<>> /\ resultSchema' = <<>>
    /\ filters' = [where |-> Blank, having |-> Blank]
    /\ groupBy' = <<>> /\ orderBy' = <<>>
    /\ limit' = [rows |-> 0, explicit |-> FALSE, ordered |-> FALSE]
    /\ position' = 0
    /\ UNCHANGED statement

PublicationNext == Compile \/ Publish

PublicationSpec == PublicationInit /\ [][PublicationNext]_publicationVars

Republished == published # <<>> /\ phase = "accepted"

-----------------------------------------------------------------------------
(***************************************************************************)
(* What is published names each object once and each result of the report,  *)
(* in the order the report has them, and asserts nothing about cardinality. *)
(***************************************************************************)
PublicationTypeOK ==
    /\ position <= Len(statement)
    /\ published # <<>> =>
          /\ Distinct(schema.sourceObjects)
          /\ Keys(schema.results) = [i \in DOMAIN published[1][2] |-> published[1][2][i].alias]
          /\ schema.assertions = <<>>

\* NULL alone, as a projection, has a type no declaration may have.
HasUntypedResult == \E r \in Elements(schema.results) : r.type = "null"

(***************************************************************************)
(* A published report can be run: the definition the compiler derived from  *)
(* an accepted one is accepted (object_sql_validation.go 140-160), unless   *)
(* it has the result of a bare NULL.                                        *)
(***************************************************************************)
CanonicalRecompiles ==
    published # <<>> /\ phase = "refused" => HasUntypedResult

(***************************************************************************)
(* A published report runs the plan that was validated when it was          *)
(* published, column for column, and publishing it again changes nothing.   *)
(***************************************************************************)
CanonicalPlanUnchanged ==
    Republished => published = <<plan>> /\ Canonical = schema

(***************************************************************************)
(* The objects a host loads before it compiles are those the compilation    *)
(* binds and the publication names, in the same order                       *)
(* (object_sql_discovery.go 11-14; report_object_sql.go 22-27).             *)
(***************************************************************************)
DiscoveryAgrees ==
    phase = "accepted" =>
        /\ DiscoveredSources = CanonicalSources
        /\ published # <<>> => schema.sourceObjects = DiscoveredSources

=============================================================================
