# Verification of the Domainry Report SDK

TLA+ models of the parts of this SDK that decide something, TLC runs that check
them on small instances, and TLAPS proofs of what matters most for every
instance. The SDK is a library of contracts: most of it declares interfaces and
data, and the logic is in `query/objectsql`, the compiler of Object SQL
reports. Around it are the contracts a governed report passes through: publication,
parameters, export lifetimes, paging and process authority.

## The system

| component | source | state it keeps | operations | modelled in |
|---|---|---|---|---|
| Object SQL compiler | `query/objectsql/object_sql_{validation,cardinality,expression}.go` | tables of one compilation (aliases, alias order, parameters, results, projections) and the plan | `CompileReportObjectSQL` | `ObjectSQLCompiler`, `JoinPlan`, `ObjectSQLCardinality`, `ObjectSQLExpression`, `ObjectSQLMetadata` |
| expressions and types | `object_sql_expression.go` | none: recursive descent | `compileExpression` and its cases | `ObjectSQLExpression`, `ExpressionCompilation` |
| plan execution | outside (`modulehost.ObjectSQLExecutor`) | the host's rows, the reader's position | scan, join, read a page | `JoinExecution`, `CursorTraversal`, `ResultReader`, external |
| canonical publication | `object_sql_validation.go` 140-160 | the published definition | `CanonicalReportObjectSQL` | `Publication` |
| source discovery | `object_sql_discovery.go` | none | `DiscoverReportObjectSQLSources` | `Publication` |
| parameters | `report_parameters.go` | the stored scope of an export | `NormalizeParameters` | `ParameterNormalization`, `GovernedExport` |
| cross-workspace check | `security.go` | none | `SafeCrossWorkspaceAggregatePlan` | no: see below |
| authority | `model/report_authority.go` | process capabilities of a subject, in shared arrays | `HasPermission`, `WithExactProcessCapabilities` | `ReportSubject` |
| export control | `contract/report_export_control.go` | the lifetime of an export | `ReportExportDownloadTTLSeconds` | `ExportTTL`, `GovernedExport` |
| hashing, file names | `contract/report_helpers.go` | none | digests, character filter | no: one pure call each |
| descriptor, errors | `sdk.go` | none | `Descriptor.Validate` | no: one conjunction |
| snapshots, definitions | `persistence/*.go` | none here | interfaces of claim, lease, fencing | no: the implementation is not in this repository |
| host and application contracts | `modulehost/*.go`, `governed_queries.go`, `result_read.go`, `analysis.go` | none here | interfaces | no |
| schemas and values | `model/*.go` | data | JSON tags | no |

How they interact. A host discovers the objects a report reads, loads their
published metadata (`query.Object`, `query.Field`), and compiles the report: the
compiler binds every table and column to the metadata and returns a plan, or one
error. Publishing stores the canonical form. At run time the host normalizes the
parameters, secures each source for the columns the plan lists in
`Source.Fields`, executes the plan and pages through the result with an opaque
cursor, which relies on the order the compiler completed. An export stores the
normalized parameters with its job, and workers, perhaps in another process and
after another publication, normalize them again for every page. A trusted
process carries capabilities in a value that the host copies, expands per work
item and may serialize. Every function here is a synchronous call: no locks,
goroutines, timers or persistence. What is hard is **what a later step may rely
on after an earlier one** (the alias tables, the inferred cardinality, the order
of clauses, the canonical form, a stored scope), **what a static answer means
for data** nobody has seen at compile time, and **what is shared** by values
that look like copies.

What makes the parts correct:

* a cardinality is inferred from a key the data obeys, and no later join can
  invalidate it (`PlanInv`, `PrefixDetermines`);
* an accepted measure is computed over unrepeated rows (`MeasureGrain`,
  `CountGrain`);
* money keeps its currency scale through every expression, or is a plain number
  once CASE or COALESCE merged it with one (`MoneyKeepsItsUnit`; exempt is money
  after an operand of another unit in a COALESCE);
* minor units become whole ones only where FLOOR makes them so
  (`IntegersAreWholeUnits`; exempt are the same COALESCE and a percentage from a
  CASE over decimals of different scales);
* a plan is closed: each source is read with every column the plan mentions, and
  no column it does not have (`SourcesDeliverReferences`, `TypeOK`);
* an author's declarations are assertions that hold or refuse
  (`DeclarationsHold`, `ResultsKeepScale`);
* the order of an ungrouped plan is total (`UngroupedOrderIsTotal`);
* the whole compilation follows the abstract plan construction
  (`ImplementsJoinPlan`);
* a published report compiles to the plan that was validated
  (`CanonicalRecompiles`, `CanonicalPlanUnchanged`), from the objects discovery
  names (`DiscoveryAgrees`);
* the pages of a traversal fit together and end (`ImplementsResultReader`,
  `TraversalCompletes`);
* an export keeps its parameters and asks for a lifetime somebody authored
  (`PreparedValuesSurvive`, `StoredValuesBind`, `LifetimeAsAuthored`,
  `LifetimeRepresentable`);
* a subject has exactly the capabilities derived for it, because an expansion
  writes into no array another copy sees (`CapabilitiesExact`,
  `ExternalSubjectsGainNothing`, `ArraysUntouched`).

The hazards behind these properties are listed in `PROJECT.json`, each with the
line where it bites.

## The modules

    ObjectSQLMetadata          fields, envelope columns, types, uniqueness, relations
      ObjectSQLCardinality     join cardinality inference, the amplification rule
      |  JoinPlan              abstract: a plan grows by proven joins only
      |    JoinExecution       accepted plans run over data
      |      JoinExecutionProofs
      ObjectSQLExpression      compileExpression, as operators
         ObjectSQLExpressionProofs
         ExpressionCompilation arbitrary expressions, built bottom up
           ExpressionCompilationProofs
         ObjectSQLCompiler     the whole compilation; implements JoinPlan
           ObjectSQLCompilerProofs
           Publication         compiled, published, compiled again; discovery
             PublicationProofs
           CursorTraversal     read page by page; implements ResultReader
             CursorTraversalProofs
    ResultReader               abstract: every row once, until all have arrived
    ParameterNormalization     NormalizeParameters, as operators
      ExportTTL                the lifetime of a download, as operators
        GovernedExport         prepared, stored, resolved again and again
          GovernedExportProofs
    ReportSubject              process authority over shared slices
      ReportSubjectProofs

`ObjectSQLMetadata` translates `objectSQLField`, `objectSQLFieldType` and the
uniqueness facts. Field keys are unique and trimmed, so the linear scan is
function application; the four envelope columns shadow declared ones as in the
code.

`ObjectSQLCardinality` translates `inferJoinCardinality` and
`validateAmplification`. An ON expression is reduced to what the walk sees, the
set of column equalities anywhere in it; a measure to its function, DISTINCT and
the aliases of its arguments. `aliasOrder` is the position in the sequence of
sources.

`JoinPlan` is the abstract specification. Its state is the FROM tree (`sources`)
and the measures; `AddRoot` and `AddJoin` are `compileBaseSource`, `Project` is
`compileSelect` for the aggregates of a projection, `Accept` the closing
amplification check. It may refuse at any time: limits, types and legacy
assertions are below its level of detail.

`JoinExecution` runs an accepted plan. A joined row is the sequence of source
rows it was built from, NULL where a left join found none. `Databases` is any
set of data that obeys the metadata (a unique column repeats no value except
NULL). `Scan` and `Join` are the host's, with standard SQL semantics for
AND, OR, NOT, NULL, INNER and LEFT JOIN; this SDK contains no executor.

`ObjectSQLExpression` translates each case of `compileExpression`. Nodes arrive
as `[node, op, name, args]`, the shape of the parser's; a compiled expression
has the attributes of `ReportObjectSQLExpression` that some later step reads,
and instead of the tree below it the results of the three walks over it: the
columns, the aggregates and the equalities. All errors are one value, `Invalid`,
because every error refuses the definition. String literals and the syntax the
compiler forbids are refused; error codes and paths are left out.

`ExpressionCompilation` compiles every expression TLC can build from given
leaves and operators, on a stack in the order of the recursive descent. Beside
each operand it keeps which stored amounts flow into its value, an observation
no field of the program records. Each amount carries the construct it lost its
unit in (`via`): merged with a plain number, put after another unit by COALESCE,
or merged by CASE with a decimal of another scale; otherwise it is `kept`.
`Through` decides this from the node and the units of its operands, never from the type
the compiler gives the result, so a compiler that typed money as a number would
be caught.

`ObjectSQLCompiler` is `CompileReportObjectSQL` step by step. The declarations
are chosen in `Init`; the statement is chosen as it is read. One action per
operation: `CompileMetadata`, `Parse`, `CompileRoot` and `CompileJoin`
(`compileBaseSource`), `FinishSources`, `CompileProjection`,
`FinishProjections`, `CompileFilter` (WHERE and HAVING), `CompileGroupTerm`,
`CompileOrderByTerm`, `FinishSelect` (limit, stable order and source columns, one
action because the code runs them in one go), `ValidateAmplification`. The
compilation returns nothing before its end; the intermediate states exist so that
the order in which tables are filled and used is part of the model. Left out:
sort directions, the text of errors, node counts and other limits on the text
(`Parse` refuses or not), and the whitespace trimming of keys.

`Publication` composes the compiler with `CanonicalReportObjectSQL`. `statement`
records the clauses the author's compilation read; `Publish` replaces the
declarations by what the plan says (its objects, each once, its result schema,
no cardinalities) and begins a compilation that reads the same clauses and must
succeed by itself, since the plan is never stored. `DiscoveredSources` is
`DiscoverReportObjectSQLSources` over the tables of that statement. A projection
of a bare NULL is the one known exception to `CanonicalRecompiles`: its type
`null` is derived by the compiler and accepted in no declaration.

`CursorTraversal` composes the compiler with an executor and a reader outside
this repository, as `ReportObjectSQLExecutionRequest` describes them: each page
is an execution of its own, from a position, and rows the order does not tell
apart may come in any order each time, so an execution is any bijection of
positions and rows that respects the order. Joined rows over-approximate an ON
(any non-empty finite set of up to `MaxRows`, NULL on the right of a left join), so
no data is excluded. The values of a row are what its columns hold, buckets merge neighbouring times, and
an aggregate tells rows nothing. `ResultReader` is what a reader is promised:
pages of rows not delivered before, out of one result. The refinement maps
`result` to the rows of the report up to its limit.

`ParameterNormalization` translates `NormalizeDeclaredParameters` and
`parameterValue` branch by branch. A value is its Go type and its spelling;
parsing and formatting are given functions from spellings to canonical ones,
of which only that they are idempotent is assumed. JSON encoding changes an
int64 to a number, and decoding into `any` without `UseNumber` to the nearest
float64. `ExportTTL` translates `ReportExportDownloadTTLSeconds` with a scaled
int64: the bound of the float branch is `MaxInt + 1`, as `float64(MaxInt64)`
is, and converting that number has two possible results. `GovernedExport`
puts both in the order `reportsdk.Exports` offers: `Prepare` (or a refusal),
`Resolve` by a worker with either decoder, `NextPage` with the normalized
scope, and `Republish` at any time.

`ReportSubject` keeps the backing arrays of `ProcessCapabilities` in its state,
with their capacity, because a subject is copied by value but its slice is not:
`Resolve`, `Assign` and `Send` (JSON, the tagged fields are zero) are the
host's, `Expand` is `WithExactProcessCapabilities`, whose loop is a recursive
function of the entries read so far. `given`, `derived` and `external` record what
the process was resolved with and what the owners of the work granted, which no
field of a subject says.

`MC*` modules hold the instances: objects, metadata, expressions and data.

## The runs

| run | cfg | question | result |
|---|---|---|---|
| `join_execution` | `MCJoinExecution` | do plans of up to three sources keep rows unrepeated, measures unamplified? | holds, 168,000 states |
| `join_conjunctions` | `MCJoinConjunctions` | the same with two equalities per ON | holds, 176,000 states |
| `expression_compilation` | `MCExpressionCompilation` | do expressions keep money, scale and precision, but for the merges named in the properties? | holds, 1,383,000 states |
| `object_sql_compiler` | `MCObjectSQLCompiler` | is every accepted plan closed, ordered, true to the declarations and a JoinPlan? | holds, 164,000 states |
| `publication` | `MCPublication` | does a published report compile to the validated plan, from the discovered objects? | holds, 166,000 states |
| `cursor_traversal` | `MCCursorTraversal` | do the pages of a plan deliver every row once, and end? | holds, 12,000 states |
| `governed_export` | `MCGovernedExport` | does an export keep its parameters and an authored lifetime? | holds, 900 states |
| `report_subject` | `MCReportSubject` | does each subject have exactly what was derived for it? | holds, 77,000 states |
| `join_disjunctions` | `MCJoinDisjunctions` | is a cardinality proven whatever the shape of ON? | violated |
| `join_source_rows` | `MCJoinSourceRows` | is a row counted once by a measure over its own source? | violated |
| `coalesced_money` | `MCCoalescedMoney` | is money never a factor? | violated |
| `grouped_order` | `MCGroupedOrder` | is the order of a grouped plan total? | violated |

Bounds and why they are enough. A cardinality is a relation between two columns
of two sources, and amplification one between a source and a later join: three
sources have a join before, at and after any of them. One object has a key
only, the other a key and a reference, which give every cardinality and the
unprovable join; the aliases are symmetric because the compiler only compares
them. Two rows per object show a repeated row; the four databases hold two
referring rows, one each, a NULL and a dangling reference (the runs with two
equalities per ON keep the first and the last). Six nodes are enough
for an operator over two operators, and the fields have two money scales,
percentages of two scales, a count and a plain number, every case of the type
algebra.
In `object_sql_compiler` the maxima are 1 join and 2 columns instead of 8 and
64, so that both limits are exceeded; statements have one term per GROUP BY and
ORDER BY (two GROUP BY terms in `grouped_order`), and the declarations include
a duplicate object, a right and a wrong legacy cardinality, one on the root, a result
without a scale and a result of another type. A definition that is refused
for its declarations stays refused, so each set of declarations is one
deviation from the empty one.

In `publication` the declarations are none, sources out of order with a right
assertion, a result of the derived type with its scale left out, and a result
declared decimal over money; an object may be joined to itself. In `cursor_traversal` results have up to four
joined rows, read two at a time under the default limit of five and a limit of
three, so a page may be full, partial or cut by the limit; all amounts are
equal, so that every authored order has ties. A GROUP BY has one term there and
no ORDER BY term is computed, so the confusion of terms in the violated run
`grouped_order` is not met: `ImplementsResultReader` says nothing of plans that
have it. In
`governed_export` an int64 has 8 bits and a second 10 nanoseconds, and each
legacy form meets each boundary it can represent; the scopes cover every
parameter type, and the float64 of one integer is spelled as another. In
`report_subject` three holders are one base subject and its expansion for two
work items, whose lists repeat an entry, a spelling and a wildcard; three arrays
are a base with spare capacity and a copy for each.

The violated runs state what a comment or a test of the repository says of the
program; `findings` in `PROJECT.json` quotes it. In short:

* `object_sql_cardinality.go:15` counts an equality under OR or NOT as a proof,
  so `ON s.id = p.sale_id OR s.id = p.id` is inferred `one_to_one` and multiplies rows
  (the proofs below therefore assume conjunctions, `ConjunctiveJoins`);
* `object_sql_cardinality.go:110` looks only at later joins, so a sum over the
  one side of a `many_to_one` join is accepted while the same query with its
  tables swapped is refused;
* `object_sql_expression.go:248` lets COALESCE change the unit, so money can be
  multiplied after all, and minor units reach an integer (`MoneyKeepsItsUnit` and
  `IntegersAreWholeUnits` exempt the amounts that went this way, `via`
  "coalesce");
* `object_sql_validation.go:459` takes any two computed terms of the same kind and
  name for one, two group keys or a group key and an ORDER BY term, so a cursor over
  such a plan has ties (`UngroupedOrderIsTotal` holds).

CHECK_DEADLOCK is off in every run but `governed_export`: a compilation ends,
accepted or refused, an executed plan ends after its last join, a traversal
after its last page, and the arrays of `report_subject` and the nodes of an
expression are bounded.

Fairness is assumed of one action, `WF_traversalVars(ReadPage)`: a reader that
keeps asking for the next page, which is what an export worker does until the
result has no more. Under it every traversal ends with all rows
(`TraversalCompletes`), and the abstract reader's own fairness is implemented.
Nothing else is fair: the functions of this SDK run when they are called, there
is no scheduler, and termination of the compiler is the recursion over a finite
statement.

## The proofs

`JoinExecutionProofs` proves of `ExecSpec`, for all objects, metadata, aliases,
ON expressions, measures, numbers of sources and data:

* `TypeCorrect`: `[]ExecTypeOK`;
* `PlanAlwaysProven`: `[]PlanInv`, the key behind every cardinality;
* `JoinsKeepRows`: `[]PrefixDetermines`;
* `MeasuresNotAmplified` and `CountsNotAmplified`: `[]MeasureGrain` and
  `[]CountGrain`.

Assumptions: `MetadataAssumption`, `JoinPlanAssumption` and
`JoinExecutionAssumption`, which only say what the constants are and that data
obeys uniqueness. TLC evaluates them in the runs of `MCJoinExecution`.

The argument. `MeasureGrain` is not inductive: nothing in it says why a join does
not repeat rows. The inductive invariant is `ExecInv`, the conjunction of types
(`TypeInv`: an executed plan was accepted, its data is one of `Databases`),
`PlanInv` and `PrefixDetermines`. `InferredKey` shows that an inference other
than `one_to_many` names a unique column of the joined source equated with a
column of an EARLIER one; `KeyedByPrefix` that appending sources does not change
that. `OneMatch` turns the key into data: two rows that both match a joined row
hold the same non-NULL value in a unique column, so they are one row.
`JoinPrefix` is the induction step: two joined rows that agree on a prefix after
which nothing fans out extend rows that agree on it, hence the same row, and by
`OneMatch` in the same way. The measures follow because an accepted one has no
later fanning join, the last conjunct of `PlanInv`.

`ObjectSQLExpressionProofs` proves `CompiledExpressionsAreSound`: for a tree of
any depth, in any scope whose columns have fields, `CompileExpression` returns
`Invalid` or an expression with a type of the plan, a precision a database has,
and columns, aggregates and equalities over columns that exist in that scope. There
is one lemma per case of `compileExpression` (`ColumnSound`, `BinarySound`,
`CaseSound`, `AggregateSound`, ...), each from the lemmas on the type algebra
(`NumberIs`, `MergedIs`, `CoalescedIs`), and an induction over the depth of the
trees puts them together. The library's induction theorems take an operator,
which the provers cannot instantiate. The lemmas `Least`, `UpTo` and `Ranked` therefore
restate induction with sets (the numbers that have the property) and derive it from
the well-foundedness of strict inclusion among finite sets, so induction over data is
proved here after all. What it needs of the statement is `IsForest(Trees, Depth)`: an
operand is less deep than its operator.

`ExpressionCompilationProofs` proves `OperandsAlwaysTyped` (`[]TypeOK`),
`MoneyAlwaysKeepsItsUnit` and `IntegersAreAlwaysWholeUnits` for expressions of any
size over any leaves and operators, with the exemptions their comments name. Neither
property is inductive: an operator sees only the types of its operands, so the
invariant `OperandOK` says of every type which stored amounts may be in a value of
it, amount by amount (`UnitKept`): a kept percentage, of which the properties say
nothing until it is in an integer, has its own scale as long as it has one. The
proof of a step joins two analyses of the node, each construct by construct:
`ValuesFlow` says what the compiler's type keeps of an operand that flows into the value,
`ThroughIs` what becomes of the amount, and `FlowKeeps` that the two agree. The first
rests on the lemmas of the type algebra: arithmetic on money keeps its
type and scale or is refused (`ArithmeticIs`), CASE keeps what it knows of every
branch (`Keeps`) and has its unit from one of them (`TakesUnit`). Assumption:
`ExpressionCompilationAssumption` (`IsScope`, and `HasOperands`: a node has the
number of operands its syntax requires).

`ObjectSQLCompilerProofs` proves of `Spec`, for any declarations, metadata,
statement and limits:

* `DeclarationsAlwaysHold`, `PlansAlwaysTyped`, `SourcesAlwaysDeliver`,
  `ResultsAlwaysKeepScale`, `UngroupedOrderIsAlwaysTotal`: all five invariants
  of the run;
* `CompilationsFollowJoinPlan`: `Spec => ImplementsJoinPlan`, the refinement.

An accepted plan is the end of a long sequence of steps, each of which checks a
little. The inductive invariant `CompilerInv` has five parts.
`DeclarationInv` says what each declaration has become so far
(`CardinalitiesAsserted`, `ResultsTyped`) and from which phase on it has been
compared with all of the statement (`ObjectsUsed`, `AssertionsUsed` after FROM,
`ResultsSelected` after SELECT). `BindingInv` says that the clauses compiled so far
mention only columns of the sources bound so far; it survives a join because
binding is by alias and sources are only appended (`MentionsMore`).
`ResultsScaled` keeps the scale of each published result, `ControlInv` the phases
and the limit, and `PlanFinished` what the last step owes: the tie terms
(`StableOrderIs`) and the columns of every source (`FilledDelivers`). The
refinement rests on `AlikeInference`: inference depends on aliases and objects
only, so the sources of `JoinPlan`, which know nothing of legacy assertions and
columns, infer the same cardinality. Assumptions: `CompilerAssumption` (the trees
form a forest, the limits are numbers and `DefaultLimit` lies within
`1..MaximumLimit`), `SchemaAssumption` (the fields of a declared result) and
`MeasuresAreFinite` (one report has finitely many aggregates).

`PublicationProofs` proves of `PublicationSpec`, for any declarations, metadata and
statement, all four invariants of the run: `PublicationAlwaysTyped`,
`CanonicalAlwaysRecompiles`, `CanonicalPlanAlwaysUnchanged` and
`DiscoveryAlwaysAgrees`. They relate two compilations that never exist at the same
time: when the second runs, the sources and projections of the first are gone and
only the text is left. The inductive invariant therefore says what the plan is
as a FUNCTION of the clauses read and the declarations (`PlanRead`, and
`SourcesRead`, `ProjectionsRead`, ... for its parts), in every phase (`PhaseInv`),
and what a clause must be for a compilation to pass it (`StatementFits`). From there:

* a statement is read in one way only, because the end of each clause is marked
  (`OrderAligned`), so that the second compilation is always in the clause
  in which the first was at that position;
* what is read depends on the parameters and the time zone only, which
  publication keeps (`SameStatement`, `SamePlan`);
* while authoring, `AuthoringInv` (with `CompilerInv`) says that each result has
  been completed from its expression, and that completing it again changes
  nothing (`Settled`, `TypedSettles`): this is what the second compilation finds
  declared;
* after publication, `Original` says how the definition follows from the text, and
  `Running` that the compilation has recomputed the declared results so far and
  that only a bare NULL refuses it; `ReplayStep` has one lemma per clause
  (`ReplayJoin`, `ReplayProjection`, ...);
* the objects are `EachOnce` of those of the FROM tree in both places, since
  the tables are the first clauses of the text and no later clause is one
  (`OtherClauses`, `TablesAreRead`).

Assumptions: those of the compiler and `PublicationAssumption` (the fields of a
definition).

`CursorTraversalProofs` proves `TraversalsAlwaysTyped` and `PagesFollowReader`: a
traversal starts where `ResultReader` starts, and each of its steps is a step of
`ResultReader` as long as the plan's order holds groups apart
(`GroupedOrderIsTotal`, which the run `grouped_order` shows to be breakable and
which is true of every plan without groups). A page is a slice of another
execution than the page before, so nothing in one step says that they fit
together. The invariant has four parts beside `CompilerInv`: `TiesInv` ties every
term to the expression tree it was compiled from, so that its values are
numbers; `ReadingInv` counts; and `RanksInv` gives each delivered row the number
of rows that precede it. Under a total order that number IS the position of the
row in every execution (`ExecutionRanks`), so a page from a position cannot repeat
a rank delivered before. `OrderIsTotal` derives totality from the appended ids
(`IdsApart`): two joined rows with the same id in every source are the same row.
Assumption: `TraversalAssumption` (identities are positive, values are ordered, a
page has a row).

`GovernedExportProofs` proves `TypeCorrect`, `ParametersSurvive`,
`StoredScopesBind`, `LifetimesAuthored` and `LifetimesRepresentable` for any
definitions, requests, spellings and width of the integers. The heart is that
normalization is idempotent through JSON: a normal value, encoded and decoded,
binds to itself or is refused, and it is refused only as an integer in a
float64. The inductive invariant `ScopeInv` adds that what is stored is the JSON
of normal values, the prepared ones among them, and that every prepared key is
stored, nil included: that is why a later default cannot enter.
Assumptions: `NormalizationAssumption` (formatting
what was parsed parses to itself), `TTLAssumption`, `ExportAssumption` (a
parameter keeps its type from one publication to the next).

`ReportSubjectProofs` proves, for any number of holders, entries and arrays of
any capacity, `AuthorityNotManufactured` (`[]ExternalSubjectsGainNothing`),
`SubjectsAlwaysTyped`, `ArraysAlwaysUntouched` and `CapabilitiesAlwaysExact`. The
first needs only that `external` and `trusted` exclude each other. For the others
`SubjectInv` says what each view contains in terms of what was given and
derived, and that views lie inside their arrays; it is kept because an expansion
works in an array that did not exist before the call (`ExpansionIsFresh`, by
induction over the loop, `EveryRound`: `CopyIsFresh`, then `ExactIsFresh` for each entry).
Assumption: `SubjectAssumption` (trimming is idempotent, the blank entry is
blank).

Only model-checked: `TraversalCompletes` and the fairness of
`ImplementsResultReader`, since liveness is out of the prover's reach; and the four
violated runs. That
`CompileExpression` is defined by recursion is no obstacle (see above), as long as
it is a recursive function.

## Not modelled

* `SafeCrossWorkspaceAggregatePlan`: a predicate over a finished plan that
  nothing in the repository calls, tests or describes; a property of it would
  restate its text.
* Snapshots, definitions, result-read scopes and audit: interfaces whose
  implementation, leases and fencing included, is in other repositories.
* Amplification in HAVING and ORDER BY, the types of filters, the scale of
  decimals merged by CASE (an exemption of `IntegersAreWholeUnits`), and whether a
  parameter of type `number` can be given a value: the compiler does not check them,
  and the repository does not say what they should be. They are listed as hazards without
  a property.
* Changed metadata between publication and execution: a report may then be
  refused or planned anew, and no promise is made.
* The text of statements and errors, and hashing.

## Plan

`GroupedOrderIsTotal` for the plans in which no GROUP BY term is confused with
another term: no two different computed terms of the same kind and name among GROUP BY
and ORDER BY. That is what the finding leaves true (one computed group key is not
enough: `GROUP BY DATE_BUCKET('month', x) ORDER BY DATE_BUCKET('year', x)` is confused
too), so that `PagesFollowReader` holds of those without its condition.
