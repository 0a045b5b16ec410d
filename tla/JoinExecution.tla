---------------------------- MODULE JoinExecution ----------------------------
(***************************************************************************)
(* An accepted plan run over the host's data, one join at a time.           *)
(*                                                                          *)
(* The compiler never sees a row: it promises, from uniqueness metadata     *)
(* alone, that the rows a measure is computed from are not multiplied by a  *)
(* later join.  This module gives that promise its meaning.  A joined row   *)
(* is the sequence of the source rows it was built from, and the invariants *)
(* say what identifies it.                                                  *)
(*                                                                          *)
(* Executing a plan is the host's (modulehost.ObjectSQLExecutor): the       *)
(* actions Scan and Join are external, standard SQL join semantics.         *)
(***************************************************************************)
EXTENDS JoinPlan

CONSTANTS
    Rows,       \* row identities
    Values,     \* contents of the cells
    Null,       \* SQL NULL, and the absent right side of a left join
    Databases   \* object -> row -> column -> value or Null

VARIABLES
    db,         \* the data the plan runs over
    joined,     \* the rows of the first `step' sources, joined
    step        \* sources joined so far; 0 before the plan runs

execVars == <<db, joined, step>>
vars == <<phase, sources, measures, db, joined, step>>

NoData == [o \in Objects |-> <<>>]

(***************************************************************************)
(* Data a host can hold: every row carries every column, and a column the   *)
(* metadata calls unique never repeats a value (NULLs may repeat).          *)
(***************************************************************************)
ConformsTo(d, o) ==
    /\ DOMAIN d[o] \subseteq Rows
    /\ \A r \in DOMAIN d[o] : d[o][r] \in [ColumnsOf(o) -> Values \cup {Null}]
    /\ \A f \in ColumnsOf(o) : FieldUnique(FieldOf(o, f)) =>
           \A r1, r2 \in DOMAIN d[o] :
               d[o][r1][f] = d[o][r2][f] /\ d[o][r1][f] # Null => r1 = r2

ASSUME JoinExecutionAssumption ==
    /\ Null \notin Rows
    /\ \A d \in Databases : DOMAIN d = Objects /\ \A o \in Objects : ConformsTo(d, o)

-----------------------------------------------------------------------------
(***************************************************************************)
(* Evaluation of an ON expression on a joined row.                          *)
(***************************************************************************)
Cell(row, column) ==
    LET i == Position(sources, column.alias)
    IN  IF row[i] = Null THEN Null ELSE db[sources[i].object][row[i]][column.field]

Comparable(eq, row) == Cell(row, eq.left) # Null /\ Cell(row, eq.right) # Null

EqHolds(eq, row) ==
    Comparable(eq, row) /\ Cell(row, eq.left) = Cell(row, eq.right)

OnHolds(on, row) ==
    \/ on.form = "and" /\ \A eq \in on.eqs : EqHolds(eq, row)
    \/ on.form = "or"  /\ \E eq \in on.eqs : EqHolds(eq, row)
    \/ on.form = "not" /\ \A eq \in on.eqs : Comparable(eq, row) /\ ~EqHolds(eq, row)

Matches(row, j) ==
    {r \in DOMAIN db[sources[j].object] : OnHolds(sources[j].on, Append(row, r))}

Extensions(row, j) ==
    IF Matches(row, j) = {} /\ sources[j].join = "left"
    THEN {Append(row, Null)}
    ELSE {Append(row, r) : r \in Matches(row, j)}

-----------------------------------------------------------------------------
ExecInit ==
    /\ Init
    /\ db = NoData
    /\ joined = {}
    /\ step = 0

Compile == Next /\ UNCHANGED execVars

Scan(d) ==
    /\ phase = "accepted"
    /\ step = 0
    /\ db' = d
    /\ joined' = {<<r>> : r \in DOMAIN d[sources[1].object]}
    /\ step' = 1
    /\ UNCHANGED planVars

Join ==
    /\ step \in 1..(Len(sources) - 1)
    /\ joined' = UNION {Extensions(row, step + 1) : row \in joined}
    /\ step' = step + 1
    /\ UNCHANGED <<phase, sources, measures, db>>

ExecNext ==
    \/ Compile
    \/ \E d \in Databases : Scan(d)
    \/ Join

ExecSpec == ExecInit /\ [][ExecNext]_vars

-----------------------------------------------------------------------------
SourceRow == Rows \cup {Null}

(***************************************************************************)
(* Every source of the plan has one of the three cardinalities or none, and *)
(* a joined row holds a row, or NULL, for each source joined so far.        *)
(***************************************************************************)
ExecTypeOK ==
    /\ phase \in {"from", "select", "accepted", "refused"}
    /\ sources \in Seq(Source)
    /\ measures \in SUBSET Measure
    /\ step \in 0..Len(sources)
    /\ joined \subseteq [1..step -> SourceRow]
    /\ db \in Databases \cup {NoData}

(***************************************************************************)
(* Two joined rows built from the same rows of the first g sources.         *)
(***************************************************************************)
Agree(t, u, g) == \A i \in 1..g : t[i] = u[i]

\* No join after source g can repeat a row of the first g sources.
NoFanOutAfter(g) ==
    \A j \in (g + 1)..step : sources[j].cardinality # "one_to_many"

ConjunctiveJoins == \A j \in DOMAIN sources : sources[j].on.form = "and"

(***************************************************************************)
(* What a proven cardinality means for data (object_sql_cardinality.go      *)
(* 12-47): when every ON is a conjunction, joins inferred one_to_one or     *)
(* many_to_one never multiply the rows joined before them, left joins       *)
(* included.                                                                *)
(***************************************************************************)
PrefixDetermines ==
    ConjunctiveJoins =>
        \A g \in 1..step :
            NoFanOutAfter(g) => \A t, u \in joined : Agree(t, u, g) => t = u

(***************************************************************************)
(* What the amplification rule buys (object_sql_cardinality.go 99-131): in  *)
(* the full result of an accepted plan, a sum, average or count over a      *)
(* column of source g sees each combination of rows of sources 1..g at most *)
(* once.  A measure over the root counts each root row at most once.        *)
(***************************************************************************)
MeasureGrain ==
    (ConjunctiveJoins /\ step > 0 /\ step = Len(sources)) =>
        \A m \in measures, g \in 1..step :
            ~AmplificationExempt(m) /\ sources[g].alias \in m.aliases =>
                \A t, u \in joined : Agree(t, u, g) => t = u

(***************************************************************************)
(* COUNT over no column counts the rows of the root source, so the rule     *)
(* refuses it as soon as any join fans out.                                 *)
(***************************************************************************)
CountGrain ==
    (ConjunctiveJoins /\ step > 0 /\ step = Len(sources)) =>
        \A m \in measures :
            (m.name = "count" /\ ~m.distinct /\ m.aliases = {}) =>
                \A t, u \in joined : Agree(t, u, 1) => t = u

(***************************************************************************)
(* The stronger reading of the rule: the cardinality of a join is proven    *)
(* from the metadata, whatever the shape of its ON expression.              *)
(***************************************************************************)
CardinalityProven ==
    \A g \in 1..step :
        NoFanOutAfter(g) => \A t, u \in joined : Agree(t, u, g) => t = u

(***************************************************************************)
(* The other stronger reading: an accepted measure over one source counts   *)
(* each row of that source at most once.                                    *)
(***************************************************************************)
SourceRowCountedOnce ==
    (step > 0 /\ step = Len(sources)) =>
        \A m \in measures, g \in 1..step :
            ~AmplificationExempt(m) /\ m.aliases = {sources[g].alias} =>
                \A t, u \in joined :
                    t[g] = u[g] /\ t[g] # Null => t = u

=============================================================================
