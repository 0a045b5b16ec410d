---------------------------- MODULE CursorTraversal ----------------------------
(***************************************************************************)
(* A compiled plan read page by page.                                       *)
(*                                                                          *)
(* Every page is an execution of its own: the request carries the plan, a   *)
(* position and a page size (ReportObjectSQLExecutionRequest), and the      *)
(* executor returns that part of the result in the order of plan.OrderBy.   *)
(* Rows the order does not tell apart may come in another order each time.  *)
(* That the pages of one traversal fit together is what the tie terms of    *)
(* appendObjectSQLStableOrder are for, and it rests on nothing else.        *)
(*                                                                          *)
(* Executor and reader are outside this repository; the data stays the same *)
(* during a traversal.                                                      *)
(***************************************************************************)
EXTENDS ObjectSQLCompiler, Functions

CONSTANTS
    RowIds,     \* object -> identities of its rows, positive
    Content,    \* object -> row -> column -> value, ordered as a number
    NullRow,    \* the absent right side of a left join
    MaxRows,    \* bound of the model: rows of a result
    PageSize    \* rows of a page

VARIABLES
    reading,    \* "closed", "open" or "whole"
    rows,       \* the rows of the report
    delivered   \* what the reader has received

traversalVars == <<phase, schema, plan, reading, rows, delivered>>

ASSUME TraversalAssumption ==
    /\ \A o \in Objects : RowIds[o] \subseteq Nat \ {0} /\ NullRow \notin RowIds[o]
    /\ \A o \in Objects : \A r \in RowIds[o] : \A f \in ColumnsOf(o) \ {"id"} :
           Content[o][r][f] \in Int
    /\ PageSize \in Nat \ {0}

-----------------------------------------------------------------------------
(***************************************************************************)
(* Values of a joined row, which has a source row for each source.          *)
(***************************************************************************)
Cell(row, alias, field) ==
    LET i == Position(sources, alias)
    IN  CASE row[i] = NullRow -> 0
          [] row[i] # NullRow /\ field = "id" -> row[i]
          [] OTHER -> Content[sources[i].object][row[i]][field]

BucketOfColumn(tree) == tree.node = "date_bucket" /\ tree.args[1].node = "column"

\* Two times share a bucket with their neighbour; other expressions tell nothing.
TreeValue(row, tree) ==
    IF tree.node = "column" THEN Cell(row, tree.op, tree.name)
    ELSE IF BucketOfColumn(tree) THEN Cell(row, tree.args[1].op, tree.args[1].name) \div 2
    ELSE 0

ProjectedTree(projected, alias) ==
    (CHOOSE p \in Elements(projected) : p.alias = alias).tree

OrderedTree(term) ==
    IF term.x.kind = "result" THEN ProjectedTree(projections, term.x.alias) ELSE term.tree

TermValue(row, term) == TreeValue(row, OrderedTree(term))

GroupKey(row) == [i \in DOMAIN groupBy |-> TermValue(row, groupBy[i])]

OrderKey(row) == [i \in DOMAIN orderBy |-> TermValue(row, orderBy[i])]

Precedes(r1, r2) ==
    \E i \in DOMAIN orderBy :
        /\ OrderKey(r1)[i] < OrderKey(r2)[i]
        /\ \A k \in 1..(i - 1) : OrderKey(r1)[k] = OrderKey(r2)[k]

JoinedRows ==
    {row \in [DOMAIN sources -> UNION {RowIds[o] : o \in Objects} \cup {NullRow}] :
        \A i \in DOMAIN sources :
            \/ row[i] \in RowIds[sources[i].object]
            \/ row[i] = NullRow /\ sources[i].join = "left"}

\* One row per group, of a plan without groups one per joined row or one in all.
ResultOf(joined) ==
    IF SingleRow THEN {CHOOSE row \in joined : TRUE}
    ELSE IF groupBy = <<>> THEN joined
    ELSE {CHOOSE row \in joined : GroupKey(row) = key : key \in {GroupKey(r) : r \in joined}}

Total == LowerOf(limit.rows, Cardinality(rows))

\* Every order in which an execution may return the rows.
Executions ==
    {s \in Bijection(1..Cardinality(rows), rows) :
        \A i, k \in DOMAIN s : i < k => ~Precedes(s[k], s[i])}

\* The rows a traversal is for: those of the report, up to its limit.
LimitedRows ==
    {row \in rows : Cardinality({r \in rows : Precedes(r, row)}) < limit.rows}

-----------------------------------------------------------------------------
TraversalInit ==
    /\ Init
    /\ reading = "closed"
    /\ rows = {}
    /\ delivered = <<>>

CompileReport == Next /\ UNCHANGED <<reading, rows, delivered>>

Begin(joined) ==
    /\ phase = "accepted"
    /\ reading = "closed"
    /\ rows' = ResultOf(joined)
    /\ reading' = "open"
    /\ UNCHANGED <<vars, delivered>>

ReadPage ==
    /\ reading = "open"
    /\ \E s \in Executions :
          delivered' = delivered \o SubSeq(s, Len(delivered) + 1,
                                           LowerOf(Len(delivered) + PageSize, Total))
    /\ reading' = IF Len(delivered') < Total THEN "open" ELSE "whole"
    /\ UNCHANGED <<vars, rows>>

TraversalNext ==
    \/ CompileReport
    \/ \E joined \in {set \in SUBSET JoinedRows : IsFiniteSet(set)} :
          Cardinality(joined) \in 1..MaxRows /\ Begin(joined)
    \/ ReadPage

(***************************************************************************)
(* A reader that goes on reading: nothing is asked of the compiler, which   *)
(* is not called when nobody calls it.                                      *)
(***************************************************************************)
TraversalSpec == TraversalInit /\ [][TraversalNext]_traversalVars /\ WF_traversalVars(ReadPage)

-----------------------------------------------------------------------------
(***************************************************************************)
(* A traversal holds rows of its result, no more than the plan's limit, and *)
(* does not end before the first.                                           *)
(***************************************************************************)
TraversalTypeOK ==
    /\ reading \in {"closed", "open", "whole"}
    /\ reading # "closed" => phase = "accepted" /\ rows # {}
    /\ Elements(delivered) \subseteq rows
    /\ Len(delivered) <= limit.rows
    /\ reading = "whole" => delivered # <<>>

Reader == INSTANCE ResultReader WITH
              open <- reading # "closed",
              result <- IF reading = "closed" THEN {} ELSE LimitedRows

(***************************************************************************)
(* Whatever ORDER BY the author wrote, the pages of an accepted plan        *)
(* deliver each row of its result once, none twice and none never           *)
(* (object_sql_validation.go 407-430), as far as its order can tell groups  *)
(* apart.                                                                   *)
(***************************************************************************)
ImplementsResultReader == Reader!Spec

(***************************************************************************)
(* A reader that keeps asking for the next page ends, with all the rows of  *)
(* the report up to its limit (object_sql_validation.go 386-403).           *)
(***************************************************************************)
TraversalCompletes ==
    reading = "open" ~> (reading = "whole" /\ Elements(delivered) = LimitedRows)

=============================================================================
