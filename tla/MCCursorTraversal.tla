--------------------------- MODULE MCCursorTraversal ---------------------------
(***************************************************************************)
(* Sales of equal amounts, joined to their payments or not, grouped or not, *)
(* and read in pages of two rows.                                           *)
(***************************************************************************)
EXTENDS CursorTraversal, MCObjectSQLCompiler

CTOnTrees == {Equals(Col("p", "sale_id"), Col("s", "id"))}
CTSelectTrees == {Col("s", "amount"), Agg("count", <<>>)}
CTGroupTrees == {Col("p", "sale_id"), Month(Col("s", "created_at"))}
CTOrderTrees == {Col("s", "amount"), Col("p", "id"), Col("", "total")}
CTTrees ==
    UNION {Subtrees(t) : t \in CTOnTrees \cup CTSelectTrees \cup CTGroupTrees \cup CTOrderTrees}
CTSchemas == {Undeclared}
CTLimits == {[given |-> FALSE, rows |-> 0], [given |-> TRUE, rows |-> 3]}

CTRowIds == [sale |-> {1, 2}, payment |-> {1, 2}]
Times == {"created_at", "updated_at"}
CTContent ==
    [o \in MCObjects |-> [id \in {1, 2} |->
        [f \in ColumnsOf(o) |-> CASE f \in Times -> 1 + id
                                  [] f = "sale_id" -> id
                                  [] OTHER -> 5]]]

=============================================================================
