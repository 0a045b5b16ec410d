---------------------------- MODULE MCPublication ----------------------------
(***************************************************************************)
(* Reports over sales, the payments of a sale and a sale joined to itself,  *)
(* with results declared by their author or left to the compiler, published *)
(* and run.                                                                 *)
(***************************************************************************)
EXTENDS Publication, MCObjectSQLCompiler

Null == Tree("null", "", "", <<>>)

PBOnTrees ==
    {Equals(Col("p", "sale_id"), Col("s", "id")), Equals(Col("p", "id"), Col("s", "id"))}
PBSelectTrees == {Col("s", "amount"), Agg("count", <<>>), Null}
PBGroupTrees == {Col("s", "memo")}
PBFilterTrees == {Tree("is", "is not null", "", <<Col("p", "created_at")>>)}
PBOrderTrees == {Col("", "total")}
PBTrees ==
    UNION {Subtrees(t) : t \in PBOnTrees \cup PBSelectTrees \cup PBGroupTrees
                               \cup PBFilterTrees \cup PBOrderTrees}

PBSchemas ==
    {Undeclared,
     [Undeclared EXCEPT !.sourceObjects = <<"payment", "sale">>,
                        !.assertions = Asserting("p", "one_to_many")],
     [Undeclared EXCEPT !.results = Result("total", "currency", 0)],
     [Undeclared EXCEPT !.results = Result("total", "decimal", 2)]}
PBLimits == {[given |-> TRUE, rows |-> 3]}

=============================================================================
