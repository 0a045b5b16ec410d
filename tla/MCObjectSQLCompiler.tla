------------------------- MODULE MCObjectSQLCompiler -------------------------
(***************************************************************************)
(* Reports over a sale and the payments that refer to it.                   *)
(***************************************************************************)
EXTENDS ObjectSQLCompiler, TLC

MCObjects == {"sale", "payment"}
MCFieldKeys == {"sale_id", "amount", "memo"}
MCMoney == [PlainField("currency") EXCEPT !.prec = 19, !.scale = 2]
MCRelation ==
    [PlainField("relation") EXCEPT !.target = "sale", !.cardinality = "many_to_one"]
MCMetadata ==
    [sale |-> [amount |-> MCMoney, memo |-> PlainField("text")],
     payment |-> [sale_id |-> MCRelation, amount |-> MCMoney]]

-----------------------------------------------------------------------------
Tree(node, op, name, args) == [node |-> node, op |-> op, name |-> name, args |-> args]
Col(alias, field) == Tree("column", alias, field, <<>>)
Equals(l, r) == Tree("comparison", "=", "", <<l, r>>)
Agg(name, args) == Tree("aggregate", IF args = <<>> THEN "star" ELSE "", name, args)

MCOnTrees ==
    {Equals(Col("p", "sale_id"), Col("s", "id")),
     Equals(Col("s", "amount"), Col("p", "amount")),
     Equals(Col("q", "id"), Col("s", "id"))}
MCSelectTrees ==
    {Col("s", "amount"), Agg("sum", <<Col("s", "amount")>>),
     Agg("sum", <<Col("p", "amount")>>), Agg("count", <<>>)}
MCGroupTrees == {Col("p", "sale_id"), Col("s", "created_at")}
\* One condition with every node a filter may have.
Month(x) == Tree("date_bucket", "month", "", <<x>>)
Parameter(name) == Tree("parameter", "", name, <<>>)
Either(l, r) == Tree("logical", "or", "", <<l, r>>)
MCFilterTrees ==
    {Either(Tree("not", "", "",
                 <<Tree("between", "between", "",
                        <<Month(Col("p", "created_at")), Parameter("since"), Tree("null", "", "", <<>>)>>)>>),
            Either(Tree("is", "is not null", "", <<Col("p", "created_at")>>),
                   Tree("function", "", "contains", <<Col("s", "memo"), Parameter("text")>>)))}
MCOrderTrees == {Col("s", "id"), Col("", "total")}

MCBuckets == {Month(Col("s", "created_at")), Month(Col("s", "updated_at"))}

RECURSIVE Height(_)
Height(t) ==
    IF t.args = <<>> THEN 0
    ELSE 1 + (CHOOSE h \in {Height(t.args[i]) : i \in DOMAIN t.args} :
                  \A i \in DOMAIN t.args : Height(t.args[i]) <= h)
MCDepth == [t \in Trees |-> Height(t)]

RECURSIVE Subtrees(_)
Subtrees(t) == {t} \cup UNION {Subtrees(t.args[i]) : i \in DOMAIN t.args}
MCTrees ==
    UNION {Subtrees(t) : t \in MCOnTrees \cup MCSelectTrees \cup MCGroupTrees
                               \cup MCFilterTrees \cup MCOrderTrees \cup MCBuckets}

-----------------------------------------------------------------------------
Undeclared ==
    [sourceObjects |-> <<>>, results |-> <<>>, assertions |-> <<>>, timeout |-> 0,
     parameters |-> <<[key |-> "since", type |-> "datetime"], [key |-> "text", type |-> "text"]>>,
     timeZone |-> "UTC"]
Asserting(alias, cardinality) == <<[alias |-> alias, cardinality |-> cardinality]>>
Result(key, type, scale) ==
    <<[key |-> key, type |-> type, kind |-> "measure", prec |-> 0, scale |-> scale]>>
MCSchemas ==
    {Undeclared,
     [Undeclared EXCEPT !.sourceObjects = <<"sale", "sale">>],
     [Undeclared EXCEPT !.sourceObjects = <<"payment", "sale">>,
                        !.assertions = Asserting("p", "one_to_many")],
     [Undeclared EXCEPT !.assertions = Asserting("s", "many_to_one")],
     [Undeclared EXCEPT !.results = Result("total", "currency", 0)],
     [Undeclared EXCEPT !.results = Result("total", "decimal", 2)]}

MCLimits == {[given |-> FALSE, rows |-> 0], [given |-> TRUE, rows |-> 3],
             [given |-> TRUE, rows |-> 11]}

=============================================================================
