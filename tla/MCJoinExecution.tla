--------------------------- MODULE MCJoinExecution ---------------------------
(***************************************************************************)
(* A sale, the payments that refer to it, and data of at most two rows per  *)
(* object.  The relation of a payment is not unique, so the three columns   *)
(* give every cardinality: id with id is one_to_one, a reference with the   *)
(* id it points at many_to_one, the other way round one_to_many, and two    *)
(* references prove nothing.                                                *)
(***************************************************************************)
EXTENDS JoinExecution, TLC

CONSTANTS a, b, c, Forms, MaxEqualities

MCObjects == {"sale", "payment"}
MCFieldKeys == {"sale_id"}
MCMetadata ==
    [sale    |-> <<>>,
     payment |-> [sale_id |-> [PlainField("relation") EXCEPT
                                  !.target = "sale", !.cardinality = "many_to_one"]]]

\* The compiler does not compare aliases but for equality: they are symmetric.
MCAliases == {a, b, c}
MCSymmetry == Permutations(MCAliases)

\* One way to write each equality; every alias may be on either side.
MCEqualities ==
    {[left  |-> [alias |-> p[1], field |-> f[1]],
      right |-> [alias |-> p[2], field |-> f[2]]] :
        p \in {q \in MCAliases \X MCAliases : q[1] # q[2]},
        f \in {<<"id", "id">>, <<"id", "sale_id">>, <<"sale_id", "sale_id">>}}
MCEqualitySets ==
    IF MaxEqualities = 1 THEN {{eq} : eq \in MCEqualities}
    ELSE {{eq1, eq2} : eq1, eq2 \in MCEqualities}
MCOn == [form : Forms, eqs : MCEqualitySets]

MCMeasure ==
    [name : {"sum", "count"}, distinct : {FALSE},
     aliases : {A \in SUBSET MCAliases : Cardinality(A) <= 2}]
    \cup [name : {"max"}, distinct : {FALSE}, aliases : {{al} : al \in MCAliases}]
    \cup [name : {"sum"}, distinct : {TRUE}, aliases : {{al} : al \in MCAliases}]

MCProjections == {{m} : m \in MCMeasure}

MCRows == {1, 2}
\* id is the row itself; the other envelope columns repeat in every row.
MCRow(o, r, ref) ==
    [col \in ColumnsOf(o) |->
        IF col = "id" THEN r ELSE IF col = "sale_id" THEN ref ELSE 1]
MCDatabase(sales, ref) ==
    [sale    |-> [r \in sales |-> MCRow("sale", r, 1)],
     payment |-> [r \in MCRows |-> MCRow("payment", r, ref[r])]]
\* Two payments of one sale, one each, one without, and one of no known sale.
MCDatabases ==
    {MCDatabase({1, 2}, <<1, 1>>), MCDatabase({1}, <<2, 1>>)}
    \cup IF MaxEqualities = 1
         THEN {MCDatabase({1, 2}, <<2, 1>>), MCDatabase({1, 2}, <<1, Null>>)} ELSE {}

=============================================================================
