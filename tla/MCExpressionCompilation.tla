----------------------- MODULE MCExpressionCompilation -----------------------
(***************************************************************************)
(* One sale with an amount in cents and one in yen, a count, a rate with    *)
(* four decimals, a share with two and a plain number.                      *)
(***************************************************************************)
EXTENDS ExpressionCompilation, TLC

CONSTANTS Fields, OperatorNames

MCObjects == {"sale"}
MCFieldKeys == {"amount", "yen", "quantity", "rate", "share", "price"}
MCScaled(type, prec, scale) ==
    [PlainField(type) EXCEPT !.prec = prec, !.scale = scale]
MCMetadata ==
    [sale |-> [amount   |-> MCScaled("currency", 19, 2),
               yen      |-> MCScaled("currency", 0, 0),
               quantity |-> PlainField("integer"),
               rate     |-> MCScaled("percent", 7, 4),
               share    |-> MCScaled("percent", 5, 2),
               price    |-> PlainField("number")]]

MCContext == [aliases |-> [s |-> "sale"], parameters |-> [minimum |-> "decimal"],
              timeZone |-> "UTC"]

Leaf(node, op, name) == [node |-> node, op |-> op, name |-> name]
MCLeaves ==
    {Leaf("column", "s", f) : f \in Fields}
    \cup {Leaf("literal", "integer", "0"), Leaf("literal", "integer", "2"),
          Leaf("literal", "boolean", "true"), Leaf("null", "", ""),
          Leaf("parameter", "", "minimum")}

Op(node, op, name, arity) == [node |-> node, op |-> op, name |-> name, arity |-> arity]
MCOperators ==
    {o \in {Op("binary", op, "", 2) : op \in {"+", "-", "*", "/"}}
           \cup {Op("function", "", "floor", 1), Op("function", "", "coalesce", 2),
                 Op("function", "", "nullif", 2), Op("function", "", "round", 2),
                 Op("unary", "-", "", 1), Op("comparison", ">", "", 2),
                 Op("case", "", "", 2), Op("case", "", "", 3),
                 Op("aggregate", "", "sum", 1), Op("aggregate", "", "count", 1)} :
        o.node \in OperatorNames \/ o.name \in OperatorNames}

=============================================================================
