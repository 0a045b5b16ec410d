------------------------ MODULE ExpressionCompilation ------------------------
(***************************************************************************)
(* The recursive descent of compileExpression over arbitrary expressions.   *)
(* Operands are compiled left to right before their operator: the stack     *)
(* holds the operands whose operator is still to come, and an error         *)
(* anywhere ends the compilation.                                           *)
(*                                                                          *)
(* Beside the compiled expression the stack keeps what its value is made    *)
(* of, which no attribute of the program records: the stored amounts that   *)
(* flow into it, each with the construct it lost its unit in, if any.       *)
(* Amounts of money and percentages are stored in minor units, 10^scale to  *)
(* the whole, so a type that forgets the scale lets minor units pass for    *)
(* whole ones.                                                              *)
(***************************************************************************)
EXTENDS ObjectSQLExpression, FiniteSets

CONSTANTS
    Context,    \* the aliases and parameters in scope
    Leaves,     \* parsed leaves: [node, op, name]
    Operators,  \* parsed operators: [node, op, name, arity]
    MaxNodes,   \* bound of the model: nodes of one expression
    MaxStack    \* bound of the model: operands waiting for an operator

VARIABLES
    stack,      \* operands compiled so far
    nodes,      \* nodes visited
    refused     \* the compilation ended in an error

vars == <<stack, nodes, refused>>

ASSUME ExpressionCompilationAssumption ==
    /\ IsScope(Context)
    /\ \A e \in Leaves : HasOperands(e.node, 0)
    /\ \A e \in Operators : e.arity \in Nat \ {0} /\ HasOperands(e.node, e.arity)
    /\ MaxNodes \in Nat
    /\ MaxStack \in Nat

(***************************************************************************)
(* via says what became of an amount on its way into the value:             *)
(*   "kept"      no merge below has mixed it with another unit;             *)
(*   "number"    CASE or COALESCE merged it with a plain number;            *)
(*   "coalesce"  COALESCE merged it with a first argument of another unit;  *)
(*   "case"      CASE merged the percentage with a decimal of another one.  *)
(***************************************************************************)
Amount == [type : {"currency", "decimal"}, scale : Int,
           via : {"kept", "number", "coalesce", "case"}]

\* The stored amounts a column delivers.
AmountsOf(x) ==
    IF x.kind = "field" /\ (x.type = "currency" \/ Scaled10(x))
    THEN {[type |-> x.type, scale |-> x.scale, via |-> "kept"]} ELSE {}

IsMoney(amount) == amount.type = "currency"

-----------------------------------------------------------------------------
(***************************************************************************)
(* Which operands' values become part of the value: a condition, a divisor, *)
(* the second operand of NULLIF and of ROUND do not.                        *)
(***************************************************************************)
ValueOperands(e, arity) ==
    CASE e.node = "case" -> {i \in 1..arity : i % 2 = 0 \/ i = arity}
      [] e.node \in {"unary", "aggregate"} /\ e.name # "count" -> 1..arity
      [] e.node = "binary" -> IF e.op = "/" THEN {1} ELSE 1..arity
      [] e.node = "function" /\ e.name = "coalesce" -> 1..arity
      [] e.node = "function" /\ e.name \in {"nullif", "round", "floor"} -> {1}
      [] OTHER -> {}

UnitOf(x) == [type |-> x.type, scale |-> x.scale, scaled |-> Scaled10(x)]

(***************************************************************************)
(* How amount a of operand i leaves node e, decided by the construct and    *)
(* its operands, never by the type the compiler gives the result.           *)
(***************************************************************************)
Through(e, args, i, a) ==
    LET values == ValueOperands(e, Len(args))
        coalesce == e.node = "function" /\ e.name = "coalesce"
        numbers == \E j \in values : args[j].x.type = "number"
        unlike == \E j \in values : /\ args[j].x.type = args[i].x.type
                                    /\ UnitOf(args[j].x) # UnitOf(args[i].x)
    IN  CASE a.via = "kept" /\ (coalesce \/ e.node = "case") /\ numbers ->
                 [a EXCEPT !.via = "number"]
          [] a.via = "kept" /\ coalesce /\ ~numbers
                 /\ UnitOf(args[i].x) # UnitOf(args[1].x) ->
                 [a EXCEPT !.via = "coalesce"]
          [] a.via = "kept" /\ e.node = "case" /\ ~numbers /\ ~IsMoney(a) /\ unlike ->
                 [a EXCEPT !.via = "case"]
          [] OTHER -> a

\* FLOOR makes whole units of the percentages stored with the scale of its operand.
Floored(e, args, a) ==
    /\ e.node = "function" /\ e.name = "floor" /\ Scaled10(args[1].x)
    /\ a.via = "kept" /\ ~IsMoney(a) /\ a.scale = args[1].x.scale

(***************************************************************************)
(* amounts: what the value is made of.  multiplied: money was a factor.     *)
(***************************************************************************)
Operand(e, x, args) ==
    LET flowing == UNION {{Through(e, args, i, a) : a \in args[i].amounts} :
                              i \in ValueOperands(e, Len(args))}
    IN  [x          |-> x,
         amounts    |-> {a \in flowing : ~Floored(e, args, a)} \cup AmountsOf(x),
         multiplied |-> \/ \E i \in DOMAIN args : args[i].multiplied
                        \/ /\ e.node = "binary" /\ e.op = "*"
                           /\ \E a \in flowing : IsMoney(a)]

-----------------------------------------------------------------------------
Init ==
    /\ stack = <<>>
    /\ nodes = 0
    /\ refused = FALSE

\* Compiles e over the last arity operands of the stack.
Visit(e, arity) ==
    LET below == SubSeq(stack, 1, Len(stack) - arity)
        args == SubSeq(stack, Len(stack) - arity + 1, Len(stack))
        x == CompileNode(Context, e, [i \in DOMAIN args |-> args[i].x])
    IN  /\ ~refused
        /\ nodes < MaxNodes
        /\ nodes' = nodes + 1
        /\ IF Valid(x)
           THEN stack' = Append(below, Operand(e, x, args)) /\ UNCHANGED refused
           ELSE stack' = <<>> /\ refused' = TRUE

CompileLeaf(e) == Len(stack) < MaxStack /\ Visit(e, 0)

CompileOperator(e) == Len(stack) >= e.arity /\ Visit(e, e.arity)

Next ==
    \/ \E e \in Leaves : CompileLeaf(e)
    \/ \E e \in Operators : CompileOperator(e)

Spec == Init /\ [][Next]_vars

-----------------------------------------------------------------------------
(***************************************************************************)
(* Every operand has a type a plan may have, with a precision some field    *)
(* was declared with or one databases have: no chain of products grows it   *)
(* beyond 38 digits.                                                        *)
(***************************************************************************)
TypeOK ==
    /\ nodes \in 0..MaxNodes
    /\ refused \in BOOLEAN
    /\ Len(stack) <= MaxStack
    /\ \A i \in DOMAIN stack :
           /\ HasUnit(stack[i].x)
           /\ stack[i].amounts \subseteq Amount

(***************************************************************************)
(* Money keeps its unit (object_sql_expression.go 420-478). Stored money    *)
(* is typed as money of its very scale through any arithmetic, CASE,        *)
(* COALESCE, NULLIF, rounding and aggregates, never as a number, a count    *)
(* or money of another scale, and no stored percentage is typed as money.   *)
(* What a CASE (458-461) or a COALESCE (254-256) merged with a plain        *)
(* number is a plain number ever after, so no operator takes it for money   *)
(* again. Exempt are amounts after another unit in a COALESCE (248-257),    *)
(* where MoneyIsNeverMultiplied shows what becomes of money, and            *)
(* percentages a CASE merged with a decimal of another scale (462).         *)
(***************************************************************************)
MoneyKeepsItsUnit ==
    \A i \in DOMAIN stack : \A a \in stack[i].amounts :
        LET x == stack[i].x
        IN  /\ (a.via = "kept" /\ "currency" \in {a.type, x.type}) =>
                   /\ x.type = a.type
                   /\ x.scale = a.scale
            /\ a.via = "number" => x.type = "number"

(***************************************************************************)
(* Minor units pass for whole ones through a merge of units only            *)
(* (object_sql_expression.go 266-272): whatever an integer holds came       *)
(* through a COALESCE after another unit, or is a percentage from a CASE    *)
(* over decimals of different scales.  Everything else an integer is        *)
(* computed from was floored at its own scale, or is neither money nor a    *)
(* percentage.                                                              *)
(***************************************************************************)
IntegersAreWholeUnits ==
    \A i \in DOMAIN stack : stack[i].x.type = "integer" =>
        \A a \in stack[i].amounts : a.via \in {"coalesce", "case"}

(***************************************************************************)
(* Money is never a factor of an accepted product, however the expression   *)
(* is written (object_sql_validation_test.go 293-297).                      *)
(***************************************************************************)
MoneyIsNeverMultiplied == \A i \in DOMAIN stack : ~stack[i].multiplied

=============================================================================
