------------------------- MODULE ObjectSQLExpression -------------------------
(***************************************************************************)
(* compileExpression: lowering one parsed expression node into a typed plan *)
(* expression, given its already compiled operands.                         *)
(*                                                                          *)
(* A parsed node is [node, op, name, args]; a compiled one is a record of   *)
(* its own attributes.  The tree below it is kept as what the compiler's    *)
(* walks collect from it, since every walk visits every operand: refs (the  *)
(* columns), measures (the aggregates), eqs (the column equalities,         *)
(* anywhere) and required (the equalities that must hold whenever the       *)
(* expression does).  Compilation is pure and stops at the first error; all *)
(* errors refuse the definition, so one value, Invalid, stands for them.    *)
(***************************************************************************)
EXTENDS ObjectSQLMetadata, Sequences

Blank ==
    [kind |-> "", name |-> "", op |-> "", alias |-> "", field |-> "", value |-> "",
     type |-> "", prec |-> 0, scale |-> 0,
     refs |-> {}, measures |-> {}, eqs |-> {}, required |-> {}]

Invalid == [Blank EXCEPT !.kind = "invalid"]

Valid(x) == x.kind # "invalid"

TypedAs(x, type, prec, scale) ==
    [x EXCEPT !.type = type, !.prec = prec, !.scale = scale]

TypedLike(x, y) == TypedAs(x, y.type, y.prec, y.scale)

\* The operands of x are args: the walks reach whatever they reach.
Over(x, args) ==
    [x EXCEPT !.refs     = @ \cup UNION {args[i].refs : i \in DOMAIN args},
              !.measures = @ \cup UNION {args[i].measures : i \in DOMAIN args},
              !.eqs      = @ \cup UNION {args[i].eqs : i \in DOMAIN args}]

Require(condition, x) == IF condition THEN x ELSE Invalid

-----------------------------------------------------------------------------
(***************************************************************************)
(* The type algebra.                                                        *)
(***************************************************************************)
NumericType(type) ==
    type \in {"integer", "decimal", "number", "percent", "currency"}

ComparableTypes(left, right) ==
    \/ left = right
    \/ "null" \in {left, right}
    \/ NumericType(left) /\ NumericType(right)

Scaled10(x) == x.type = "decimal" /\ x.prec > 0
LowerOf(a, b) == IF a < b THEN a ELSE b
HigherOf(a, b) == IF a > b THEN a ELSE b

ZeroLiteral(x) == x.kind = "literal" /\ x.value = "0"

(***************************************************************************)
(* objectSQLArithmeticType.  Money is divided by pure numbers and added to  *)
(* or subtracted from money of its own scale; nothing else is money.        *)
(***************************************************************************)
MoneyArithmetic(x, op, left, right) ==
    IF op = "/" /\ left.type = "currency" /\ right.type \in {"integer", "decimal"}
    THEN TypedLike(x, left)
    ELSE Require(/\ op \in {"+", "-"}
                 /\ left.type = "currency" /\ right.type = "currency"
                 /\ left.scale = right.scale,
                 TypedAs(x, "currency", HigherOf(left.prec, right.prec), left.scale))

\* Mutant: the precision of a product grows without bound.
NumberArithmeticUncapped(x, op, left, right) ==
    LET types == {left.type, right.type}
        scaled == IF Scaled10(left) THEN left ELSE right
    IN  IF op = "*" /\ types = {"integer", "decimal"} /\ Scaled10(scaled)
        THEN TypedAs(x, "decimal", scaled.prec + 19, scaled.scale)
        ELSE TypedAs(x, IF "decimal" \in types THEN "decimal" ELSE "integer", 0, 0)

NumberArithmetic(x, op, left, right) ==
    LET types == {left.type, right.type}
        scaled == IF Scaled10(left) THEN left ELSE right
        type == IF "number" \in types THEN "number"
                ELSE IF "decimal" \in types \/ op = "/" THEN "decimal" ELSE "integer"
    IN  IF op = "*" /\ types = {"integer", "decimal"} /\ Scaled10(scaled)
        THEN TypedAs(x, "decimal", LowerOf(38, scaled.prec + 19), scaled.scale)
        ELSE TypedAs(x, type, 0, 0)

ArithmeticType(x, op, left, right) ==
    Require(NumericType(left.type) /\ NumericType(right.type),
            IF "currency" \in {left.type, right.type}
            THEN MoneyArithmetic(x, op, left, right)
            ELSE NumberArithmetic(x, op, left, right))

\* objectSQLCoerceCurrencyPair, for the operand x beside y.
CoercedTo(y, x) ==
    IF y.type = "currency" /\ (\/ x.kind = "parameter" /\ x.type = "decimal"
                               \/ ZeroLiteral(x))
    THEN TypedLike(x, y) ELSE x

\* objectSQLCoerceCaseBranch
CoercedBranch(target, branch) ==
    IF (target.type = "currency" \/ Scaled10(target)) /\ ZeroLiteral(branch)
    THEN TypedLike(branch, target) ELSE branch

\* Mutant: branches of different scales are merged.
MergedIgnoringScale(target, branch) ==
    CASE target.type \in {"", "null"} -> TypedLike(target, branch)
      [] target.type \notin {"", "null"} /\ branch.type = "null" -> target
      [] OTHER -> Require(target.type = branch.type, target)

\* Mutant: branches of any two numeric types are merged to a number.
MergedToNumber(target, branch) ==
    CASE target.type \in {"", "null"} -> TypedLike(target, branch)
      [] target.type \notin {"", "null"} /\ branch.type = "null" -> target
      [] OTHER ->
             IF NumericType(target.type) /\ NumericType(branch.type)
                    /\ target.type # branch.type
             THEN TypedAs(target, "number", 0, 0)
             ELSE Require(/\ target.type = branch.type
                          /\ target.type = "currency" => target.scale = branch.scale,
                          target)

\* objectSQLMergeExpressionType
Merged(target, branch) ==
    CASE target.type \in {"", "null"} -> TypedLike(target, branch)
      [] target.type \notin {"", "null"} /\ branch.type = "null" -> target
      [] OTHER ->
             IF NumericType(target.type) /\ NumericType(branch.type)
                    /\ "number" \in {target.type, branch.type}
             THEN TypedAs(target, "number", 0, 0)
             ELSE Require(/\ target.type = branch.type
                          /\ target.type = "currency" => target.scale = branch.scale,
                          target)

-----------------------------------------------------------------------------
(***************************************************************************)
(* Leaves.  context binds the aliases registered so far to their objects    *)
(* and the declared parameters to their types, and has the time zone of the *)
(* report.                                                                  *)
(***************************************************************************)
CompileColumn(context, alias, key) ==
    IF alias \notin DOMAIN context.aliases THEN Invalid
    ELSE LET object == context.aliases[alias]
             type == FieldType(FieldOf(object, key))
         IN  IF key \notin ColumnsOf(object) THEN Invalid
             ELSE Require(type.type # "",
                          TypedLike([Blank EXCEPT !.kind = "field",
                                                  !.alias = alias, !.field = key,
                                                  !.refs = {[alias |-> alias, field |-> key]}],
                                    type))

CompileParameter(context, name) ==
    IF name \notin DOMAIN context.parameters THEN Invalid
    ELSE [Blank EXCEPT !.kind = "parameter", !.name = name,
                       !.type = context.parameters[name]]

\* Strings, and integers beyond 64 bits, are refused.
CompileLiteral(type, value) ==
    Require(type \in {"integer", "decimal", "boolean"},
            [Blank EXCEPT !.kind = "literal", !.value = value, !.type = type])

-----------------------------------------------------------------------------
(***************************************************************************)
(* Operators, over compiled operands.                                       *)
(***************************************************************************)
CompileBinary(op, left, right) ==
    LET l == IF op = "/" THEN left ELSE CoercedTo(right, left)
        r == IF op = "/" THEN right ELSE CoercedTo(left, right)
        x == Over([Blank EXCEPT !.kind = "binary", !.op = op], <<l, r>>)
    IN  Require(op \in {"+", "-", "*", "/"}, ArithmeticType(x, op, l, r))

CompileUnary(op, operand) ==
    Require(op \in {"+", "-"} /\ NumericType(operand.type),
            TypedLike(Over([Blank EXCEPT !.kind = "unary", !.op = op], <<operand>>), operand))

Boolean(kind, op, args) ==
    Over([Blank EXCEPT !.kind = kind, !.op = op, !.type = "boolean"], args)

CompileComparison(op, left, right) ==
    LET column(x) == [alias |-> x.alias, field |-> x.field]
        eqs == IF op = "=" /\ left.kind = "field" /\ right.kind = "field"
               THEN {[left |-> column(left), right |-> column(right)]} ELSE {}
        x == Boolean("comparison", op, <<CoercedTo(right, left), CoercedTo(left, right)>>)
    IN  Require(/\ op \in {"=", "!=", "<>", ">", ">=", "<", "<="}
                /\ ComparableTypes(left.type, right.type),
                [x EXCEPT !.eqs = @ \cup eqs, !.required = eqs])

CompileBetween(op, args) ==
    Require(/\ ComparableTypes(args[1].type, args[2].type)
            /\ ComparableTypes(args[1].type, args[3].type),
            Boolean("between", op, args))

CompileIs(op, operand) ==
    Require(op \in {"is null", "is not null", "is true", "is not true",
                    "is false", "is not false"},
            Boolean("is", op, <<operand>>))

CompileLogical(op, left, right) ==
    Require(left.type = "boolean" /\ right.type = "boolean",
            [Boolean("logical", op, <<left, right>>) EXCEPT
                !.required = IF op = "and" THEN left.required \cup right.required ELSE {}])

CompileNot(operand) ==
    Require(operand.type = "boolean", Boolean("not", "", <<operand>>))

\* One branch of a CASE; a mismatch before it has ended the compilation.
MergedBranch(target, branch) ==
    IF Valid(target) THEN Merged(target, CoercedBranch(target, branch)) ELSE target

MergedBranches(x, args) ==
    LET merged[i \in 0..(Len(args) \div 2)] ==
            IF i = 0 THEN x ELSE MergedBranch(merged[i - 1], args[2 * i])
    IN  merged[Len(args) \div 2]

(***************************************************************************)
(* CASE: args is condition, value, condition, value, ..., and the ELSE      *)
(* value when their number is odd.                                          *)
(***************************************************************************)
CompileCase(args) ==
    LET whens == Len(args) \div 2
        merged == MergedBranches(Over([Blank EXCEPT !.kind = "case"], args), args)
    IN  Require(whens > 0 /\ \A i \in 1..whens : args[2 * i - 1].type = "boolean",
                IF Len(args) % 2 = 1 THEN MergedBranch(merged, args[Len(args)]) ELSE merged)

CoalesceStep(target, argument) ==
    IF ~Valid(target) \/ (argument.type # "null" /\ ~ComparableTypes(target.type, argument.type))
    THEN Invalid
    ELSE IF "number" \in {target.type, argument.type}
         THEN TypedAs(target, "number", 0, 0) ELSE target

\* like has the type of the first argument.
Coalesced(like, args) ==
    LET joined[i \in 1..Len(args)] ==
            IF i = 1 THEN like ELSE CoalesceStep(joined[i - 1], args[i])
    IN  joined[Len(args)]

\* Mutant: FLOOR of anything is whole units.
FloorTypeOfAny(x) == TypedAs(x, "integer", 0, 0)

\* FLOOR of a stored percentage is whole units.
FloorType(x) ==
    IF Scaled10(x) THEN TypedAs(x, "integer", 0, 0) ELSE x

CompileFunction(context, name, args) ==
    LET x == Over([Blank EXCEPT !.kind = "function", !.name = name], args)
        like == TypedLike(x, args[1])
        textual == args[1].kind = "field"
                   /\ FieldOf(context.aliases[args[1].alias], args[1].field).type
                          \in {"text", "long_text", "email", "phone", "url"}
    IN  CASE name = "coalesce" /\ Len(args) \in 2..8 ->
                 Coalesced(like, args)
          [] name = "nullif" /\ Len(args) = 2 ->
                 Require(ComparableTypes(args[1].type, args[2].type), like)
          [] name = "round" /\ Len(args) \in 1..2 ->
                 Require(NumericType(args[1].type), like)
          [] name = "floor" /\ Len(args) = 1 ->
                 Require(NumericType(args[1].type), FloorType(like))
          [] name = "contains" /\ Len(args) = 2 ->
                 Require(textual /\ args[2].kind = "parameter" /\ args[2].type = "text",
                         TypedAs(x, "boolean", 0, 0))
          [] OTHER -> Invalid

\* "nowhere" stands for the names the time zone database does not have.
LoadLocation(zone) == zone # "nowhere"

\* The grain is a literal of the statement, never a compiled operand.
CompileDateBucket(context, grain, args) ==
    Require(/\ Len(args) = 1
            /\ LoadLocation(context.timeZone)
            /\ grain \in {"hour", "day", "week", "month", "quarter", "year"}
            /\ args[1].type \in {"date", "datetime"},
            TypedAs(Over([Blank EXCEPT !.kind = "function", !.name = "date_bucket",
                                       !.value = grain], args),
                    "datetime", 0, 0))

(***************************************************************************)
(* op is "distinct", "star" (COUNT star) or "".                             *)
(***************************************************************************)
CompileAggregate(op, name, args) ==
    LET measure == [name |-> name, distinct |-> op = "distinct",
                    aliases |-> {ref.alias : ref \in UNION {args[i].refs : i \in DOMAIN args}}]
        x == Over([Blank EXCEPT !.kind = "aggregate", !.name = name,
                                !.measures = {measure}], args)
    IN  IF name = "count"
        THEN Require(Len(args) = 1 \/ (Len(args) = 0 /\ op = "star"),
                     TypedAs(x, "integer", 0, 0))
        ELSE Require(/\ name \in {"sum", "avg", "min", "max"}
                     /\ Len(args) = 1
                     /\ name \in {"sum", "avg"} => NumericType(args[1].type),
                     TypedLike(x, args[1]))

-----------------------------------------------------------------------------
(***************************************************************************)
(* What a plan may say of an expression: a type of the plan, and the        *)
(* precision of a declared field or one databases have.                     *)
(***************************************************************************)
PlanTypes == {"text", "integer", "number", "decimal", "boolean", "date", "datetime",
              "currency", "null"}

PublishedFields == UNION {{FieldOf(o, f) : f \in ColumnsOf(o)} : o \in Objects}
Precisions == 0..38 \cup {DecimalConfig(field).prec : field \in PublishedFields}

HasUnit(x) ==
    /\ x.type \in PlanTypes
    /\ x.prec \in Precisions /\ x.scale \in Int
    /\ x.prec = 0 => x.scale = 0

\* What the compiler has bound before it compiles an expression.
IsScope(context) ==
    /\ \A a \in DOMAIN context.aliases : context.aliases[a] \in Objects
    /\ \A name \in DOMAIN context.parameters : context.parameters[name] \in PlanTypes

-----------------------------------------------------------------------------
\* How many operands the parser gives a node.
HasOperands(node, arity) ==
    /\ node \in {"binary", "comparison", "logical"} => arity = 2
    /\ node \in {"unary", "is", "not"} => arity = 1
    /\ node = "between" => arity = 3

(***************************************************************************)
(* compileExpression: one node over its compiled operands, and a whole tree *)
(* of a set of trees closed under operands.                                 *)
(***************************************************************************)
CompileNode(context, e, args) ==
    IF \E i \in DOMAIN args : ~Valid(args[i]) THEN Invalid
    ELSE CASE e.node = "column"     -> CompileColumn(context, e.op, e.name)
           [] e.node = "parameter"  -> CompileParameter(context, e.name)
           [] e.node = "literal"    -> CompileLiteral(e.op, e.name)
           [] e.node = "null"       -> [Blank EXCEPT !.kind = "null", !.type = "null"]
           [] e.node = "binary"     -> CompileBinary(e.op, args[1], args[2])
           [] e.node = "unary"      -> CompileUnary(e.op, args[1])
           [] e.node = "comparison" -> CompileComparison(e.op, args[1], args[2])
           [] e.node = "between"    -> CompileBetween(e.op, args)
           [] e.node = "is"         -> CompileIs(e.op, args[1])
           [] e.node = "logical"    -> CompileLogical(e.op, args[1], args[2])
           [] e.node = "not"        -> CompileNot(args[1])
           [] e.node = "case"       -> CompileCase(args)
           [] e.node = "date_bucket" -> CompileDateBucket(context, e.op, args)
           [] e.node = "function"   -> CompileFunction(context, e.name, args)
           [] e.node = "aggregate"  -> CompileAggregate(e.op, e.name, args)
           [] OTHER                 -> Invalid

CompileExpression(context, trees, tree) ==
    LET compiled[e \in trees] ==
            CompileNode(context, e, [i \in DOMAIN e.args |-> compiled[e.args[i]]])
    IN  compiled[tree]

\* Parsed trees, with all their operands: an operand is less deep.
IsForest(trees, depth) ==
    /\ depth \in [trees -> Nat]
    /\ \A e \in trees :
           /\ e.args \in Seq(trees)
           /\ HasOperands(e.node, Len(e.args))
           /\ \A i \in DOMAIN e.args : depth[e.args[i]] < depth[e]

(***************************************************************************)
(* allowResultAlias: an ORDER BY term that is a bare name means the         *)
(* projection of that name, when there is one.                              *)
(***************************************************************************)
CompileOrderTerm(context, projections, trees, tree) ==
    IF tree.node = "column" /\ tree.op = "" /\ tree.name \in DOMAIN projections
    THEN TypedLike([Blank EXCEPT !.kind = "result", !.alias = tree.name],
                   projections[tree.name])
    ELSE CompileExpression(context, trees, tree)

=============================================================================
