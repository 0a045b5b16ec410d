---------------------- MODULE ExpressionCompilationProofs ----------------------
(***************************************************************************)
(* What becomes of stored money and percentages in any expression, over     *)
(* any metadata.                                                            *)
(***************************************************************************)
EXTENDS ExpressionCompilation, ObjectSQLExpressionProofs

-----------------------------------------------------------------------------
(***************************************************************************)
(* The operands whose values flow into a node's, construct by construct.    *)
(***************************************************************************)
Shifting == {"nullif", "round", "floor"}

LEMMA ValueOperandsIs ==
    ASSUME NEW e, NEW n \in Nat
    PROVE  /\ e.node = "case" => ValueOperands(e, n) = {i \in 1..n : i % 2 = 0 \/ i = n}
           /\ e.node \in {"unary", "aggregate"} =>
                  ValueOperands(e, n) = IF e.name = "count" THEN {} ELSE 1..n
           /\ e.node = "binary" => ValueOperands(e, n) = IF e.op = "/" THEN {1} ELSE 1..n
           /\ e.node = "function" /\ e.name = "coalesce" => ValueOperands(e, n) = 1..n
           /\ e.node = "function" /\ e.name \in Shifting => ValueOperands(e, n) = {1}
           /\ e.node = "function" /\ e.name \notin Shifting \cup {"coalesce"} =>
                  ValueOperands(e, n) = {}
           /\ e.node \notin {"case", "unary", "aggregate", "binary", "function"} =>
                  ValueOperands(e, n) = {}
  <1> DEFINE case == e.node = "case"
             single == e.node \in {"unary", "aggregate"} /\ e.name # "count"
             binary == e.node = "binary"
             coalesce == e.node = "function" /\ e.name = "coalesce"
             shifting == e.node = "function" /\ e.name \in {"nullif", "round", "floor"}
             values == {i \in 1..n : i % 2 = 0 \/ i = n}
             numbers == 1..n
             dividend == IF e.op = "/" THEN {1} ELSE 1..n
             v == ValueOperands(e, n)
  <1>1. v = CASE case -> values
              [] single -> numbers
              [] binary -> dividend
              [] coalesce -> numbers
              [] shifting -> {1}
              [] OTHER -> {}
    BY Zenon DEF ValueOperands
  <1>2. /\ case => ~single /\ ~binary /\ ~coalesce /\ ~shifting
        /\ single => ~case /\ ~binary /\ ~coalesce /\ ~shifting
        /\ binary => ~case /\ ~single /\ ~coalesce /\ ~shifting
        /\ coalesce => ~case /\ ~single /\ ~binary /\ ~shifting
        /\ shifting => ~case /\ ~single /\ ~binary /\ ~coalesce
    OBVIOUS
  <1>3. /\ case <=> e.node = "case"
        /\ single <=> e.node \in {"unary", "aggregate"} /\ e.name # "count"
        /\ binary <=> e.node = "binary"
        /\ coalesce <=> e.node = "function" /\ e.name = "coalesce"
        /\ shifting <=> e.node = "function" /\ e.name \in Shifting
    BY DEF Shifting
  <1> HIDE DEF case, single, binary, coalesce, shifting, values, numbers, dividend, v
  <1>4. case => v = values
    BY Zenon, <1>1, <1>2
  <1>5. single => v = numbers
    BY Zenon, <1>1, <1>2
  <1>6. binary => v = dividend
    BY Zenon, <1>1, <1>2
  <1>7. coalesce => v = numbers
    BY Zenon, <1>1, <1>2
  <1>8. shifting => v = {1}
    BY Zenon, <1>1, <1>2
  <1>9. ~case /\ ~single /\ ~binary /\ ~coalesce /\ ~shifting => v = {}
    BY Zenon, <1>1
  <1> QED BY <1>3, <1>4, <1>5, <1>6, <1>7, <1>8, <1>9 DEF values, numbers, dividend, v

(***************************************************************************)
(* What the compiler's type says of a value that flows into a node.  Only   *)
(* COALESCE and CASE merge units: COALESCE takes the first operand's, CASE  *)
(* one of its values', and both fall back to a plain number.  FLOOR makes   *)
(* whole units of a percentage.                                             *)
(***************************************************************************)
Coalesces(e) == e.node = "function" /\ e.name = "coalesce"

Floors(e, args) == e.node = "function" /\ e.name = "floor" /\ Scaled10(args[1])

Numbers(V, args) == \E j \in V : args[j].type = "number"

Flows(e, y, args, V, i) ==
    \/ /\ ~Coalesces(e) /\ e.node # "case"
       /\ Carries(y, args[i])
    \/ /\ Coalesces(e)
       /\ y.type = "number" <=> Numbers(V, args)
       /\ y.type = "number" \/ SameType(y, args[1])
    \/ /\ e.node = "case"
       /\ \A j \in V : args[j].kind # "literal" => Keeps(y, args[j])
       /\ \E j \in V : TakesUnit(y, args[j])
    \/ Floors(e, args) /\ i = 1

LeavesOnly == {"field", "literal", "parameter"}

LEMMA ValuesFlow ==
    ASSUME NEW e, NEW n \in Nat, NEW args, IsOperands(args, n), HasOperands(e.node, n),
           \A i \in 1..n : Sound(Context, args[i]),
           NEW y, y = CompileNode(Context, e, args), Valid(y)
    PROVE  /\ y.kind \in LeavesOnly => ValueOperands(e, n) = {}
           /\ \A i \in ValueOperands(e, n) :
                  i \in 1..n /\ Flows(e, y, args, ValueOperands(e, n), i)
  <1> DEFINE V == ValueOperands(e, n)
             Goal == /\ y.kind \in LeavesOnly => V = {}
                     /\ \A i \in V : i \in 1..n /\ Flows(e, y, args, V, i)
  <1>1. NodeArm(Context, e, args, y)
    BY NodeArms
  <1>2. CASE V = {}
    BY <1>2
  <1>3. CASE e.node = "binary"
    <2>1. y = CompileBinary(e.op, args[1], args[2])
      BY Zenon, <1>1, <1>3 DEF NodeArm
    <2>2. n = 2 /\ Sound(Context, args[1]) /\ Sound(Context, args[2])
      BY <1>3 DEF HasOperands
    <2>3. y.kind = "binary" /\ Carries(y, args[1]) /\ (e.op # "/" => Carries(y, args[2]))
      <3>1. PICK op, left, right : op = e.op /\ left = args[1] /\ right = args[2]
        OBVIOUS
      <3>2. y = CompileBinary(op, left, right) /\ Valid(CompileBinary(op, left, right))
        BY <2>1, <3>1
      <3>3. Sound(Context, left) /\ Sound(Context, right)
        BY <2>2, <3>1
      <3>4. /\ Sound(Context, y) /\ y.kind = "binary"
            /\ Carries(y, left) /\ (op # "/" => Carries(y, right))
        BY <3>2, <3>3, BinarySound
      <3> QED BY <3>1, <3>4
    <2>4. V = IF e.op = "/" THEN {1} ELSE 1..n
      BY <1>3, ValueOperandsIs
    <2> QED BY <1>3, <2>2, <2>3, <2>4 DEF LeavesOnly, Flows, Coalesces
  <1>4. CASE e.node = "unary"
    <2>1. y = CompileUnary(e.op, args[1])
      BY Zenon, <1>1, <1>4 DEF NodeArm
    <2>2. n = 1 /\ Sound(Context, args[1])
      BY <1>4 DEF HasOperands
    <2>3. y.kind = "unary" /\ KeepsUnit(y, args[1])
      BY <2>1, <2>2, UnarySound
    <2>4. V \subseteq 1..n
      BY <1>4, ValueOperandsIs
    <2> QED BY <1>4, <2>2, <2>3, <2>4 DEF LeavesOnly, Flows, Carries, Coalesces
  <1>5. CASE e.node = "case"
    <2>1. y = CompileCase(args)
      BY Zenon, <1>1, <1>5 DEF NodeArm
    <2>2. /\ y.kind = "case"
          /\ \A i \in 1..n : (i % 2 = 0 \/ i = n) /\ args[i].kind # "literal" =>
                 Keeps(y, args[i])
          /\ \E i \in 1..n : (i % 2 = 0 \/ i = n) /\ TakesUnit(y, args[i])
      BY <2>1, CaseSound
    <2>3. V = {i \in 1..n : i % 2 = 0 \/ i = n}
      BY <1>5, ValueOperandsIs
    <2> HIDE DEF V
    <2>4. /\ \A i \in V : i \in 1..n /\ (args[i].kind # "literal" => Keeps(y, args[i]))
          /\ \E i \in V : TakesUnit(y, args[i])
      BY <2>2, <2>3
    <2> QED BY <1>5, <2>2, <2>4 DEF LeavesOnly, Flows, V
  <1>6. CASE e.node = "aggregate"
    <2>1. y = CompileAggregate(e.op, e.name, args)
      BY Zenon, <1>1, <1>6 DEF NodeArm
    <2>2. y.kind = "aggregate" /\ (e.name # "count" => n = 1 /\ SameType(y, args[1]))
      <3>1. PICK op, name : op = e.op /\ name = e.name
        OBVIOUS
      <3>2. y = CompileAggregate(op, name, args)
        BY <2>1, <3>1
      <3>3. /\ Sound(Context, y) /\ y.kind = "aggregate"
            /\ (name # "count" => n = 1 /\ SameType(y, args[1]))
        BY <3>2, AggregateSound
      <3> QED BY <3>1, <3>3
    <2>3. V = IF e.name = "count" THEN {} ELSE 1..n
      BY <1>6, ValueOperandsIs
    <2> QED BY <1>6, <2>2, <2>3, SameTypeKeepsUnit
            DEF LeavesOnly, Flows, Carries, Coalesces
  <1>7. CASE e.node = "function"
    <2>1. y = CompileFunction(Context, e.name, args)
      BY Zenon, <1>1, <1>7 DEF NodeArm
    <2>2. /\ y.kind = "function"
          /\ e.name \in {"coalesce", "nullif", "round", "floor"} => n # 0
          /\ e.name = "coalesce" =>
                 /\ y.type = "number" \/ SameType(y, args[1])
                 /\ y.type = "number" <=> \E i \in 1..n : args[i].type = "number"
          /\ e.name \in {"nullif", "round"} => SameType(y, args[1])
          /\ e.name = "floor" /\ ~Scaled10(args[1]) => SameType(y, args[1])
      <3>1. PICK name : name = e.name
        OBVIOUS
      <3>2. y = CompileFunction(Context, name, args)
        BY <2>1, <3>1
      <3>3. /\ y.kind = "function"
            /\ name \in {"coalesce", "nullif", "round", "floor"} => n # 0
            /\ name = "coalesce" =>
                   /\ y.type = "number" \/ SameType(y, args[1])
                   /\ y.type = "number" <=> \E i \in 1..n : args[i].type = "number"
            /\ name \in {"nullif", "round"} => SameType(y, args[1])
            /\ name = "floor" /\ ~Scaled10(args[1]) => SameType(y, args[1])
        <4> HIDE DEF V, Goal
        <4>1. /\ IsOperands(args, n) /\ Valid(y)
              /\ \A i \in 1..n : Sound(Context, args[i])
          OBVIOUS
        <4> QED BY ONLY <3>2, <4>1, n \in Nat, FunctionSound
      <3> QED BY <3>1, <3>3
    <2>3. CASE e.name = "coalesce"
      <3>1. V = 1..n
        BY <1>7, <2>3, ValueOperandsIs
      <3> QED BY <1>7, <2>2, <2>3, <3>1 DEF LeavesOnly, Flows, Coalesces, Numbers
    <2>4. CASE e.name \in Shifting
      <3>1. V = {1}
        BY <1>7, <2>4, ValueOperandsIs
      <3>2. (e.name = "floor" /\ Scaled10(args[1])) \/ SameType(y, args[1])
        BY <2>2, <2>4 DEF Shifting
      <3>3. Flows(e, y, args, V, 1)
        BY <1>7, <2>4, <3>2, SameTypeKeepsUnit
           DEF Flows, Floors, Coalesces, Carries, Shifting
      <3> QED BY <2>2, <2>4, <3>1, <3>3 DEF LeavesOnly, Shifting
    <2>5. CASE e.name \notin Shifting \cup {"coalesce"}
      BY <1>2, <1>7, <2>5, ValueOperandsIs
    <2> QED BY <2>3, <2>4, <2>5
  <1> QED BY <1>2, <1>3, <1>4, <1>5, <1>6, <1>7, ValueOperandsIs

-----------------------------------------------------------------------------
(***************************************************************************)
(* One operand.  What its value is made of agrees with its type, amount by  *)
(* amount: kept money with money of that scale, a kept percentage with a    *)
(* decimal of that scale or of none or with a plain number, an amount       *)
(* merged with a plain number with a plain number.  Literals and            *)
(* parameters, which the compiler may retype as money, hold nothing stored, *)
(* and no literal is a plain number.                                        *)
(***************************************************************************)
UnitKept(x, a) ==
    /\ (a.via = "kept" /\ IsMoney(a)) => (x.type = "currency" /\ x.scale = a.scale)
    /\ (a.via = "kept" /\ ~IsMoney(a)) =>
           /\ x.type \in {"decimal", "number"}
           /\ Scaled10(x) => x.scale = a.scale
    /\ a.via = "number" => x.type = "number"

OperandOK(o) ==
    /\ Sound(Context, o.x)
    /\ o.amounts \subseteq Amount
    /\ o.x.kind \in {"literal", "parameter"} => o.amounts = {}
    /\ o.x.kind = "literal" => o.x.type # "number"
    /\ \A a \in o.amounts : UnitKept(o.x, a)

LEMMA AmountsOfIs ==
    ASSUME NEW x, HasUnit(x)
    PROVE  /\ AmountsOf(x) \subseteq Amount
           /\ x.kind # "field" => AmountsOf(x) = {}
           /\ \A a \in AmountsOf(x) : UnitKept(x, a)
  BY DEF AmountsOf, Amount, IsMoney, HasUnit, Scaled10, UnitKept

(***************************************************************************)
(* What becomes of amount a of operand i on its way through a node.         *)
(***************************************************************************)
Unlike(V, args, i) ==
    \E j \in V : args[j].type = args[i].type /\ UnitOf(args[j]) # UnitOf(args[i])

Becomes(e, args, V, i, a, t) ==
    \/ t = a /\ ~Coalesces(e) /\ e.node # "case"
    \/ t = a /\ a.via # "kept"
    \/ t = a /\ Coalesces(e) /\ ~Numbers(V, args) /\ UnitOf(args[i]) = UnitOf(args[1])
    \/ /\ t = a /\ e.node = "case" /\ ~Numbers(V, args)
       /\ IsMoney(a) \/ ~Unlike(V, args, i)
    \/ t.via = "number" /\ (Coalesces(e) \/ e.node = "case") /\ Numbers(V, args)
    \/ t.via \in {"coalesce", "case"}

LEMMA ThroughIs ==
    ASSUME NEW e, NEW n \in Nat, NEW args, IsOperands(args, n),
           NEW V, V = ValueOperands(e, n), V \subseteq 1..n, NEW i \in V,
           NEW xs, \A j \in 1..n : xs[j] = args[j].x,
           NEW a \in Amount
    PROVE  /\ Through(e, args, i, a) \in Amount
           /\ Becomes(e, xs, V, i, a, Through(e, args, i, a))
  <1> DEFINE coalesce == Coalesces(e)
             case == e.node = "case"
             kept == a.via = "kept"
             numbers == Numbers(V, xs)
             first == UnitOf(xs[i]) = UnitOf(xs[1])
             unlike == Unlike(V, xs, i)
             money == IsMoney(a)
             t == Through(e, args, i, a)
             toNumber == [a EXCEPT !.via = "number"]
             toCoalesce == [a EXCEPT !.via = "coalesce"]
             toCase == [a EXCEPT !.via = "case"]
             A == kept /\ (coalesce \/ case) /\ numbers
             B == kept /\ coalesce /\ ~numbers /\ ~first
             C == kept /\ case /\ ~numbers /\ ~money /\ unlike
  <1>1. Len(args) = n /\ i \in 1..n /\ 1 \in 1..n
    BY DEF IsOperands
  <1>2. /\ xs[i] = args[i].x /\ xs[1] = args[1].x
        /\ \A j \in V : xs[j] = args[j].x
    BY <1>1
  <1>3. /\ numbers <=> \E j \in V : args[j].x.type = "number"
        /\ unlike <=> \E j \in V : /\ args[j].x.type = args[i].x.type
                                   /\ UnitOf(args[j].x) # UnitOf(args[i].x)
        /\ first <=> UnitOf(args[i].x) = UnitOf(args[1].x)
    BY <1>2 DEF Numbers, Unlike
  <1>4. t = CASE A -> toNumber [] B -> toCoalesce [] C -> toCase [] OTHER -> a
    <2> HIDE DEF numbers, unlike, first
    <2> QED BY Zenon, <1>1, <1>3 DEF Through, Coalesces
  <1>5. /\ A => ~B /\ ~C
        /\ B => ~A /\ ~C
        /\ C => ~A /\ ~B
    <2>1. coalesce => ~case
      BY DEF Coalesces
    <2> HIDE DEF coalesce, case, numbers, first, unlike, money, kept
    <2> QED BY <2>1
  <1>6. /\ toNumber \in Amount /\ toNumber.via = "number"
        /\ toCoalesce \in Amount /\ toCoalesce.via = "coalesce"
        /\ toCase \in Amount /\ toCase.via = "case"
    BY DEF Amount
  <1>7. Becomes(e, xs, V, i, a, t) <=>
            \/ t = a /\ ~coalesce /\ ~case
            \/ t = a /\ ~kept
            \/ t = a /\ coalesce /\ ~numbers /\ first
            \/ t = a /\ case /\ ~numbers /\ (money \/ ~unlike)
            \/ t.via = "number" /\ (coalesce \/ case) /\ numbers
            \/ t.via \in {"coalesce", "case"}
    <2> HIDE DEF t
    <2> QED BY DEF Becomes
  <1> HIDE DEF t, toNumber, toCoalesce, toCase
  <1>8. CASE A
    <2>1. t = toNumber
      <3> HIDE DEF A, B, C
      <3> QED BY Zenon, <1>4, <1>5, <1>8
    <2> HIDE DEF coalesce, case, numbers, first, unlike, money, kept
    <2> QED BY <1>6, <1>7, <1>8, <2>1 DEF t
  <1>9. CASE B
    <2>1. t = toCoalesce
      <3> HIDE DEF A, B, C
      <3> QED BY Zenon, <1>4, <1>5, <1>9
    <2> HIDE DEF coalesce, case, numbers, first, unlike, money, kept
    <2> QED BY <1>6, <1>7, <2>1 DEF t
  <1>10. CASE C
    <2>1. t = toCase
      <3> HIDE DEF A, B, C
      <3> QED BY Zenon, <1>4, <1>5, <1>10
    <2> HIDE DEF coalesce, case, numbers, first, unlike, money, kept
    <2> QED BY <1>6, <1>7, <2>1 DEF t
  <1>11. CASE ~A /\ ~B /\ ~C
    <2>1. t = a
      <3> HIDE DEF A, B, C
      <3> QED BY Zenon, <1>4, <1>11
    <2> HIDE DEF coalesce, case, numbers, first, unlike, money, kept
    <2> QED BY <1>7, <1>11, <2>1 DEF t
  <1> QED BY <1>8, <1>9, <1>10, <1>11

(***************************************************************************)
(* What flows keeps its unit: the compiler's type and the fate of the       *)
(* amount, construct by construct.                                          *)
(***************************************************************************)
LEMMA FlowKeeps ==
    ASSUME NEW e, NEW args, NEW V, NEW i \in V,
           \A j \in V : args[j].kind = "literal" => args[j].type # "number",
           args[i].kind \notin {"literal", "parameter"},
           NEW y, Flows(e, y, args, V, i),
           NEW a \in Amount, UnitKept(args[i], a),
           NEW t, Becomes(e, args, V, i, a, t),
           ~(Floors(e, args) /\ t.via = "kept" /\ ~IsMoney(t) /\ t.scale = args[1].scale)
    PROVE  UnitKept(y, t)
  <1>1. CASE t.via \in {"coalesce", "case"}
    BY <1>1 DEF UnitKept
  <1>2. CASE t.via = "number" /\ (Coalesces(e) \/ e.node = "case") /\ Numbers(V, args)
    <2>1. y.type = "number"
      <3>1. CASE Coalesces(e)
        BY <1>2, <3>1 DEF Flows, Floors, Coalesces
      <3>2. CASE e.node = "case"
        <4>1. PICK j \in V : args[j].type = "number"
          BY <1>2 DEF Numbers
        <4>2. Keeps(y, args[j])
          BY <3>2, <4>1 DEF Flows, Floors, Coalesces
        <4> QED BY <4>1, <4>2 DEF Keeps
      <3> QED BY <1>2, <3>1, <3>2
    <2> QED BY <1>2, <2>1 DEF UnitKept
  <1>3. CASE t = a /\ ~Coalesces(e) /\ e.node # "case"
    <2>1. CASE Carries(y, args[i])
      BY <1>3, <2>1 DEF Carries, KeepsUnit, KeepsScale, UnitKept, Scaled10, IsMoney, Amount
    <2>2. CASE Floors(e, args) /\ i = 1
      BY <1>3, <2>2 DEF Floors, UnitKept, Scaled10
    <2> QED BY <1>3, <2>1, <2>2 DEF Flows
  <1>4. CASE t = a /\ a.via # "kept"
    <2>1. CASE a.via = "number"
      <3>1. args[i].type = "number"
        BY <2>1 DEF UnitKept
      <3>2. y.type = "number"
        BY <3>1 DEF Flows, Floors, Scaled10, Carries, KeepsUnit, Numbers, Keeps
      <3> QED BY <1>4, <2>1, <3>2 DEF UnitKept
    <2> QED BY <1>4, <2>1 DEF UnitKept
  <1>5. CASE t = a /\ Coalesces(e) /\ ~Numbers(V, args) /\ UnitOf(args[i]) = UnitOf(args[1])
    <2>1. SameType(y, args[1]) /\ y.type # "number"
      BY <1>5 DEF Flows, Floors, Coalesces
    <2>2. /\ args[i].type = args[1].type /\ args[i].scale = args[1].scale
          /\ Scaled10(args[i]) = Scaled10(args[1])
      BY <1>5 DEF UnitOf
    <2>3. Scaled10(y) = Scaled10(args[1])
      BY <2>1 DEF SameType, Scaled10
    <2> QED BY <1>5, <2>1, <2>2, <2>3 DEF UnitKept, SameType
  <1>6. CASE /\ t = a /\ e.node = "case" /\ ~Numbers(V, args)
             /\ IsMoney(a) \/ ~Unlike(V, args, i)
    <2>1. PICK j \in V : TakesUnit(y, args[j])
      BY <1>6 DEF Flows, Floors, Coalesces
    <2>2. Keeps(y, args[i])
      BY <1>6 DEF Flows, Floors, Coalesces
    <2>3. y.type = args[j].type /\ y.type # "number" /\ args[i].type # "number"
          /\ SameType(y, args[j])
      BY <1>6, <2>1 DEF Numbers, TakesUnit
    <2>4. CASE a.via = "kept" /\ IsMoney(a)
      BY <1>6, <2>2, <2>3, <2>4 DEF UnitKept, Keeps
    <2>5. CASE a.via = "kept" /\ ~IsMoney(a)
      <3>1. args[i].type = "decimal"
        BY <2>3, <2>5 DEF UnitKept
      <3>2. y.type = "decimal"
        BY <2>2, <2>3, <3>1 DEF Keeps
      <3>3. UnitOf(args[j]) = UnitOf(args[i])
        BY <1>6, <2>3, <2>5, <3>1, <3>2 DEF Unlike
      <3>4. args[i].scale = args[j].scale /\ Scaled10(args[i]) = Scaled10(args[j])
        BY <3>3 DEF UnitOf
      <3>5. Scaled10(y) = Scaled10(args[j]) /\ y.scale = args[j].scale
        BY <2>3 DEF SameType, Scaled10
      <3> QED BY <1>6, <2>5, <3>2, <3>4, <3>5 DEF UnitKept
    <2>6. CASE a.via = "number"
      BY <2>3, <2>6 DEF UnitKept
    <2>7. CASE a.via \notin {"kept", "number"}
      BY <1>6, <2>7 DEF UnitKept
    <2> QED BY <2>4, <2>5, <2>6, <2>7
  <1> QED BY <1>1, <1>2, <1>3, <1>4, <1>5, <1>6 DEF Becomes

LEMMA OperandIs ==
    ASSUME NEW e, NEW n \in Nat, NEW args, IsOperands(args, n), NEW x,
           NEW V, V = ValueOperands(e, n)
    PROVE  /\ Operand(e, x, args).x = x
           /\ \A t \in Operand(e, x, args).amounts :
                  \/ t \in AmountsOf(x)
                  \/ \E i \in V : \E a \in args[i].amounts :
                         t = Through(e, args, i, a) /\ ~Floored(e, args, t)
  <1> DEFINE flowing == UNION {{Through(e, args, i, a) : a \in args[i].amounts} : i \in V}
             all == {t \in flowing : ~Floored(e, args, t)} \cup AmountsOf(x)
             multiplied == \/ \E i \in DOMAIN args : args[i].multiplied
                           \/ /\ e.node = "binary" /\ e.op = "*"
                              /\ \E a \in flowing : IsMoney(a)
             o == Operand(e, x, args)
  <1>1. Len(args) = n
    BY DEF IsOperands
  <1>2. o = [x |-> x, amounts |-> all, multiplied |-> multiplied]
    BY Zenon, <1>1 DEF Operand
  <1>3. o.x = x /\ o.amounts = all
    <2> HIDE DEF all, multiplied, o
    <2> QED BY <1>2
  <1>4. \A t \in all :
            \/ t \in AmountsOf(x)
            \/ \E i \in V : \E a \in args[i].amounts :
                   t = Through(e, args, i, a) /\ ~Floored(e, args, t)
    BY Zenon
  <1> HIDE DEF all, o
  <1>5. \A t \in o.amounts :
            \/ t \in AmountsOf(x)
            \/ \E i \in V : \E a \in args[i].amounts :
                   t = Through(e, args, i, a) /\ ~Floored(e, args, t)
    BY Zenon, <1>3, <1>4
  <1> QED BY Zenon, <1>3, <1>5 DEF o

LEMMA OperandStep ==
    ASSUME NEW e, NEW n \in Nat, NEW args, IsOperands(args, n), HasOperands(e.node, n),
           \A i \in 1..n : OperandOK(args[i]),
           NEW x, x = CompileNode(Context, e, [i \in DOMAIN args |-> args[i].x]), Valid(x)
    PROVE  OperandOK(Operand(e, x, args))
  <1> DEFINE xs == [i \in DOMAIN args |-> args[i].x]
             o == Operand(e, x, args)
  <1>1. IsOperands(xs, n) /\ \A i \in 1..n : xs[i] = args[i].x
    <2> DEFINE R == {args[i].x : i \in 1..n}
    <2>1. DOMAIN args = 1..n
      BY DEF IsOperands
    <2>2. xs \in Seq(R) /\ Len(xs) = n
      BY ONLY <2>1, n \in Nat
    <2> QED BY <2>1, <2>2 DEF IsOperands
  <1>2. x = CompileNode(Context, e, xs)
    OBVIOUS
  <1> HIDE DEF xs
  <1>3. \A i \in 1..n : Sound(Context, xs[i])
    BY <1>1 DEF OperandOK
  <1>4. IsScope(Context)
    BY ExpressionCompilationAssumption
  <1>5. Sound(Context, x) /\ HasUnit(x) /\ (x.kind = "literal" => x.type # "number")
    <2>1. Sound(Context, x) /\ Kinded(e, x)
      BY <1>1, <1>2, <1>3, <1>4, NodeSound
    <2> QED BY <2>1 DEF Sound, Kinded
  <1>6. PICK V : V = ValueOperands(e, n)
    OBVIOUS
  <1>7. /\ x.kind \in LeavesOnly => V = {}
        /\ \A i \in V : i \in 1..n /\ Flows(e, x, xs, V, i)
    BY <1>1, <1>2, <1>3, <1>6, ValuesFlow
  <1>8. /\ o.x = x
        /\ \A t \in o.amounts :
               \/ t \in AmountsOf(x)
               \/ \E i \in V : \E a \in args[i].amounts :
                      t = Through(e, args, i, a) /\ ~Floored(e, args, t)
    BY <1>6, OperandIs
  <1> HIDE DEF o
  <1>9. ASSUME NEW i \in V, NEW a \in args[i].amounts, NEW t,
               t = Through(e, args, i, a), ~Floored(e, args, t)
        PROVE  t \in Amount /\ UnitKept(x, t)
    <2>1. i \in 1..n /\ V \subseteq 1..n /\ 1 \in 1..n
      BY <1>7
    <2>2. OperandOK(args[i]) /\ xs[i] = args[i].x /\ xs[1] = args[1].x
      BY <1>1, <2>1
    <2>3. a \in Amount /\ UnitKept(xs[i], a) /\ xs[i].kind \notin {"literal", "parameter"}
      BY <2>2 DEF OperandOK
    <2>4. t \in Amount /\ Becomes(e, xs, V, i, a, t)
      BY <1>1, <1>6, <1>9, <2>1, <2>3, ThroughIs
    <2>5. ~(Floors(e, xs) /\ t.via = "kept" /\ ~IsMoney(t) /\ t.scale = xs[1].scale)
      BY <1>9, <2>2 DEF Floored, Floors
    <2>6. \A j \in V : xs[j].kind = "literal" => xs[j].type # "number"
      BY <1>1, <2>1 DEF OperandOK
    <2> QED BY <1>7, <2>3, <2>4, <2>5, <2>6, FlowKeeps
  <1>10. \A t \in AmountsOf(x) : t \in Amount /\ UnitKept(x, t)
    BY <1>5, AmountsOfIs
  <1>11. \A t \in o.amounts : t \in Amount /\ UnitKept(x, t)
    BY <1>8, <1>9, <1>10
  <1>12. x.kind \in {"literal", "parameter"} => o.amounts = {}
    <2>1. x.kind \in {"literal", "parameter"} => V = {} /\ AmountsOf(x) = {}
      BY <1>5, <1>7, AmountsOfIs DEF LeavesOnly
    <2> QED BY <1>8, <2>1
  <1>13. OperandOK(o)
    BY <1>5, <1>8, <1>11, <1>12 DEF OperandOK
  <1> QED BY <1>13 DEF o

-----------------------------------------------------------------------------
(***************************************************************************)
(* The stack.  It is a sequence of its own operands, each of them OK.       *)
(***************************************************************************)
Operands(s) == {s[i] : i \in DOMAIN s}

ExpressionInv ==
    /\ nodes \in 0..MaxNodes
    /\ refused \in BOOLEAN
    /\ stack \in Seq(Operands(stack))
    /\ Len(stack) <= MaxStack
    /\ \A o \in Operands(stack) : OperandOK(o)

LEMMA VisitStep ==
    ASSUME ExpressionInv, NEW e, NEW arity \in Nat, HasOperands(e.node, arity),
           Len(stack) >= arity, arity = 0 => Len(stack) < MaxStack, Visit(e, arity)
    PROVE  ExpressionInv'
  <1> DEFINE below == SubSeq(stack, 1, Len(stack) - arity)
             args == SubSeq(stack, Len(stack) - arity + 1, Len(stack))
             x == CompileNode(Context, e, [i \in DOMAIN args |-> args[i].x])
             o == Operand(e, x, args)
  <1>1. /\ nodes < MaxNodes /\ nodes' = nodes + 1
        /\ IF Valid(x) THEN stack' = Append(below, o) /\ UNCHANGED refused
           ELSE stack' = <<>> /\ refused' = TRUE
    BY Zenon DEF Visit
  <1>2. PICK S : S = Operands(stack)
    OBVIOUS
  <1>3. stack \in Seq(S) /\ Len(stack) \in Nat /\ Len(stack) <= MaxStack /\ MaxStack \in Nat
        /\ \A p \in S : OperandOK(p)
    BY <1>2, ExpressionCompilationAssumption DEF ExpressionInv
  <1>4. /\ args \in Seq(S) /\ Len(args) = arity
        /\ below \in Seq(S) /\ Len(below) = Len(stack) - arity
    BY ONLY <1>3, arity \in Nat, Len(stack) >= arity
  <1>5. nodes' \in 0..MaxNodes
    BY <1>1, ExpressionCompilationAssumption DEF ExpressionInv
  <1> HIDE DEF below, args, o
  <1>6. /\ IsOperands(args, arity) /\ \A i \in 1..arity : OperandOK(args[i])
    BY <1>3, <1>4 DEF IsOperands
  <1>7. CASE Valid(x)
    <2>1. OperandOK(o)
      <3> PICK y : y = x
        OBVIOUS
      <3>1. /\ y = CompileNode(Context, e, [i \in DOMAIN args |-> args[i].x]) /\ Valid(y)
            /\ o = Operand(e, y, args)
        BY <1>7 DEF o
      <3> HIDE DEF x
      <3> QED BY <1>6, <3>1, OperandStep
    <2>2. stack' = Append(below, o) /\ refused' = refused
      BY <1>1, <1>7
    <2>3. PICK T : T = S \cup {o}
      OBVIOUS
    <2>4. stack' \in Seq(T) /\ Len(stack') = Len(stack) - arity + 1
      <3>1. below \in Seq(T) /\ o \in T
        BY <1>4, <2>3
      <3> PICK t : t = Append(below, o)
        OBVIOUS
      <3>2. t \in Seq(T) /\ Len(t) = Len(below) + 1
        BY ONLY <3>1, t = Append(below, o)
      <3> QED BY <1>4, <2>2, <3>2
    <2>5. \A p \in T : OperandOK(p)
      BY <1>3, <2>1, <2>3
    <2>6. Operands(stack') \subseteq T /\ stack' \in Seq(Operands(stack'))
      BY <2>4 DEF Operands
    <2>7. Len(stack') <= MaxStack
      BY ONLY <1>3, <2>4, arity \in Nat, arity = 0 => Len(stack) < MaxStack
    <2>8. \A p \in Operands(stack') : OperandOK(p)
      BY <2>5, <2>6
    <2> QED BY <1>5, <2>2, <2>6, <2>7, <2>8 DEF ExpressionInv, Operands, OperandOK
  <1>8. CASE ~Valid(x)
    <2>1. stack' = <<>> /\ refused' = TRUE
      BY <1>1, <1>8
    <2>2. /\ Operands(<<>>) = {} /\ <<>> \in Seq(Operands(<<>>)) /\ Len(<<>>) = 0
      BY DEF Operands
    <2>3. 0 <= MaxStack
      BY <1>3
    <2> QED BY <1>5, <2>1, <2>2, <2>3 DEF ExpressionInv, Operands
  <1> QED BY <1>7, <1>8

THEOREM ExpressionInvHolds == Spec => []ExpressionInv
  <1>1. Init => ExpressionInv
    <2> SUFFICES ASSUME Init PROVE ExpressionInv
      OBVIOUS
    <2>1. /\ Operands(<<>>) = {} /\ <<>> \in Seq(Operands(<<>>)) /\ Len(<<>>) = 0
      BY DEF Operands
    <2>2. 0 <= MaxStack /\ 0 \in 0..MaxNodes
      BY ExpressionCompilationAssumption
    <2>3. stack = <<>> /\ nodes = 0 /\ refused = FALSE
      BY DEF Init
    <2> QED BY <2>1, <2>2, <2>3 DEF ExpressionInv
  <1>2. ExpressionInv /\ [Next]_vars => ExpressionInv'
    <2> SUFFICES ASSUME ExpressionInv, [Next]_vars PROVE ExpressionInv'
      OBVIOUS
    <2>1. ASSUME NEW e \in Leaves, CompileLeaf(e) PROVE ExpressionInv'
      <3>1. Len(stack) \in Nat
        BY DEF ExpressionInv
      <3>2. HasOperands(e.node, 0) /\ Visit(e, 0) /\ Len(stack) < MaxStack /\ Len(stack) >= 0
        BY <2>1, <3>1, ExpressionCompilationAssumption DEF CompileLeaf
      <3> QED BY <3>2, VisitStep
    <2>2. ASSUME NEW e \in Operators, CompileOperator(e) PROVE ExpressionInv'
      <3>1. /\ e.arity \in Nat \ {0} /\ HasOperands(e.node, e.arity)
            /\ Visit(e, e.arity) /\ Len(stack) >= e.arity
        BY <2>2, ExpressionCompilationAssumption DEF CompileOperator
      <3> QED BY <3>1, VisitStep
    <2>3. CASE UNCHANGED vars
      BY <2>3 DEF vars, ExpressionInv, Operands, OperandOK
    <2> QED BY <2>1, <2>2, <2>3 DEF Next
  <1> QED BY <1>1, <1>2, PTL DEF Spec

(***************************************************************************)
(* Every operand of any compilation has a type of the plan, and a precision *)
(* that a field declares or that is at most 38: no chain of products grows  *)
(* it (object_sql_expression.go 435-456).                                   *)
(***************************************************************************)
THEOREM OperandsAlwaysTyped == Spec => []TypeOK
  <1>1. ExpressionInv => TypeOK
    <2> SUFFICES ASSUME ExpressionInv, NEW i \in DOMAIN stack
                 PROVE  HasUnit(stack[i].x) /\ stack[i].amounts \subseteq Amount
      BY DEF ExpressionInv, TypeOK
    <2>1. OperandOK(stack[i])
      BY DEF ExpressionInv, Operands
    <2> QED BY <2>1 DEF OperandOK, Sound
  <1> QED BY <1>1, ExpressionInvHolds, PTL

(***************************************************************************)
(* Money keeps its unit in every expression the compiler accepts, over any  *)
(* metadata (object_sql_expression.go 420-478). Wherever stored money       *)
(* flows, the result is money of that very scale, or a plain number from    *)
(* the CASE or COALESCE on that merged it with one, and no stored           *)
(* percentage becomes money. Exempt are amounts after an operand of         *)
(* another unit in a COALESCE (248-257) and percentages a CASE merged with  *)
(* a decimal of another scale (462).                                        *)
(***************************************************************************)
THEOREM MoneyAlwaysKeepsItsUnit == Spec => []MoneyKeepsItsUnit
  <1>1. ExpressionInv => MoneyKeepsItsUnit
    <2> SUFFICES ASSUME ExpressionInv, NEW i \in DOMAIN stack, NEW a \in stack[i].amounts,
                        NEW x, x = stack[i].x
                 PROVE  /\ (a.via = "kept" /\ "currency" \in {a.type, x.type}) =>
                               x.type = a.type /\ x.scale = a.scale
                        /\ a.via = "number" => x.type = "number"
      BY DEF MoneyKeepsItsUnit
    <2>1. UnitKept(x, a)
      BY DEF ExpressionInv, Operands, OperandOK
    <2> QED BY <2>1 DEF UnitKept, IsMoney
  <1> QED BY <1>1, ExpressionInvHolds, PTL

(***************************************************************************)
(* An integer holds minor units through a merge of units only, in any       *)
(* expression over any metadata (object_sql_expression.go 266-272).  The    *)
(* merges are those run coalesced_money and the README tell of: COALESCE    *)
(* after another unit, and a percentage from a CASE over decimals of        *)
(* different scales.  Without them an integer holds neither money nor a     *)
(* percentage that was not floored at its own scale.                        *)
(***************************************************************************)
THEOREM IntegersAreAlwaysWholeUnits == Spec => []IntegersAreWholeUnits
  <1>1. ExpressionInv => IntegersAreWholeUnits
    <2> SUFFICES ASSUME ExpressionInv, NEW i \in DOMAIN stack,
                        stack[i].x.type = "integer", NEW a \in stack[i].amounts
                 PROVE  a.via \in {"coalesce", "case"}
      BY DEF IntegersAreWholeUnits
    <2>1. OperandOK(stack[i])
      BY DEF ExpressionInv, Operands
    <2>2. UnitKept(stack[i].x, a) /\ a \in Amount
      BY <2>1 DEF OperandOK
    <2> QED BY <2>2 DEF UnitKept, Amount
  <1> QED BY <1>1, ExpressionInvHolds, PTL

=============================================================================
