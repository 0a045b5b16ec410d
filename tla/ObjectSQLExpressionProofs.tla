---------------------- MODULE ObjectSQLExpressionProofs ----------------------
(***************************************************************************)
(* What the compiler makes of any expression, over any metadata: whatever   *)
(* compiles has a type and a unit, and mentions only columns that exist.    *)
(***************************************************************************)
EXTENDS ObjectSQLExpression, FiniteSetTheorems, WellFoundedInduction, TLAPS

-----------------------------------------------------------------------------
(***************************************************************************)
(* Induction over sets instead of predicates: a property of the numbers (or *)
(* of anything ranked by numbers) is stated as the set of those that have   *)
(* it.  Everything rests on the strict-subset ordering of finite sets being *)
(* well-founded, a theorem of the library that mentions sets only.          *)
(***************************************************************************)
Below(n) == 0..(n - 1)

\* A set of naturals has a least element: the one with the fewest below it.
LEMMA Least ==
    ASSUME NEW S, S \subseteq Nat, S # {}
    PROVE  \E n \in S : \A m \in S : n <= m
  <1> DEFINE T == {Below(n) : n \in S}
             R == StrictSubsetOrdering(Nat)
             F == FiniteSubsetsOf(Nat)
  <1>1. IsWellFoundedOn(R, F)
    BY FS_StrictSubsetOrderingWellFounded
  <1>2. ASSUME NEW n \in Nat PROVE Below(n) \in F
    <2>1. IsFiniteSet(Below(n))
      BY FS_Interval DEF Below
    <2> QED BY <2>1 DEF Below, FiniteSubsetsOf
  <1>3. T \subseteq F /\ T # {}
    BY <1>2
  <1>4. PICK x \in T : \A y \in T : <<y, x>> \notin R
    <2> HIDE DEF T, R, F
    <2> QED BY ONLY <1>1, <1>3, WFMin
  <1>5. PICK n \in S : x = Below(n)
    OBVIOUS
  <1>6. ASSUME NEW m \in S, ~(n <= m) PROVE FALSE
    <2>1. m \in Nat /\ n \in Nat /\ m < n
      BY <1>6
    <2>2. m \in Below(n) /\ m \notin Below(m) /\ Below(m) \subseteq Below(n)
      BY <2>1 DEF Below
    <2>3. <<Below(m), Below(n)>> \in R
      BY <2>1, <2>2 DEF StrictSubsetOrdering, Below
    <2> QED BY <1>4, <1>5, <2>3
  <1> QED BY <1>6

\* Induction from m up to a bound.
LEMMA UpTo ==
    ASSUME NEW m \in Nat, NEW n \in Nat, NEW S, m \in S,
           \A i \in m..(n - 1) : i \in S => i + 1 \in S
    PROVE  \A i \in m..n : i \in S
  <1> DEFINE Bad == (m..n) \ S
  <1> SUFFICES ASSUME Bad # {} PROVE FALSE
    OBVIOUS
  <1>1. Bad \subseteq Nat
    OBVIOUS
  <1>2. PICK i \in Bad : \A k \in Bad : i <= k
    <2> HIDE DEF Bad
    <2> QED BY <1>1, Least
  <1>3. i # m /\ i - 1 \in m..(n - 1) /\ i - 1 \in S
    BY <1>2
  <1> QED BY <1>2, <1>3

(***************************************************************************)
(* Induction over ranked data: what holds of an element once it holds of    *)
(* everything ranked below it holds of all.                                 *)
(***************************************************************************)
LEMMA Ranked ==
    ASSUME NEW D, NEW rank \in [D -> Nat], NEW S,
           \A d \in D : (\A e \in D : rank[e] < rank[d] => e \in S) => d \in S
    PROVE  D \subseteq S
  <1> DEFINE Bad == {rank[d] : d \in D \ S}
  <1> SUFFICES ASSUME D \ S # {} PROVE FALSE
    OBVIOUS
  <1>1. Bad \subseteq Nat /\ Bad # {}
    OBVIOUS
  <1>2. PICK n \in Bad : \A m \in Bad : n <= m
    <2> HIDE DEF Bad
    <2> QED BY <1>1, Least
  <1>3. PICK d \in D \ S : rank[d] = n
    OBVIOUS
  <1>4. ASSUME NEW e \in D, rank[e] < rank[d] PROVE e \in S
    BY <1>2, <1>3, <1>4
  <1> QED BY <1>3, <1>4

-----------------------------------------------------------------------------
Attributes ==
    {"kind", "name", "op", "alias", "field", "value", "type", "prec", "scale",
     "refs", "measures", "eqs", "required"}

-----------------------------------------------------------------------------
(***************************************************************************)
(* The helpers that set attributes.                                         *)
(***************************************************************************)
SameButType(y, x) ==
    /\ DOMAIN y = Attributes
    /\ y.kind = x.kind /\ y.name = x.name /\ y.op = x.op
    /\ y.alias = x.alias /\ y.field = x.field /\ y.value = x.value
    /\ y.refs = x.refs /\ y.measures = x.measures
    /\ y.eqs = x.eqs /\ y.required = x.required

SameType(y, x) == y.type = x.type /\ y.prec = x.prec /\ y.scale = x.scale

LEMMA BlankIs ==
    /\ DOMAIN Blank = Attributes
    /\ Blank.refs = {} /\ Blank.measures = {} /\ Blank.eqs = {} /\ Blank.required = {}
    /\ Blank.type = "" /\ Blank.prec = 0 /\ Blank.scale = 0 /\ Blank.kind = ""
  BY DEF Blank, Attributes

LEMMA Requires ==
    ASSUME NEW condition, NEW x, Valid(Require(condition, x))
    PROVE  condition /\ Require(condition, x) = x /\ Valid(x)
  BY DEF Require, Valid, Invalid, Blank

LEMMA InvalidIs == ~Valid(Invalid)
  BY DEF Valid, Invalid, Blank

LEMMA Typed ==
    ASSUME NEW x, DOMAIN x = Attributes, NEW type, NEW prec, NEW scale
    PROVE  /\ SameButType(TypedAs(x, type, prec, scale), x)
           /\ TypedAs(x, type, prec, scale).type = type
           /\ TypedAs(x, type, prec, scale).prec = prec
           /\ TypedAs(x, type, prec, scale).scale = scale
  BY DEF TypedAs, SameButType, Attributes

LEMMA TypedAlike ==
    ASSUME NEW x, DOMAIN x = Attributes, NEW y
    PROVE  SameButType(TypedLike(x, y), x) /\ SameType(TypedLike(x, y), y)
  BY Typed DEF TypedLike, SameType

LEMMA OverIs ==
    ASSUME NEW x, DOMAIN x = Attributes, NEW args
    PROVE  /\ DOMAIN Over(x, args) = Attributes
           /\ Over(x, args).kind = x.kind /\ SameType(Over(x, args), x)
           /\ Over(x, args).required = x.required
           /\ Over(x, args).refs = x.refs \cup UNION {args[i].refs : i \in DOMAIN args}
           /\ Over(x, args).measures
                  = x.measures \cup UNION {args[i].measures : i \in DOMAIN args}
           /\ Over(x, args).eqs = x.eqs \cup UNION {args[i].eqs : i \in DOMAIN args}
  BY DEF Over, SameType, Attributes

-----------------------------------------------------------------------------
(***************************************************************************)
(* The units columns bring along: type, precision and scale.                *)
(***************************************************************************)
LEMMA EnvelopeIs ==
    /\ DOMAIN Envelope = {"workspace_id", "id", "created_at", "updated_at"}
    /\ \A f \in DOMAIN Envelope : Envelope[f].prec = 0 /\ Envelope[f].scale = 0
  <1>1. \A type : PlainField(type).prec = 0 /\ PlainField(type).scale = 0
    BY DEF PlainField
  <1>2. \A b : LET field == [PlainField("text") EXCEPT !.unique = b]
               IN  field.prec = 0 /\ field.scale = 0
    BY DEF PlainField
  <1>3. Envelope["id"].prec = 0 /\ Envelope["id"].scale = 0
    <2>1. Envelope["id"] = [PlainField("text") EXCEPT !.unique = TRUE]
      BY Zenon DEF Envelope
    <2> QED BY Zenon, <1>2, <2>1
  <1>4. /\ Envelope["workspace_id"] = PlainField("text")
        /\ Envelope["created_at"] = PlainField("datetime")
        /\ Envelope["updated_at"] = PlainField("datetime")
    BY Zenon DEF Envelope
  <1>5. DOMAIN Envelope = {"workspace_id", "id", "created_at", "updated_at"}
    BY Zenon DEF Envelope
  <1> HIDE DEF Envelope
  <1> QED BY <1>1, <1>3, <1>4, <1>5

LEMMA FieldIs ==
    ASSUME NEW field \in PublishedFields
    PROVE  /\ field.prec \in Int /\ field.scale \in Int
           /\ DecimalConfig(field).prec \in Nat \ {0}
           /\ DecimalConfig(field).prec \in Precisions
           /\ DecimalConfig(field).scale \in Int
  <1>0. PICK o \in Objects : field \in {FieldOf(o, f) : f \in ColumnsOf(o)}
    BY DEF PublishedFields
  <1>1. PICK f \in ColumnsOf(o) : field = FieldOf(o, f)
    BY <1>0
  <1>2. field.prec \in Int /\ field.scale \in Int
    <2>1. CASE f \in DOMAIN Envelope
      BY <1>1, <2>1, EnvelopeIs DEF FieldOf
    <2>2. CASE f \notin DOMAIN Envelope
      <3>1. Metadata[o][f] \in Field
        BY <1>1, <2>2, MetadataAssumption DEF ColumnsOf
      <3> QED BY <1>1, <2>2, <3>1 DEF FieldOf, Field
    <2> QED BY <2>1, <2>2
  <1>3. DecimalConfig(field).prec \in Precisions
    BY DEF Precisions
  <1> QED BY <1>2, <1>3 DEF DecimalConfig

LEMMA PrecisionsAreNat == Precisions \subseteq Nat /\ 0..38 \subseteq Precisions
  <1>1. {DecimalConfig(field).prec : field \in PublishedFields} \subseteq Nat
    BY FieldIs
  <1> QED BY <1>1 DEF Precisions

LEMMA NumberPrecisions == \A n \in 0..38 : n \in Precisions
  BY PrecisionsAreNat

LEMMA UnscaledIs ==
    ASSUME NEW type \in PlanTypes
    PROVE  HasUnit(Unscaled(type)) /\ Unscaled(type).type = type
  <1>1. 0 \in Precisions
    BY NumberPrecisions
  <1> QED BY <1>1 DEF Unscaled, HasUnit

LEMMA FieldTypeIs ==
    ASSUME NEW field \in PublishedFields, FieldType(field).type # ""
    PROVE  HasUnit(FieldType(field))
  <1> DEFINE plain == {"number", "boolean", "date", "datetime", "decimal", "integer"}
  <1>1. CASE field.type \in TextTypes
    <2>1. field.type \notin plain \cup {"percent", "currency"}
      BY <1>1 DEF TextTypes
    <2>2. FieldType(field) = Unscaled("text")
      BY Zenon, <1>1, <2>1 DEF FieldType
    <2> QED BY UnscaledIs, <2>2 DEF PlanTypes
  <1>2. CASE field.type \in plain
    <2>1. field.type \notin TextTypes /\ field.type # "percent" /\ field.type # "currency"
      BY <1>2 DEF TextTypes
    <2>2. FieldType(field) = Unscaled(field.type)
      BY Zenon, <1>2, <2>1 DEF FieldType
    <2> QED BY UnscaledIs, <1>2, <2>2 DEF PlanTypes
  <1>3. CASE field.type \in {"percent", "currency"}
    <2>1. field.type \notin TextTypes /\ field.type \notin plain
      BY <1>3 DEF TextTypes
    <2>2. CASE field.type = "percent"
      <3>1. field.type # "currency"
        BY <2>2
      <3>2. FieldType(field) = Scaled("decimal", field)
        BY Zenon, <2>1, <2>2, <3>1 DEF FieldType
      <3> QED BY <3>2, FieldIs DEF Scaled, HasUnit, PlanTypes
    <2>3. CASE field.type = "currency"
      <3>1. field.type # "percent"
        BY <2>3
      <3>2. FieldType(field) = Scaled("currency", field)
        BY Zenon, <2>1, <2>3, <3>1 DEF FieldType
      <3> QED BY <3>2, FieldIs DEF Scaled, HasUnit, PlanTypes
    <2> QED BY <1>3, <2>2, <2>3
  <1>4. CASE field.type \notin TextTypes \cup plain \cup {"percent", "currency"}
    <2>1. FieldType(field) = Unscaled("")
      BY Zenon, <1>4 DEF FieldType
    <2>2. Unscaled("").type = ""
      BY DEF Unscaled
    <2> QED BY <2>1, <2>2
  <1> QED BY <1>1, <1>2, <1>3, <1>4

-----------------------------------------------------------------------------
(***************************************************************************)
(* The type algebra keeps units.                                            *)
(***************************************************************************)
LEMMA SameTypeUnit ==
    ASSUME NEW x, NEW y, SameType(y, x), HasUnit(x)
    PROVE  HasUnit(y)
  BY DEF SameType, HasUnit

LEMMA NumberUnit ==
    ASSUME NEW x, DOMAIN x = Attributes, NEW type \in PlanTypes
    PROVE  HasUnit(TypedAs(x, type, 0, 0))
  <1>1. 0 \in Precisions
    BY NumberPrecisions
  <1> QED BY <1>1, Typed DEF HasUnit

LEMMA MoneyUnit ==
    ASSUME NEW x, DOMAIN x = Attributes, NEW op, NEW left, NEW right,
           HasUnit(left), HasUnit(right), Valid(MoneyArithmetic(x, op, left, right))
    PROVE  /\ SameButType(MoneyArithmetic(x, op, left, right), x)
           /\ HasUnit(MoneyArithmetic(x, op, left, right))
           /\ MoneyArithmetic(x, op, left, right).type = "currency"
           /\ MoneyArithmetic(x, op, left, right).scale = left.scale
           /\ left.type = "currency"
           /\ op # "/" => right.type = "currency" /\ right.scale = left.scale
  <1> DEFINE y == MoneyArithmetic(x, op, left, right)
  <1>1. CASE op = "/" /\ left.type = "currency" /\ right.type \in {"integer", "decimal"}
    <2>1. y = TypedLike(x, left)
      BY <1>1 DEF MoneyArithmetic
    <2> QED BY <1>1, <2>1, TypedAlike, SameTypeUnit DEF SameType
  <1>2. CASE ~(op = "/" /\ left.type = "currency" /\ right.type \in {"integer", "decimal"})
    <2> DEFINE prec == HigherOf(left.prec, right.prec)
               sum == TypedAs(x, "currency", prec, left.scale)
    <2>1. /\ left.type = "currency" /\ right.type = "currency" /\ left.scale = right.scale
          /\ y = sum
      BY <1>2, Requires DEF MoneyArithmetic
    <2>2. left.prec \in Nat /\ right.prec \in Nat
      BY PrecisionsAreNat DEF HasUnit
    <2>3. prec \in {left.prec, right.prec} /\ (prec = 0 => left.prec = 0)
      BY <2>2 DEF HigherOf
    <2> HIDE DEF prec
    <2>4. SameButType(sum, x) /\ sum.type = "currency" /\ sum.prec = prec /\ sum.scale = left.scale
      BY Typed
    <2> HIDE DEF sum
    <2>5. HasUnit(sum)
      BY <2>3, <2>4 DEF HasUnit, PlanTypes
    <2> QED BY <2>1, <2>4, <2>5
  <1> QED BY <1>1, <1>2

\* A scaled decimal has the scale of the decimal it is computed from.
KeepsScale(y, x) ==
    (x.type = "decimal" /\ Scaled10(y)) => (Scaled10(x) /\ y.scale = x.scale)

LEMMA NumberIs ==
    ASSUME NEW x, DOMAIN x = Attributes, NEW op, NEW left, NEW right,
           HasUnit(left), HasUnit(right)
    PROVE  /\ SameButType(NumberArithmetic(x, op, left, right), x)
           /\ HasUnit(NumberArithmetic(x, op, left, right))
           /\ NumberArithmetic(x, op, left, right).type \in {"number", "decimal", "integer"}
           /\ NumberArithmetic(x, op, left, right).type = "integer" =>
                  left.type # "decimal" /\ right.type # "decimal"
                  /\ left.type # "number" /\ right.type # "number"
           /\ "number" \in {left.type, right.type} =>
                  NumberArithmetic(x, op, left, right).type = "number"
           /\ KeepsScale(NumberArithmetic(x, op, left, right), left)
           /\ KeepsScale(NumberArithmetic(x, op, left, right), right)
  <1> DEFINE types == {left.type, right.type}
             scaled == IF Scaled10(left) THEN left ELSE right
             y == NumberArithmetic(x, op, left, right)
  <1>1. CASE op = "*" /\ types = {"integer", "decimal"} /\ Scaled10(scaled)
    <2> DEFINE prec == LowerOf(38, scaled.prec + 19)
               product == TypedAs(x, "decimal", prec, scaled.scale)
    <2>1. y = product
      BY <1>1 DEF NumberArithmetic
    <2>2. /\ HasUnit(scaled) /\ Scaled10(scaled) /\ "number" \notin types
          /\ left.type = "decimal" => left = scaled
          /\ right.type = "decimal" => right = scaled
      BY <1>1 DEF Scaled10
    <2>3. scaled.prec \in Nat /\ scaled.scale \in Int
      BY <2>2, PrecisionsAreNat DEF HasUnit
    <2> HIDE DEF scaled
    <2>4. prec \in 0..38 /\ prec # 0
      BY <2>3 DEF LowerOf
    <2> HIDE DEF prec
    <2>5. prec \in Precisions
      BY <2>4, NumberPrecisions
    <2>6. /\ SameButType(product, x) /\ product.type = "decimal" /\ product.prec = prec
          /\ product.scale = scaled.scale
      BY Typed
    <2> HIDE DEF product
    <2>7. HasUnit(product)
      BY <2>3, <2>4, <2>5, <2>6 DEF HasUnit, PlanTypes
    <2>8. KeepsScale(product, left) /\ KeepsScale(product, right)
      BY <2>2, <2>6 DEF KeepsScale
    <2> QED BY <2>1, <2>2, <2>6, <2>7, <2>8
  <1>2. CASE ~(op = "*" /\ types = {"integer", "decimal"} /\ Scaled10(scaled))
    <2> DEFINE type == IF "number" \in types THEN "number"
                       ELSE IF "decimal" \in types \/ op = "/" THEN "decimal" ELSE "integer"
    <2>1. y = TypedAs(x, type, 0, 0)
      BY <1>2 DEF NumberArithmetic
    <2>2. /\ type \in {"number", "decimal", "integer"}
          /\ type = "integer" => "decimal" \notin types /\ "number" \notin types
          /\ "number" \in types => type = "number"
      OBVIOUS
    <2> HIDE DEF type
    <2>3. type \in PlanTypes
      BY <2>2 DEF PlanTypes
    <2>4. SameButType(y, x) /\ y.type = type /\ y.prec = 0 /\ HasUnit(y)
      BY <2>1, <2>3, Typed, NumberUnit
    <2> HIDE DEF y
    <2>5. KeepsScale(y, left) /\ KeepsScale(y, right)
      BY <2>4 DEF KeepsScale, Scaled10
    <2> QED BY <2>2, <2>4, <2>5 DEF y
  <1> QED BY <1>1, <1>2

-----------------------------------------------------------------------------
(***************************************************************************)
(* Merging branches.  What a merged type keeps of a branch: its unit, or    *)
(* the knowledge that it is a number without one.                           *)
(***************************************************************************)
Keeps(y, x) ==
    \/ x.type \in {"", "null"}
    \/ y.type = "number"
    \/ y.type = x.type /\ (x.type = "currency" => y.scale = x.scale)

\* Where y has its unit from: a number may have lost it.
TakesUnit(y, x) == y.type = x.type /\ (y.type # "number" => SameType(y, x))

LEMMA TakesThrough ==
    ASSUME NEW x, NEW y, NEW z, TakesUnit(z, y), TakesUnit(y, x)
    PROVE  TakesUnit(z, x)
  BY DEF TakesUnit, SameType

LEMMA KeepsThrough ==
    ASSUME NEW x, NEW y, NEW z, Keeps(y, x), Keeps(z, y)
    PROVE  Keeps(z, x)
  BY DEF Keeps

LEMMA CoercedIs ==
    ASSUME NEW x, DOMAIN x = Attributes, NEW y, HasUnit(x), HasUnit(y)
    PROVE  /\ SameButType(CoercedTo(y, x), x) /\ HasUnit(CoercedTo(y, x))
           /\ CoercedTo(y, x) = x \/ x.kind \in {"parameter", "literal"}
           /\ SameButType(CoercedBranch(y, x), x) /\ HasUnit(CoercedBranch(y, x))
           /\ CoercedBranch(y, x) = x \/ x.kind = "literal"
  <1>1. SameButType(x, x)
    BY DEF SameButType
  <1>2. SameButType(TypedLike(x, y), x) /\ HasUnit(TypedLike(x, y))
    BY TypedAlike, SameTypeUnit
  <1>3. CoercedTo(y, x) \in {x, TypedLike(x, y)} /\ (CoercedTo(y, x) = x \/ x.kind \in {"parameter", "literal"})
    BY DEF CoercedTo, ZeroLiteral
  <1>4. CoercedBranch(y, x) \in {x, TypedLike(x, y)} /\ (CoercedBranch(y, x) = x \/ x.kind = "literal")
    BY DEF CoercedBranch, ZeroLiteral
  <1> QED BY <1>1, <1>2, <1>3, <1>4

MergeTarget(x) == DOMAIN x = Attributes /\ (x.type = "" \/ HasUnit(x))

LEMMA MergedIs ==
    ASSUME NEW target, MergeTarget(target), NEW branch, HasUnit(branch),
           Valid(Merged(target, branch))
    PROVE  /\ SameButType(Merged(target, branch), target)
           /\ HasUnit(Merged(target, branch))
           /\ Keeps(Merged(target, branch), target)
           /\ Keeps(Merged(target, branch), branch)
           /\ TakesUnit(Merged(target, branch), target) \/ TakesUnit(Merged(target, branch), branch)
  <1> DEFINE m == Merged(target, branch)
  <1>1. CASE target.type \in {"", "null"}
    <2>1. m = TypedLike(target, branch)
      BY Zenon, <1>1 DEF Merged
    <2> QED BY <1>1, <2>1, TypedAlike, SameTypeUnit DEF MergeTarget, Keeps, SameType, TakesUnit
  <1>2. CASE target.type \notin {"", "null"} /\ branch.type = "null"
    <2>1. m = target
      BY Zenon, <1>2 DEF Merged
    <2> QED BY <1>2, <2>1 DEF MergeTarget, SameButType, Keeps, TakesUnit, SameType
  <1>3. CASE target.type \notin {"", "null"} /\ branch.type # "null"
    <2> DEFINE numbers == /\ NumericType(target.type) /\ NumericType(branch.type)
                          /\ "number" \in {target.type, branch.type}
               like == /\ target.type = branch.type
                       /\ target.type = "currency" => target.scale = branch.scale
    <2>1. m = IF numbers THEN TypedAs(target, "number", 0, 0) ELSE Require(like, target)
      BY Zenon, <1>3 DEF Merged
    <2>2. CASE numbers
      <3>1. m = TypedAs(target, "number", 0, 0)
        BY <2>1, <2>2
      <3>2. "number" \in PlanTypes
        BY DEF PlanTypes
      <3> DEFINE n == TypedAs(target, "number", 0, 0)
      <3>3. DOMAIN target = Attributes
        BY DEF MergeTarget
      <3>4. SameButType(n, target) /\ n.type = "number"
        BY <3>3, Typed
      <3>5. HasUnit(n)
        BY <3>2, <3>3, NumberUnit
      <3> HIDE DEF n
      <3>6. /\ Keeps(n, target) /\ Keeps(n, branch)
            /\ TakesUnit(n, target) \/ TakesUnit(n, branch)
        BY <2>2, <3>4 DEF Keeps, TakesUnit
      <3> HIDE DEF m
      <3>7. /\ SameButType(m, target) /\ HasUnit(m) /\ Keeps(m, target) /\ Keeps(m, branch)
            /\ TakesUnit(m, target) \/ TakesUnit(m, branch)
        BY ONLY <3>1, <3>4, <3>5, <3>6 DEF n
      <3> QED BY <3>7 DEF m
    <2>3. CASE ~numbers
      <3>1. m = Require(like, target)
        BY <2>1, <2>3
      <3>2. like /\ m = target
        BY <3>1, Requires
      <3> QED BY <1>3, <3>2 DEF MergeTarget, SameButType, Keeps, TakesUnit, SameType
    <2> QED BY <2>2, <2>3
  <1> QED BY <1>1, <1>2, <1>3

LEMMA MergedBranchIs ==
    ASSUME NEW target, Valid(target) => MergeTarget(target),
           NEW branch, DOMAIN branch = Attributes, HasUnit(branch),
           Valid(MergedBranch(target, branch))
    PROVE  /\ Valid(target)
           /\ SameButType(MergedBranch(target, branch), target)
           /\ HasUnit(MergedBranch(target, branch))
           /\ Keeps(MergedBranch(target, branch), target)
           /\ branch.kind # "literal" => Keeps(MergedBranch(target, branch), branch)
           /\ \/ TakesUnit(MergedBranch(target, branch), target)
              \/ TakesUnit(MergedBranch(target, branch), branch)
  <1> DEFINE b == CoercedBranch(target, branch)
             m == MergedBranch(target, branch)
  <1>1. Valid(target) /\ MergeTarget(target)
    BY DEF MergedBranch
  <1>2. m = Merged(target, b)
    BY <1>1 DEF MergedBranch
  <1>3. HasUnit(b) /\ (b = branch \/ branch.kind = "literal")
    <2>1. CASE target.type = ""
      BY <2>1 DEF CoercedBranch, Scaled10
    <2>2. CASE target.type # ""
      BY <1>1, <2>2, CoercedIs DEF MergeTarget
    <2> QED BY <2>1, <2>2
  <1>4. b = branch \/ TakesUnit(b, target)
    <2> DEFINE t == TypedLike(branch, target)
    <2>1. b \in {branch, t}
      BY DEF CoercedBranch
    <2>2. SameType(t, target)
      BY TypedAlike
    <2> HIDE DEF b, t
    <2>3. TakesUnit(t, target)
      BY <2>2 DEF TakesUnit, SameType
    <2> QED BY <2>1, <2>3
  <1> HIDE DEF b, m
  <1>5. /\ SameButType(m, target) /\ HasUnit(m) /\ Keeps(m, target) /\ Keeps(m, b)
        /\ TakesUnit(m, target) \/ TakesUnit(m, b)
    BY <1>1, <1>2, <1>3, MergedIs DEF m
  <1>6. TakesUnit(m, target) \/ TakesUnit(m, branch)
    BY <1>4, <1>5, TakesThrough
  <1> QED BY <1>1, <1>3, <1>5, <1>6 DEF m

LEMMA MergedBranchesDef ==
    ASSUME NEW x, NEW args, Len(args) \in Nat
    PROVE  \E f :
               /\ f = [i \in 0..(Len(args) \div 2) |->
                          IF i = 0 THEN x ELSE MergedBranch(f[i - 1], args[2 * i])]
               /\ MergedBranches(x, args) = f[Len(args) \div 2]
  <1> DEFINE n == Len(args) \div 2
             Unfolds(f, k) == f = [i \in 0..k |-> IF i = 0 THEN x
                                                  ELSE MergedBranch(f[i - 1], args[2 * i])]
             S == {k \in 0..n : \E f : Unfolds(f, k)}
  <1>1. n \in Nat
    OBVIOUS
  <1>2. 0 \in S
    <2>1. Unfolds([i \in 0..0 |-> x], 0)
      OBVIOUS
    <2>2. \E f : Unfolds(f, 0)
      <3> HIDE DEF Unfolds
      <3> QED BY <2>1
    <2> QED BY <1>1, <2>2
  <1>3. ASSUME NEW k \in 0..(n - 1), k \in S PROVE k + 1 \in S
    <2>1. PICK f : Unfolds(f, k)
      BY <1>3
    <2> DEFINE g == [i \in 0..(k + 1) |-> IF i = k + 1 THEN MergedBranch(f[k], args[2 * (k + 1)])
                                          ELSE f[i]]
    <2>2. Unfolds(g, k + 1)
      <3> SUFFICES ASSUME NEW i \in 0..(k + 1)
                   PROVE  g[i] = IF i = 0 THEN x ELSE MergedBranch(g[i - 1], args[2 * i])
        OBVIOUS
      <3>1. CASE i = k + 1
        BY <1>1, <3>1
      <3>2. CASE i # k + 1
        BY <1>1, <2>1, <3>2
      <3> QED BY <3>1, <3>2
    <2>3. \E h : Unfolds(h, k + 1)
      <3> HIDE DEF Unfolds, g
      <3> QED BY <2>2
    <2> QED BY <1>1, <2>3
  <1>4. n \in S
    <2> HIDE DEF S, n
    <2>1. \A i \in 0..n : i \in S
      BY <1>1, <1>2, <1>3, UpTo
    <2> QED BY <1>1, <2>1
  <1>5. PICK f : Unfolds(f, n)
    BY <1>4
  <1> DEFINE g == CHOOSE h : Unfolds(h, n)
  <1>6. Unfolds(g, n)
    BY <1>5
  <1>7. MergedBranches(x, args) = g[n]
    BY DEF MergedBranches
  <1> QED BY <1>6, <1>7

LEMMA MergingIs ==
    ASSUME NEW x, DOMAIN x = Attributes, x.type = "",
           NEW n \in Nat, NEW branches, NEW f,
           f[0] = x, \A k \in 0..(n - 1) : f[k + 1] = MergedBranch(f[k], branches[k + 1]),
           \A i \in 1..n : DOMAIN branches[i] = Attributes /\ HasUnit(branches[i]),
           Valid(f[n])
    PROVE  /\ SameButType(f[n], x)
           /\ n # 0 => HasUnit(f[n])
           /\ \A i \in 1..n : branches[i].kind # "literal" => Keeps(f[n], branches[i])
           /\ n # 0 => \E i \in 1..n : TakesUnit(f[n], branches[i])
  <1> DEFINE Merges(k) == /\ SameButType(f[k], x)
                          /\ k # 0 => HasUnit(f[k])
                          /\ k = 0 => f[k].type = ""
                          /\ \A i \in 1..k :
                                 branches[i].kind # "literal" => Keeps(f[k], branches[i])
                          /\ k # 0 => \E i \in 1..k : TakesUnit(f[k], branches[i])
             S == {k \in 0..n : Valid(f[k]) => Merges(k)}
  <1>1. 0 \in S
    <2>1. SameButType(f[0], x)
      BY DEF SameButType
    <2>2. 0 \in 0..n /\ 1..0 = {}
      BY ONLY n \in Nat
    <2> QED BY <2>1, <2>2
  <1>2. ASSUME NEW k \in 0..(n - 1), k \in S PROVE k + 1 \in S
    <2> DEFINE branch == branches[k + 1]
    <2>1. f[k + 1] = MergedBranch(f[k], branch)
      OBVIOUS
    <2>2. k + 1 \in 1..n /\ k + 1 \in 0..n /\ k + 1 # 0 /\ k \in Nat
      BY ONLY n \in Nat, k \in 0..(n - 1)
    <2>3. DOMAIN branch = Attributes /\ HasUnit(branch)
      BY <2>2
    <2>4. Valid(f[k]) => MergeTarget(f[k])
      BY <1>2, <2>2 DEF MergeTarget, SameButType
    <2> SUFFICES ASSUME Valid(f[k + 1]) PROVE Merges(k + 1)
      BY <2>2
    <2>5. /\ Valid(f[k]) /\ SameButType(f[k + 1], f[k]) /\ HasUnit(f[k + 1])
          /\ Keeps(f[k + 1], f[k])
          /\ branch.kind # "literal" => Keeps(f[k + 1], branch)
          /\ TakesUnit(f[k + 1], f[k]) \/ TakesUnit(f[k + 1], branch)
      <3> HIDE DEF branch
      <3> QED BY <2>1, <2>3, <2>4, MergedBranchIs
    <2>6. Merges(k)
      BY <1>2, <2>5
    <2>7. SameButType(f[k + 1], x)
      BY <2>5, <2>6 DEF SameButType
    <2>8. ASSUME NEW i \in 1..(k + 1), branches[i].kind # "literal"
          PROVE  Keeps(f[k + 1], branches[i])
      <3>1. CASE i = k + 1
        BY <2>5, <2>8, <3>1
      <3>2. CASE i \in 1..k
        <4>1. Keeps(f[k], branches[i])
          BY <2>6, <2>8, <3>2
        <4> QED BY <2>5, <4>1, KeepsThrough
      <3>3. i = k + 1 \/ i \in 1..k
        BY ONLY <2>2, i \in 1..(k + 1)
      <3> QED BY <3>1, <3>2, <3>3
    <2>9. \E i \in 1..(k + 1) : TakesUnit(f[k + 1], branches[i])
      <3>1. k + 1 \in 1..(k + 1) /\ 1..k \subseteq 1..(k + 1)
        BY ONLY <2>2
      <3>2. CASE TakesUnit(f[k + 1], branch)
        BY <3>1, <3>2
      <3>3. CASE TakesUnit(f[k + 1], f[k])
        <4>1. k # 0
          <5> SUFFICES ASSUME k = 0 PROVE FALSE
            OBVIOUS
          <5>1. f[k].type = "" /\ f[k + 1].type \in PlanTypes
            BY <2>5, <2>6 DEF HasUnit
          <5> QED BY <3>3, <5>1 DEF TakesUnit, PlanTypes
        <4>2. PICK i \in 1..k : TakesUnit(f[k], branches[i])
          BY <2>6, <4>1
        <4> QED BY <3>1, <3>3, <4>2, TakesThrough
      <3> QED BY <2>5, <3>2, <3>3
    <2> QED BY <2>2, <2>5, <2>7, <2>8, <2>9
  <1>3. n \in S
    <2> HIDE DEF S
    <2>1. \A i \in 0..n : i \in S
      BY <1>1, <1>2, UpTo
    <2>2. n \in 0..n
      BY ONLY n \in Nat
    <2> QED BY <2>1, <2>2
  <1> QED BY <1>3

LEMMA MergedBranchesIs ==
    ASSUME NEW x, DOMAIN x = Attributes, x.type = "",
           NEW args, NEW n \in Nat, n = Len(args) \div 2, Len(args) \in Nat,
           \A i \in 1..n : DOMAIN args[2 * i] = Attributes /\ HasUnit(args[2 * i]),
           Valid(MergedBranches(x, args))
    PROVE  /\ SameButType(MergedBranches(x, args), x)
           /\ n # 0 => HasUnit(MergedBranches(x, args))
           /\ \A i \in 1..n :
                  args[2 * i].kind # "literal" => Keeps(MergedBranches(x, args), args[2 * i])
           /\ n # 0 => \E i \in 1..n : TakesUnit(MergedBranches(x, args), args[2 * i])
  <1>1. PICK f : /\ f = [i \in 0..n |-> IF i = 0 THEN x ELSE MergedBranch(f[i - 1], args[2 * i])]
                 /\ MergedBranches(x, args) = f[n]
    BY MergedBranchesDef
  <1> DEFINE branches == [i \in 1..n |-> args[2 * i]]
  <1>2. f[0] = x /\ \A k \in 0..(n - 1) : f[k + 1] = MergedBranch(f[k], branches[k + 1])
    BY ONLY <1>1, n \in Nat
  <1>3. \A i \in 1..n : branches[i] = args[2 * i]
    OBVIOUS
  <1>4. \A i \in 1..n : DOMAIN branches[i] = Attributes /\ HasUnit(branches[i])
    BY <1>3
  <1> HIDE DEF branches
  <1>5. /\ SameButType(f[n], x) /\ (n # 0 => HasUnit(f[n]))
        /\ \A i \in 1..n : branches[i].kind # "literal" => Keeps(f[n], branches[i])
        /\ n # 0 => \E i \in 1..n : TakesUnit(f[n], branches[i])
    BY <1>1, <1>2, <1>4, MergingIs
  <1> QED BY <1>1, <1>3, <1>5

(***************************************************************************)
(* COALESCE has the type of its first argument, or is a number.             *)
(***************************************************************************)
LEMMA CoalescedDef ==
    ASSUME NEW like, NEW args, NEW n \in Nat \ {0}, n = Len(args)
    PROVE  \E f : /\ f = [i \in 1..n |-> IF i = 1 THEN like ELSE CoalesceStep(f[i - 1], args[i])]
                  /\ Coalesced(like, args) = f[n]
  <1> DEFINE Unfolds(f, k) == f = [i \in 1..k |-> IF i = 1 THEN like
                                                  ELSE CoalesceStep(f[i - 1], args[i])]
             S == {k \in 1..n : \E f : Unfolds(f, k)}
  <1>1. 1 \in S
    <2>1. Unfolds([i \in 1..1 |-> like], 1)
      OBVIOUS
    <2>2. \E f : Unfolds(f, 1)
      <3> HIDE DEF Unfolds
      <3> QED BY <2>1
    <2> QED BY <2>2
  <1>2. ASSUME NEW k \in 1..(n - 1), k \in S PROVE k + 1 \in S
    <2>1. PICK f : Unfolds(f, k)
      BY <1>2
    <2> DEFINE g == [i \in 1..(k + 1) |-> IF i = k + 1 THEN CoalesceStep(f[k], args[k + 1])
                                          ELSE f[i]]
    <2>2. Unfolds(g, k + 1)
      <3> SUFFICES ASSUME NEW i \in 1..(k + 1)
                   PROVE  g[i] = IF i = 1 THEN like ELSE CoalesceStep(g[i - 1], args[i])
        OBVIOUS
      <3>1. CASE i = k + 1
        BY <3>1
      <3>2. CASE i # k + 1
        BY <2>1, <3>2
      <3> QED BY <3>1, <3>2
    <2>3. \E h : Unfolds(h, k + 1)
      <3> HIDE DEF Unfolds, g
      <3> QED BY <2>2
    <2> QED BY <2>3
  <1>3. n \in S
    <2> HIDE DEF S
    <2>1. \A i \in 1..n : i \in S
      BY <1>1, <1>2, UpTo
    <2> QED BY <2>1
  <1>4. PICK f : Unfolds(f, n)
    BY <1>3
  <1> DEFINE g == CHOOSE h : Unfolds(h, n)
  <1>5. Unfolds(g, n)
    BY <1>4
  <1>6. Coalesced(like, args) = g[n]
    BY DEF Coalesced
  <1> QED BY <1>5, <1>6

LEMMA CoalesceStepIs ==
    ASSUME NEW target, DOMAIN target = Attributes, HasUnit(target), NEW argument,
           Valid(CoalesceStep(target, argument))
    PROVE  LET y == CoalesceStep(target, argument)
           IN  /\ SameButType(y, target) /\ HasUnit(y)
               /\ y.type = "number" \/ SameType(y, target)
               /\ y.type = "number" <=> "number" \in {target.type, argument.type}
               /\ Valid(target)
  <1> DEFINE y == CoalesceStep(target, argument)
             n == TypedAs(target, "number", 0, 0)
  <1>1. Valid(target) /\ y \in {target, n}
    BY DEF CoalesceStep, Valid, Invalid, Blank
  <1>2. "number" \in PlanTypes
    BY DEF PlanTypes
  <1>3. SameButType(n, target) /\ HasUnit(n) /\ n.type = "number"
    BY <1>2, Typed, NumberUnit
  <1>4. SameButType(target, target) /\ SameType(target, target)
    BY DEF SameButType, SameType
  <1>5. y = IF "number" \in {target.type, argument.type} THEN n ELSE target
    BY InvalidIs DEF CoalesceStep
  <1> HIDE DEF y, n
  <1>6. /\ SameButType(y, target) /\ HasUnit(y) /\ (y.type = "number" \/ SameType(y, target))
        /\ y.type = "number" <=> "number" \in {target.type, argument.type}
    BY <1>1, <1>3, <1>4, <1>5
  <1> QED BY <1>1, <1>6 DEF y

LEMMA CoalescedIs ==
    ASSUME NEW like, DOMAIN like = Attributes, HasUnit(like),
           NEW args, NEW n \in Nat \ {0}, n = Len(args), Valid(Coalesced(like, args))
    PROVE  /\ SameButType(Coalesced(like, args), like) /\ HasUnit(Coalesced(like, args))
           /\ Coalesced(like, args).type = "number" \/ SameType(Coalesced(like, args), like)
           /\ Coalesced(like, args).type = "number"
                  <=> like.type = "number" \/ \E i \in 2..n : args[i].type = "number"
  <1>1. PICK f : /\ f = [i \in 1..n |-> IF i = 1 THEN like ELSE CoalesceStep(f[i - 1], args[i])]
                 /\ Coalesced(like, args) = f[n]
    BY CoalescedDef
  <1>2. f[1] = like /\ \A k \in 1..(n - 1) : f[k + 1] = CoalesceStep(f[k], args[k + 1])
    BY ONLY <1>1, n \in Nat \ {0}
  <1> DEFINE Joins(x) == /\ SameButType(x, like) /\ HasUnit(x)
                         /\ x.type = "number" \/ SameType(x, like)
             Numbers(k) == like.type = "number" \/ \E i \in 2..k : args[i].type = "number"
             S == {k \in 1..n : Valid(f[k]) => /\ Joins(f[k])
                                               /\ f[k].type = "number" <=> Numbers(k)}
  <1>3. 1 \in S
    <2>1. Joins(like)
      BY DEF SameButType, SameType
    <2>2. 2..1 = {}
      OBVIOUS
    <2> HIDE DEF Joins
    <2> QED BY <1>2, <2>1, <2>2
  <1>4. ASSUME NEW k \in 1..(n - 1), k \in S PROVE k + 1 \in S
    <2>1. k + 1 \in 1..n
      BY ONLY n \in Nat, k \in 1..(n - 1)
    <2>2. f[k + 1] = CoalesceStep(f[k], args[k + 1])
      BY <1>2
    <2> SUFFICES ASSUME Valid(f[k + 1])
                 PROVE  Joins(f[k + 1]) /\ (f[k + 1].type = "number" <=> Numbers(k + 1))
      BY <2>1
    <2>3. Valid(f[k])
      BY <2>2 DEF CoalesceStep, Valid, Invalid, Blank
    <2>4. Joins(f[k]) /\ (f[k].type = "number" <=> Numbers(k))
      <3> HIDE DEF Joins, Numbers
      <3> QED BY <1>4, <2>3
    <2>5. DOMAIN f[k] = Attributes /\ HasUnit(f[k])
      BY <2>4 DEF SameButType
    <2>6. /\ SameButType(f[k + 1], f[k]) /\ HasUnit(f[k + 1])
          /\ f[k + 1].type = "number" \/ SameType(f[k + 1], f[k])
          /\ f[k + 1].type = "number" <=> "number" \in {f[k].type, args[k + 1].type}
      BY <2>2, <2>5, CoalesceStepIs
    <2>7. Joins(f[k + 1])
      BY <2>4, <2>6 DEF SameButType, SameType
    <2>8. 2..(k + 1) = 2..k \cup {k + 1}
      BY ONLY <2>1, n \in Nat, k \in 1..(n - 1)
    <2>9. Numbers(k + 1) <=> Numbers(k) \/ args[k + 1].type = "number"
      BY <2>8
    <2> HIDE DEF Joins, Numbers
    <2> QED BY <2>4, <2>6, <2>7, <2>9
  <1>5. n \in S
    <2> HIDE DEF S
    <2>1. \A i \in 1..n : i \in S
      BY <1>3, <1>4, UpTo
    <2> QED BY <2>1
  <1> HIDE DEF Joins, Numbers
  <1>6. Joins(Coalesced(like, args)) /\ (Coalesced(like, args).type = "number" <=> Numbers(n))
    <2>1. Valid(f[n])
      BY <1>1
    <2>2. Joins(f[n]) /\ (f[n].type = "number" <=> Numbers(n))
      BY <1>5, <2>1
    <2> QED BY <1>1, <2>2
  <1> QED BY <1>6 DEF Joins, Numbers

-----------------------------------------------------------------------------
(***************************************************************************)
(* Soundness of a compiled expression in a scope: it has a unit, and every  *)
(* column, measure and equality the walks find in it names aliases of the   *)
(* scope and columns of their objects.                                      *)
(***************************************************************************)
InScope(context, ref) ==
    /\ ref.alias \in DOMAIN context.aliases
    /\ ref.field \in ColumnsOf(context.aliases[ref.alias])

Reaches(context, x) ==
    /\ \A ref \in x.refs : InScope(context, ref)
    /\ \A m \in x.measures : m.aliases \subseteq DOMAIN context.aliases
    /\ \A eq \in x.eqs : InScope(context, eq.left) /\ InScope(context, eq.right)
    /\ x.required \subseteq x.eqs

Sound(context, x) ==
    /\ DOMAIN x = Attributes
    /\ HasUnit(x)
    /\ Reaches(context, x)
    /\ x.kind = "field" => [alias |-> x.alias, field |-> x.field] \in x.refs

IsOperands(args, n) == n \in Nat /\ DOMAIN args = 1..n /\ Len(args) = n

LEMMA OverReaches ==
    ASSUME NEW context, NEW x, DOMAIN x = Attributes, Reaches(context, x),
           NEW args, \A i \in DOMAIN args : Reaches(context, args[i])
    PROVE  Reaches(context, Over(x, args))
  <1> DEFINE y == Over(x, args)
  <1>1. /\ y.required = x.required
        /\ y.refs = x.refs \cup UNION {args[i].refs : i \in DOMAIN args}
        /\ y.measures = x.measures \cup UNION {args[i].measures : i \in DOMAIN args}
        /\ y.eqs = x.eqs \cup UNION {args[i].eqs : i \in DOMAIN args}
    BY OverIs
  <1> HIDE DEF y
  <1>2. /\ \A ref \in y.refs : InScope(context, ref)
        /\ \A m \in y.measures : m.aliases \subseteq DOMAIN context.aliases
        /\ \A eq \in y.eqs : InScope(context, eq.left) /\ InScope(context, eq.right)
        /\ y.required \subseteq y.eqs
    BY <1>1 DEF Reaches
  <1> QED BY <1>2 DEF y, Reaches

LEMMA ReachesAlike ==
    ASSUME NEW context, NEW x, Reaches(context, x), NEW y, SameButType(y, x)
    PROVE  Reaches(context, y)
  BY DEF Reaches, SameButType

\* A fresh node: no column and no measure yet.
Fresh(x) ==
    /\ DOMAIN x = Attributes
    /\ x.refs = {} /\ x.measures = {} /\ x.eqs = {} /\ x.required = {}

LEMMA FreshReaches ==
    ASSUME NEW context, NEW x, Fresh(x)
    PROVE  Reaches(context, x)
  BY DEF Reaches, Fresh

\* Any node of the compiler, without its type, over operands in the scope.
LEMMA NodeReaches ==
    ASSUME NEW context, NEW x, Fresh(x), x.kind # "field",
           NEW args, \A i \in DOMAIN args : Reaches(context, args[i]),
           NEW y, SameButType(y, Over(x, args)), HasUnit(y)
    PROVE  Sound(context, y) /\ y.kind = x.kind
  <1>1. Reaches(context, Over(x, args)) /\ Over(x, args).kind = x.kind
    BY FreshReaches, OverReaches, OverIs DEF Fresh
  <1> QED BY <1>1, ReachesAlike DEF Sound, SameButType

-----------------------------------------------------------------------------
(***************************************************************************)
(* Leaves.                                                                  *)
(***************************************************************************)
LEMMA ColumnSound ==
    ASSUME NEW context, IsScope(context), NEW alias, NEW key,
           Valid(CompileColumn(context, alias, key))
    PROVE  LET y == CompileColumn(context, alias, key)
           IN  Sound(context, y) /\ y.kind = "field"
  <1> DEFINE y == CompileColumn(context, alias, key)
             object == context.aliases[alias]
             type == FieldType(FieldOf(object, key))
             ref == [alias |-> alias, field |-> key]
             x == [Blank EXCEPT !.kind = "field", !.alias = alias, !.field = key, !.refs = {ref}]
  <1>1. alias \in DOMAIN context.aliases /\ key \in ColumnsOf(object)
    BY Zenon, InvalidIs DEF CompileColumn
  <1>2. y = Require(type.type # "", TypedLike(x, type))
    BY Zenon, <1>1 DEF CompileColumn
  <1>3. type.type # "" /\ y = TypedLike(x, type)
    <2>1. Valid(y)
      OBVIOUS
    <2> HIDE DEF x, type, y
    <2> QED BY <1>2, <2>1, Requires
  <1>4. HasUnit(type)
    <2>1. object \in Objects
      BY <1>1 DEF IsScope
    <2>2. FieldOf(object, key) \in PublishedFields
      BY <1>1, <2>1 DEF PublishedFields
    <2> QED BY <1>3, <2>2, FieldTypeIs
  <1>5. /\ DOMAIN x = Attributes /\ x.kind = "field" /\ x.alias = alias /\ x.field = key
        /\ x.refs = {ref} /\ x.measures = {} /\ x.eqs = {} /\ x.required = {}
    BY DEF Blank, Attributes
  <1>6. InScope(context, ref)
    BY <1>1 DEF InScope
  <1> HIDE DEF x, type, y
  <1>7. SameButType(y, x) /\ HasUnit(y)
    BY <1>3, <1>4, <1>5, TypedAlike, SameTypeUnit
  <1>8. Reaches(context, x)
    BY <1>5, <1>6 DEF Reaches
  <1>9. Sound(context, y) /\ y.kind = "field"
    BY <1>5, <1>7, <1>8, ReachesAlike DEF Sound, SameButType
  <1> QED BY <1>9 DEF y

LEMMA ParameterSound ==
    ASSUME NEW context, IsScope(context), NEW name, Valid(CompileParameter(context, name))
    PROVE  LET y == CompileParameter(context, name)
           IN  Sound(context, y) /\ y.kind = "parameter"
  <1> DEFINE y == CompileParameter(context, name)
             type == context.parameters[name]
             x == [Blank EXCEPT !.kind = "parameter", !.name = name, !.type = type]
  <1>1. name \in DOMAIN context.parameters /\ y = x
    BY Zenon, InvalidIs DEF CompileParameter
  <1>2. type \in PlanTypes
    BY <1>1 DEF IsScope
  <1>3. /\ Fresh(x) /\ x.kind = "parameter" /\ x.type = type
        /\ x.prec = 0 /\ x.scale = 0
    BY DEF Blank, Attributes, Fresh
  <1> HIDE DEF x, y, type
  <1>4. 0 \in Precisions
    BY NumberPrecisions
  <1>5. Sound(context, x) /\ x.kind = "parameter"
    BY <1>2, <1>3, <1>4, FreshReaches DEF Sound, HasUnit, Fresh
  <1> QED BY <1>1, <1>5 DEF y

LEMMA LiteralSound ==
    ASSUME NEW context, NEW type, NEW value, Valid(CompileLiteral(type, value))
    PROVE  LET y == CompileLiteral(type, value)
           IN  Sound(context, y) /\ y.kind = "literal" /\ y.type # "number"
  <1> DEFINE y == CompileLiteral(type, value)
             x == [Blank EXCEPT !.kind = "literal", !.value = value, !.type = type]
  <1>1. type \in {"integer", "decimal", "boolean"} /\ y = x
    BY Requires DEF CompileLiteral
  <1>2. type \in PlanTypes
    BY <1>1 DEF PlanTypes
  <1>3. /\ Fresh(x) /\ x.kind = "literal" /\ x.type = type
        /\ x.prec = 0 /\ x.scale = 0
    BY DEF Blank, Attributes, Fresh
  <1> HIDE DEF x, y
  <1>4. 0 \in Precisions
    BY NumberPrecisions
  <1>5. Sound(context, x) /\ x.kind = "literal" /\ x.type # "number"
    BY <1>1, <1>2, <1>3, <1>4, FreshReaches DEF Sound, HasUnit, Fresh
  <1> QED BY <1>1, <1>5 DEF y

LEMMA NullSound ==
    ASSUME NEW context
    PROVE  LET y == [Blank EXCEPT !.kind = "null", !.type = "null"]
           IN  Sound(context, y) /\ y.kind = "null"
  <1> DEFINE x == [Blank EXCEPT !.kind = "null", !.type = "null"]
  <1>1. /\ Fresh(x) /\ x.kind = "null" /\ x.type = "null"
        /\ x.prec = 0 /\ x.scale = 0
    BY DEF Blank, Attributes, Fresh
  <1> HIDE DEF x
  <1>2. 0 \in Precisions /\ "null" \in PlanTypes
    BY NumberPrecisions DEF PlanTypes
  <1>3. Sound(context, x) /\ x.kind = "null"
    BY <1>1, <1>2, FreshReaches DEF Sound, HasUnit, Fresh
  <1> QED BY <1>3 DEF x

-----------------------------------------------------------------------------
(***************************************************************************)
(* Operators.  KeepsUnit(y, x): money in x is money of that scale in y, a   *)
(* number is a number, and a decimal is one that keeps its scale or says    *)
(* that it has none.                                                        *)
(***************************************************************************)
KeepsUnit(y, x) ==
    /\ x.type = "currency" => y.type = "currency" /\ y.scale = x.scale
    /\ x.type = "number" => y.type = "number"
    /\ x.type = "decimal" => y.type \in {"decimal", "number"} /\ KeepsScale(y, x)

Carries(y, x) == x.kind \notin {"literal", "parameter"} => KeepsUnit(y, x)

LEMMA SameTypeKeepsUnit ==
    ASSUME NEW x, NEW y, SameType(y, x)
    PROVE  KeepsUnit(y, x)
  BY DEF SameType, KeepsUnit, KeepsScale, Scaled10

LEMMA ArithmeticIs ==
    ASSUME NEW x, DOMAIN x = Attributes, NEW op, NEW left, NEW right,
           HasUnit(left), HasUnit(right), Valid(ArithmeticType(x, op, left, right))
    PROVE  LET y == ArithmeticType(x, op, left, right)
           IN  /\ SameButType(y, x) /\ HasUnit(y)
               /\ KeepsUnit(y, left) /\ (op # "/" => KeepsUnit(y, right))
  <1> DEFINE y == ArithmeticType(x, op, left, right)
             money == MoneyArithmetic(x, op, left, right)
             number == NumberArithmetic(x, op, left, right)
  <1>0. y = Require(NumericType(left.type) /\ NumericType(right.type),
                    IF "currency" \in {left.type, right.type} THEN money ELSE number)
    BY DEF ArithmeticType
  <1>1. Valid(y)
    OBVIOUS
  <1> HIDE DEF money, number, y
  <1>2. Valid(y) /\ y = IF "currency" \in {left.type, right.type} THEN money ELSE number
    BY <1>0, <1>1, Requires
  <1>3. CASE "currency" \in {left.type, right.type}
    <2>1. y = money
      BY <1>2, <1>3
    <2>2. /\ SameButType(money, x) /\ HasUnit(money)
          /\ money.type = "currency" /\ money.scale = left.scale /\ left.type = "currency"
          /\ op # "/" => right.type = "currency" /\ right.scale = left.scale
      BY <1>2, <2>1, MoneyUnit DEF money
    <2>3. KeepsUnit(money, left) /\ (op # "/" => KeepsUnit(money, right))
      BY <2>2 DEF KeepsUnit
    <2> QED BY <2>1, <2>2, <2>3 DEF y
  <1>4. CASE "currency" \notin {left.type, right.type}
    <2>1. y = number
      BY <1>2, <1>4
    <2>2. /\ SameButType(number, x) /\ HasUnit(number)
          /\ number.type \in {"number", "decimal", "integer"}
          /\ number.type = "integer" => left.type # "decimal" /\ right.type # "decimal"
                  /\ left.type # "number" /\ right.type # "number"
          /\ "number" \in {left.type, right.type} => number.type = "number"
          /\ KeepsScale(number, left) /\ KeepsScale(number, right)
      BY NumberIs DEF number
    <2>3. KeepsUnit(number, left) /\ KeepsUnit(number, right)
      BY <1>4, <2>2 DEF KeepsUnit
    <2> QED BY <2>1, <2>2, <2>3 DEF y
  <1> QED BY <1>3, <1>4

LEMMA BinarySound ==
    ASSUME NEW context, NEW op, NEW left, NEW right, Sound(context, left), Sound(context, right),
           Valid(CompileBinary(op, left, right))
    PROVE  LET y == CompileBinary(op, left, right)
           IN  /\ Sound(context, y) /\ y.kind = "binary"
               /\ Carries(y, left) /\ (op # "/" => Carries(y, right))
  <1> DEFINE l == IF op = "/" THEN left ELSE CoercedTo(right, left)
             r == IF op = "/" THEN right ELSE CoercedTo(left, right)
             b == [Blank EXCEPT !.kind = "binary", !.op = op]
             x == Over(b, <<l, r>>)
             y == CompileBinary(op, left, right)
  <1>1. y = Require(op \in {"+", "-", "*", "/"}, ArithmeticType(x, op, l, r))
    BY DEF CompileBinary
  <1>2. Valid(y)
    OBVIOUS
  <1>3. Fresh(b) /\ b.kind = "binary"
    BY DEF Blank, Attributes, Fresh
  <1>4. /\ SameButType(l, left) /\ HasUnit(l) /\ (l = left \/ left.kind \in {"literal", "parameter"})
        /\ SameButType(r, right) /\ HasUnit(r) /\ (r = right \/ right.kind \in {"literal", "parameter"})
    <2>1. /\ SameButType(left, left) /\ SameButType(right, right)
          /\ HasUnit(left) /\ HasUnit(right)
          /\ DOMAIN left = Attributes /\ DOMAIN right = Attributes
      BY DEF Sound, SameButType
    <2>2. CASE op = "/"
      BY <2>1, <2>2
    <2>3. CASE op # "/"
      BY <2>1, <2>3, CoercedIs
    <2> QED BY <2>2, <2>3
  <1> HIDE DEF l, r, b, y
  <1>5. Reaches(context, l) /\ Reaches(context, r)
    BY <1>4, ReachesAlike DEF Sound
  <1>6. /\ DOMAIN <<l, r>> = {1, 2} /\ <<l, r>>[1] = l /\ <<l, r>>[2] = r
    OBVIOUS
  <1>7. DOMAIN x = Attributes
    BY <1>3, OverIs DEF Fresh
  <1>8. y = ArithmeticType(x, op, l, r) /\ Valid(ArithmeticType(x, op, l, r))
    <2> HIDE DEF x
    <2> QED BY <1>1, <1>2, Requires
  <1>9. /\ SameButType(y, x) /\ HasUnit(y)
        /\ KeepsUnit(y, l) /\ (op # "/" => KeepsUnit(y, r))
    <2> HIDE DEF x
    <2> QED BY <1>4, <1>7, <1>8, ArithmeticIs
  <1>10. Sound(context, y) /\ y.kind = "binary"
    <2> DEFINE args == <<l, r>>
    <2>1. \A i \in DOMAIN args : Reaches(context, args[i])
      BY <1>5, <1>6
    <2>2. SameButType(y, Over(b, args))
      BY <1>9
    <2> HIDE DEF args, x
    <2> QED BY <1>3, <1>9, <2>1, <2>2, NodeReaches
  <1>11. Carries(y, left) /\ (op # "/" => Carries(y, right))
    BY <1>4, <1>9 DEF Carries
  <1> QED BY <1>10, <1>11 DEF y

LEMMA UnarySound ==
    ASSUME NEW context, NEW op, NEW operand, Sound(context, operand),
           Valid(CompileUnary(op, operand))
    PROVE  LET y == CompileUnary(op, operand)
           IN  Sound(context, y) /\ y.kind = "unary" /\ KeepsUnit(y, operand)
  <1> DEFINE b == [Blank EXCEPT !.kind = "unary", !.op = op]
             args == <<operand>>
             x == Over(b, args)
             y == CompileUnary(op, operand)
  <1>1. y = TypedLike(x, operand)
    BY Requires DEF CompileUnary
  <1>2. Fresh(b) /\ b.kind = "unary"
    BY DEF Blank, Attributes, Fresh
  <1>3. \A i \in DOMAIN args : Reaches(context, args[i])
    BY DEF Sound
  <1>4. HasUnit(operand)
    BY DEF Sound
  <1> HIDE DEF b, y, args
  <1>5. DOMAIN x = Attributes
    BY <1>2, OverIs DEF Fresh
  <1> HIDE DEF x
  <1>6. SameButType(y, x) /\ SameType(y, operand) /\ HasUnit(y)
    BY <1>1, <1>4, <1>5, TypedAlike, SameTypeUnit
  <1>7. Sound(context, y) /\ y.kind = "unary"
    BY <1>2, <1>3, <1>6, NodeReaches DEF x
  <1>8. KeepsUnit(y, operand)
    BY <1>6, SameTypeKeepsUnit
  <1> QED BY <1>7, <1>8 DEF y

LeafKinds == {"field", "parameter", "literal", "result"}

LEMMA NotLeaves ==
    /\ "comparison" \notin LeafKinds /\ "logical" \notin LeafKinds
    /\ "between" \notin LeafKinds /\ "is" \notin LeafKinds /\ "not" \notin LeafKinds
  BY DEF LeafKinds

EqsOf(args) == UNION {args[i].eqs : i \in DOMAIN args}

LEMMA BooleanSound ==
    ASSUME NEW context, NEW kind, kind \notin LeafKinds, NEW op,
           NEW args, \A i \in DOMAIN args : Reaches(context, args[i]),
           NEW y, y = Boolean(kind, op, args)
    PROVE  /\ Sound(context, y) /\ y.kind \notin LeafKinds /\ y.type = "boolean"
           /\ y.required = {} /\ y.eqs = EqsOf(args)
  <1> DEFINE b == [Blank EXCEPT !.kind = kind, !.op = op, !.type = "boolean"]
  <1>0. y = Over(b, args)
    BY DEF Boolean
  <1>1. /\ Fresh(b) /\ b.kind = kind
        /\ b.type = "boolean" /\ b.prec = 0 /\ b.scale = 0
    BY DEF Blank, Attributes, Fresh
  <1> HIDE DEF b
  <1>2. /\ DOMAIN y = Attributes /\ SameType(y, b) /\ y.kind = kind
        /\ y.required = {} /\ y.eqs = EqsOf(args)
    BY <1>0, <1>1, OverIs DEF Fresh, EqsOf
  <1>3. 0 \in Precisions /\ "boolean" \in PlanTypes
    BY NumberPrecisions DEF PlanTypes
  <1>4. HasUnit(b)
    BY <1>1, <1>3 DEF HasUnit
  <1>5. HasUnit(y) /\ SameButType(y, Over(b, args))
    BY <1>0, <1>2, <1>4, SameTypeUnit DEF SameButType
  <1>6. Sound(context, y)
    BY <1>1, <1>5, NodeReaches DEF LeafKinds
  <1>7. y.type = "boolean"
    BY <1>1, <1>2 DEF SameType
  <1> QED BY <1>1, <1>2, <1>6, <1>7

LEMMA ComparisonSound ==
    ASSUME NEW context, NEW op, NEW left, NEW right, Sound(context, left), Sound(context, right),
           Valid(CompileComparison(op, left, right))
    PROVE  LET y == CompileComparison(op, left, right)
           IN  Sound(context, y) /\ y.kind \notin LeafKinds
  <1> DEFINE column(z) == [alias |-> z.alias, field |-> z.field]
             eqs == IF op = "=" /\ left.kind = "field" /\ right.kind = "field"
                    THEN {[left |-> column(left), right |-> column(right)]} ELSE {}
             l == CoercedTo(right, left)
             r == CoercedTo(left, right)
             args == <<l, r>>
             x == Boolean("comparison", op, args)
             y == CompileComparison(op, left, right)
             z == [x EXCEPT !.eqs = @ \cup eqs, !.required = eqs]
  <1>1. y = z
    <2>1. \E condition : y = Require(condition, z)
      BY Zenon DEF CompileComparison
    <2>2. Valid(y)
      OBVIOUS
    <2> HIDE DEF y, z
    <2> QED BY <2>1, <2>2, Requires
  <1>2. /\ HasUnit(left) /\ HasUnit(right)
        /\ DOMAIN left = Attributes /\ DOMAIN right = Attributes
        /\ Reaches(context, left) /\ Reaches(context, right)
    BY DEF Sound
  <1>3. Reaches(context, l) /\ Reaches(context, r)
    BY <1>2, CoercedIs, ReachesAlike
  <1>4. \A i \in DOMAIN args : Reaches(context, args[i])
    <2> HIDE DEF l, r
    <2> QED BY <1>3
  <1>5. ASSUME NEW eq \in eqs PROVE InScope(context, eq.left) /\ InScope(context, eq.right)
    <2>1. /\ left.kind = "field" /\ right.kind = "field"
          /\ eq.left = column(left) /\ eq.right = column(right)
      BY <1>5
    <2>2. column(left) \in left.refs /\ column(right) \in right.refs
      BY <2>1 DEF Sound
    <2> QED BY <1>2, <2>1, <2>2 DEF Reaches
  <1> HIDE DEF eqs, args, y
  <1>6. Sound(context, x) /\ x.kind \notin LeafKinds
    BY <1>4, NotLeaves, BooleanSound
  <1> HIDE DEF x
  <1>7. DOMAIN x = Attributes
    BY <1>6 DEF Sound
  <1>8. /\ DOMAIN z = Attributes /\ SameType(z, x) /\ z.kind = x.kind
        /\ z.refs = x.refs /\ z.measures = x.measures
        /\ z.eqs = x.eqs \cup eqs /\ z.required = eqs
    BY <1>7 DEF SameType, Attributes
  <1> HIDE DEF z
  <1>9. HasUnit(z)
    BY <1>6, <1>8, SameTypeUnit DEF Sound
  <1>10. Reaches(context, z)
    BY <1>5, <1>6, <1>8 DEF Sound, Reaches
  <1>11. Sound(context, z) /\ z.kind \notin LeafKinds
    BY <1>6, <1>8, <1>9, <1>10 DEF Sound, LeafKinds
  <1> QED BY <1>1, <1>11 DEF y

LEMMA LogicalSound ==
    ASSUME NEW context, NEW op, NEW left, NEW right, Sound(context, left), Sound(context, right),
           Valid(CompileLogical(op, left, right))
    PROVE  LET y == CompileLogical(op, left, right)
           IN  Sound(context, y) /\ y.kind \notin LeafKinds
  <1> DEFINE required == IF op = "and" THEN left.required \cup right.required ELSE {}
             args == <<left, right>>
             x == Boolean("logical", op, args)
             z == [x EXCEPT !.required = required]
             y == CompileLogical(op, left, right)
  <1>1. y = z
    <2>1. \E condition : y = Require(condition, z)
      BY Zenon DEF CompileLogical
    <2>2. Valid(y)
      OBVIOUS
    <2> HIDE DEF y, z
    <2> QED BY <2>1, <2>2, Requires
  <1>2. \A i \in DOMAIN args : Reaches(context, args[i])
    BY DEF Sound
  <1>3. left.eqs \cup right.eqs = EqsOf(args)
    <2>1. DOMAIN args = {1, 2} /\ args[1] = left /\ args[2] = right
      OBVIOUS
    <2> HIDE DEF args
    <2> QED BY <2>1 DEF EqsOf
  <1>4. required \subseteq left.eqs \cup right.eqs
    BY DEF Sound, Reaches
  <1> HIDE DEF required, args, y
  <1>5. /\ Sound(context, x) /\ x.kind \notin LeafKinds
        /\ x.eqs = EqsOf(args)
    <2>1. PICK kind : kind = "logical"
      OBVIOUS
    <2>2. x = Boolean(kind, op, args) /\ kind \notin LeafKinds
      BY <2>1, NotLeaves
    <2> HIDE DEF x
    <2> QED BY <1>2, <2>2, BooleanSound
  <1> HIDE DEF x
  <1>6. DOMAIN x = Attributes
    BY <1>5 DEF Sound
  <1>7. /\ DOMAIN z = Attributes /\ SameType(z, x) /\ z.kind = x.kind
        /\ z.refs = x.refs /\ z.measures = x.measures
        /\ z.eqs = x.eqs /\ z.required = required
    BY <1>6 DEF SameType, Attributes
  <1> HIDE DEF z
  <1>8. HasUnit(z)
    BY <1>5, <1>7, SameTypeUnit DEF Sound
  <1>9. Reaches(context, z)
    BY <1>3, <1>4, <1>5, <1>7 DEF Sound, Reaches
  <1>10. Sound(context, z) /\ z.kind \notin LeafKinds
    BY <1>5, <1>7, <1>8, <1>9 DEF Sound, LeafKinds
  <1> QED BY <1>1, <1>10 DEF y

LEMMA OtherBooleansSound ==
    ASSUME NEW context, NEW op, NEW args, \A i \in DOMAIN args : Sound(context, args[i])
    PROVE  /\ Valid(CompileBetween(op, args)) =>
                  Sound(context, CompileBetween(op, args)) /\ CompileBetween(op, args).kind \notin LeafKinds
           /\ \A x : Sound(context, x) /\ Valid(CompileIs(op, x)) =>
                  Sound(context, CompileIs(op, x)) /\ CompileIs(op, x).kind \notin LeafKinds
           /\ \A x : Sound(context, x) /\ Valid(CompileNot(x)) =>
                  Sound(context, CompileNot(x)) /\ CompileNot(x).kind \notin LeafKinds
  <1>1. \A i \in DOMAIN args : Reaches(context, args[i])
    BY DEF Sound
  <1>2. ASSUME Valid(CompileBetween(op, args))
        PROVE  Sound(context, CompileBetween(op, args)) /\ CompileBetween(op, args).kind \notin LeafKinds
    <2>1. CompileBetween(op, args) = Boolean("between", op, args)
      BY <1>2, Requires DEF CompileBetween
    <2> QED BY <1>1, <2>1, NotLeaves, BooleanSound
  <1>3. ASSUME NEW x, Sound(context, x), Valid(CompileIs(op, x))
        PROVE  Sound(context, CompileIs(op, x)) /\ CompileIs(op, x).kind \notin LeafKinds
    <2>0. PICK single, kind : single = <<x>> /\ kind = "is"
      OBVIOUS
    <2>1. CompileIs(op, x) = Boolean(kind, op, single)
      BY <1>3, <2>0, Requires DEF CompileIs
    <2>2. \A i \in DOMAIN single : Reaches(context, single[i])
      BY <1>3, <2>0 DEF Sound
    <2>3. kind \notin LeafKinds
      BY <2>0, NotLeaves
    <2> QED BY <2>1, <2>2, <2>3, BooleanSound
  <1>4. ASSUME NEW x, Sound(context, x), Valid(CompileNot(x))
        PROVE  Sound(context, CompileNot(x)) /\ CompileNot(x).kind \notin LeafKinds
    <2>0. PICK single, kind : single = <<x>> /\ kind = "not"
      OBVIOUS
    <2> DEFINE empty == ""
    <2>1. CompileNot(x) = Boolean(kind, empty, single)
      BY <1>4, <2>0, Requires DEF CompileNot
    <2> HIDE DEF empty
    <2>2. \A i \in DOMAIN single : Reaches(context, single[i])
      BY <1>4, <2>0 DEF Sound
    <2>3. kind \notin LeafKinds
      BY <2>0, NotLeaves
    <2> QED BY <2>1, <2>2, <2>3, BooleanSound
  <1> QED BY <1>2, <1>3, <1>4

LEMMA HalfIs ==
    ASSUME NEW n \in Nat
    PROVE  /\ n \div 2 \in Nat
           /\ \A i \in 1..(n \div 2) : 2 * i \in 1..n
           /\ \A i \in 1..n : i % 2 = 0 => \E j \in 1..(n \div 2) : i = 2 * j
  <1>1. ASSUME NEW i \in 1..n, i % 2 = 0 PROVE \E j \in 1..(n \div 2) : i = 2 * j
    <2>1. i \div 2 \in 1..(n \div 2) /\ i = 2 * (i \div 2)
      BY <1>1
    <2> QED BY <2>1
  <1> QED BY <1>1

LEMMA CaseSound ==
    ASSUME NEW context, NEW n \in Nat, NEW args, IsOperands(args, n),
           \A i \in 1..n : Sound(context, args[i]),
           NEW y, y = CompileCase(args), Valid(y)
    PROVE  /\ Sound(context, y) /\ y.kind = "case"
           /\ \A i \in 1..n : (i % 2 = 0 \/ i = n) /\ args[i].kind # "literal" =>
                  Keeps(y, args[i])
           /\ \E i \in 1..n : (i % 2 = 0 \/ i = n) /\ TakesUnit(y, args[i])
  <1> DEFINE b == [Blank EXCEPT !.kind = "case"]
             x == Over(b, args)
             m == MergedBranches(x, args)
             e == MergedBranch(m, args[n])
  <1>1. /\ Fresh(b) /\ b.kind = "case" /\ b.type = ""
    BY DEF Blank, Attributes, Fresh
  <1> HIDE DEF b
  <1>2. /\ DOMAIN x = Attributes /\ x.type = ""
    BY <1>1, OverIs DEF Fresh, SameType
  <1>3. PICK half : half \in Nat /\ half = n \div 2
    BY HalfIs
  <1>4. /\ \A i \in 1..half : 2 * i \in 1..n
        /\ \A i \in 1..n : i % 2 = 0 => \E j \in 1..half : i = 2 * j
    BY <1>3, HalfIs
  <1>5. half > 0 /\ y = IF n % 2 = 1 THEN e ELSE m
    <2> HIDE DEF e, m, x
    <2>1. \E condition : y = Require(half > 0 /\ condition, IF n % 2 = 1 THEN e ELSE m)
      BY <1>3 DEF CompileCase, IsOperands, e, m, x, b
    <2> QED BY <2>1, Requires
  <1>6. \A i \in 1..n : DOMAIN args[i] = Attributes /\ HasUnit(args[i])
    BY DEF Sound
  <1>7. \A i \in 1..half : DOMAIN args[2 * i] = Attributes /\ HasUnit(args[2 * i])
    BY <1>4, <1>6
  <1>8. Len(args) = n
    BY DEF IsOperands
  <1> HIDE DEF x
  <1>9. Valid(m) => /\ SameButType(m, x) /\ HasUnit(m)
                    /\ \A i \in 1..half :
                           args[2 * i].kind # "literal" => Keeps(m, args[2 * i])
                    /\ \E i \in 1..half : TakesUnit(m, args[2 * i])
    <2> SUFFICES ASSUME Valid(m)
                 PROVE  /\ SameButType(m, x) /\ HasUnit(m)
                        /\ \A i \in 1..half :
                               args[2 * i].kind # "literal" => Keeps(m, args[2 * i])
                        /\ \E i \in 1..half : TakesUnit(m, args[2 * i])
      OBVIOUS
    <2>1. half \in Nat /\ half = Len(args) \div 2 /\ Len(args) \in Nat /\ half # 0
      BY <1>3, <1>5, <1>8
    <2> QED BY <1>2, <1>7, <2>1, MergedBranchesIs
  <1> HIDE DEF m
  <1>10. /\ SameButType(y, x) /\ HasUnit(y)
         /\ Valid(m)
         /\ y = m \/ /\ Keeps(y, m) /\ (args[n].kind # "literal" => Keeps(y, args[n]))
                     /\ n \in 1..n /\ (TakesUnit(y, m) \/ TakesUnit(y, args[n]))
         /\ n % 2 = 1 => y = e
    <2>1. CASE n % 2 = 1
      <3>1. Valid(e) /\ y = e
        BY <1>5, <2>1
      <3>2. n \in 1..n
        BY <2>1
      <3>3. Valid(m) => MergeTarget(m)
        BY <1>9 DEF MergeTarget, SameButType
      <3>4. /\ Valid(m) /\ SameButType(e, m) /\ HasUnit(e) /\ Keeps(e, m)
            /\ args[n].kind # "literal" => Keeps(e, args[n])
            /\ TakesUnit(e, m) \/ TakesUnit(e, args[n])
        <4> DEFINE branch == args[n]
        <4>1. DOMAIN branch = Attributes /\ HasUnit(branch)
          BY <1>6, <3>2
        <4> HIDE DEF branch
        <4>2. e = MergedBranch(m, branch)
          BY DEF branch
        <4> HIDE DEF e
        <4>3. /\ Valid(m) /\ SameButType(e, m) /\ HasUnit(e) /\ Keeps(e, m)
              /\ branch.kind # "literal" => Keeps(e, branch)
              /\ TakesUnit(e, m) \/ TakesUnit(e, branch)
          BY <3>1, <3>3, <4>1, <4>2, MergedBranchIs
        <4> QED BY <4>3 DEF branch
      <3> HIDE DEF e
      <3> QED BY <1>9, <3>1, <3>2, <3>4 DEF SameButType
    <2>2. CASE n % 2 # 1
      BY <1>5, <1>9, <2>2
    <2> QED BY <2>1, <2>2
  <1> HIDE DEF e
  <1>11. \A i \in 1..half : args[2 * i].kind # "literal" => Keeps(y, args[2 * i])
    BY <1>9, <1>10, KeepsThrough
  <1>12. ASSUME NEW i \in 1..n, i % 2 = 0 \/ i = n, args[i].kind # "literal"
         PROVE  Keeps(y, args[i])
    <2>1. CASE i % 2 = 0
      <3>1. PICK j \in 1..half : i = 2 * j
        BY <1>4, <2>1
      <3> QED BY <1>11, <1>12, <3>1
    <2>2. CASE i = n /\ n % 2 = 1
      <3> DEFINE branch == args[n]
      <3>1. branch.kind # "literal" => Keeps(e, branch)
        <4>1. Valid(e)
          BY <1>10, <2>2
        <4>2. Valid(m) => MergeTarget(m)
          BY <1>9 DEF MergeTarget, SameButType
        <4>3. DOMAIN branch = Attributes /\ HasUnit(branch)
          BY <1>6, <2>2
        <4>4. e = MergedBranch(m, branch)
          BY DEF e
        <4> HIDE DEF branch
        <4> QED BY <4>1, <4>2, <4>3, <4>4, MergedBranchIs
      <3> QED BY <1>10, <1>12, <2>2, <3>1
    <2> QED BY <1>12, <2>1, <2>2
  <1>13. \A i \in DOMAIN args : Reaches(context, args[i])
    BY DEF Sound, IsOperands
  <1>14. Sound(context, y) /\ y.kind = "case"
    BY <1>1, <1>10, <1>13, NodeReaches DEF x
  <1>15. \E i \in 1..n : (i % 2 = 0 \/ i = n) /\ TakesUnit(y, args[i])
    <2>1. PICK j \in 1..half : TakesUnit(m, args[2 * j])
      BY <1>9, <1>10
    <2>2. 2 * j \in 1..n /\ (2 * j) % 2 = 0
      <3>1. half \in Nat
        BY <1>3
      <3>2. (2 * j) % 2 = 0
        BY ONLY <3>1, j \in 1..half
      <3> QED BY <1>4, <3>2
    <2>3. TakesUnit(y, m) => TakesUnit(y, args[2 * j])
      BY <2>1, TakesThrough
    <2>4. TakesUnit(m, m)
      BY DEF TakesUnit, SameType
    <2>5. TakesUnit(y, m) \/ (n \in 1..n /\ TakesUnit(y, args[n]))
      BY <1>10, <2>4
    <2> QED BY <2>2, <2>3, <2>5
  <1> QED BY <1>12, <1>14, <1>15

-----------------------------------------------------------------------------
(***************************************************************************)
(* Functions, by the names the registry accepts.                            *)
(***************************************************************************)
FunctionArm(name, args, x, like, y) ==
    \/ name = "coalesce" /\ Len(args) \in 2..8 /\ y = Coalesced(like, args)
    \/ name = "nullif" /\ Len(args) = 2 /\ \E c : y = Require(c, like)
    \/ name = "round" /\ Len(args) \in 1..2 /\ \E c : y = Require(c, like)
    \/ name = "floor" /\ Len(args) = 1 /\ \E c : y = Require(c, FloorType(like))
    \/ name = "contains" /\ Len(args) = 2 /\ \E c : y = Require(c, TypedAs(x, "boolean", 0, 0))
    \/ y = Invalid

LEMMA FunctionArms ==
    ASSUME NEW context, NEW name, NEW args, NEW y, y = CompileFunction(context, name, args),
           NEW x, x = Over([Blank EXCEPT !.kind = "function", !.name = name], args),
           NEW like, like = TypedLike(x, args[1])
    PROVE  FunctionArm(name, args, x, like, y)
  <1> DEFINE coalesce == name = "coalesce" /\ Len(args) \in 2..8
             nullif == name = "nullif" /\ Len(args) = 2
             round == name = "round" /\ Len(args) \in 1..2
             floor == name = "floor" /\ Len(args) = 1
             contains == name = "contains" /\ Len(args) = 2
             textual == args[1].kind = "field"
                   /\ FieldOf(context.aliases[args[1].alias], args[1].field).type
                          \in {"text", "long_text", "email", "phone", "url"}
             same == ComparableTypes(args[1].type, args[2].type)
             numeric == NumericType(args[1].type)
             found == textual /\ args[2].kind = "parameter" /\ args[2].type = "text"
  <1>1. y = CASE coalesce -> Coalesced(like, args)
              [] nullif -> Require(same, like)
              [] round -> Require(numeric, like)
              [] floor -> Require(numeric, FloorType(like))
              [] contains -> Require(found, TypedAs(x, "boolean", 0, 0))
              [] OTHER -> Invalid
    BY Zenon DEF CompileFunction
  <1>2. /\ coalesce => name = "coalesce" /\ Len(args) \in 2..8
        /\ nullif => name = "nullif" /\ Len(args) = 2
        /\ round => name = "round" /\ Len(args) \in 1..2
        /\ floor => name = "floor" /\ Len(args) = 1
        /\ contains => name = "contains" /\ Len(args) = 2
    OBVIOUS
  <1>3. /\ coalesce => ~nullif /\ ~round /\ ~floor /\ ~contains
        /\ nullif => ~coalesce /\ ~round /\ ~floor /\ ~contains
        /\ round => ~coalesce /\ ~nullif /\ ~floor /\ ~contains
        /\ floor => ~coalesce /\ ~nullif /\ ~round /\ ~contains
        /\ contains => ~coalesce /\ ~nullif /\ ~round /\ ~floor
    OBVIOUS
  <1> HIDE DEF coalesce, nullif, round, floor, contains, same, numeric, found
  <1>4. /\ coalesce => y = Coalesced(like, args)
        /\ nullif => y = Require(same, like)
        /\ round => y = Require(numeric, like)
        /\ floor => y = Require(numeric, FloorType(like))
        /\ contains => y = Require(found, TypedAs(x, "boolean", 0, 0))
        /\ ~coalesce /\ ~nullif /\ ~round /\ ~floor /\ ~contains => y = Invalid
    <2>1. coalesce => y = Coalesced(like, args)
      BY Zenon, <1>1, <1>3
    <2>2. nullif => y = Require(same, like)
      BY Zenon, <1>1, <1>3
    <2>3. round => y = Require(numeric, like)
      BY Zenon, <1>1, <1>3
    <2>4. floor => y = Require(numeric, FloorType(like))
      BY Zenon, <1>1, <1>3
    <2>5. contains => y = Require(found, TypedAs(x, "boolean", 0, 0))
      BY Zenon, <1>1, <1>3
    <2>6. ~coalesce /\ ~nullif /\ ~round /\ ~floor /\ ~contains => y = Invalid
      BY Zenon, <1>1
    <2> QED BY <2>1, <2>2, <2>3, <2>4, <2>5, <2>6
  <1> QED BY <1>2, <1>4 DEF FunctionArm

LEMMA FloorIs ==
    ASSUME NEW like, DOMAIN like = Attributes, HasUnit(like), NEW x, SameType(like, x)
    PROVE  /\ SameButType(FloorType(like), like) /\ HasUnit(FloorType(like))
           /\ Scaled10(x) => FloorType(like).type = "integer"
           /\ ~Scaled10(x) => SameType(FloorType(like), x)
  <1> DEFINE whole == TypedAs(like, "integer", 0, 0)
  <1>1. SameButType(whole, like) /\ HasUnit(whole) /\ whole.type = "integer"
    <2>1. "integer" \in PlanTypes
      BY DEF PlanTypes
    <2> QED BY <2>1, Typed, NumberUnit
  <1>2. SameButType(like, like)
    BY DEF SameButType
  <1>3. Scaled10(like) <=> Scaled10(x)
    BY DEF Scaled10, SameType
  <1>4. FloorType(like) = IF Scaled10(like) THEN whole ELSE like
    BY DEF FloorType
  <1> HIDE DEF whole
  <1> QED BY <1>1, <1>2, <1>3, <1>4

LEMMA FunctionSound ==
    ASSUME NEW context, NEW name, NEW n \in Nat, NEW args, IsOperands(args, n),
           \A i \in 1..n : Sound(context, args[i]),
           NEW y, y = CompileFunction(context, name, args), Valid(y)
    PROVE  /\ Sound(context, y) /\ y.kind = "function"
           /\ name \in {"coalesce", "nullif", "round", "floor"} => n # 0
           /\ name = "coalesce" =>
                  /\ y.type = "number" \/ SameType(y, args[1])
                  /\ y.type = "number" <=> \E i \in 1..n : args[i].type = "number"
           /\ name \in {"nullif", "round"} => SameType(y, args[1])
           /\ name = "floor" => /\ Scaled10(args[1]) => y.type = "integer"
                                /\ ~Scaled10(args[1]) => SameType(y, args[1])
           /\ name \notin {"coalesce", "nullif", "round", "floor"} => y.type = "boolean"
  <1> DEFINE b == [Blank EXCEPT !.kind = "function", !.name = name]
             x == Over(b, args)
             like == TypedLike(x, args[1])
  <1>1. /\ Fresh(b) /\ b.kind = "function"
    BY DEF Blank, Attributes, Fresh
  <1> HIDE DEF b
  <1>2. DOMAIN x = Attributes
    BY <1>1, OverIs DEF Fresh
  <1>3. \A i \in DOMAIN args : Reaches(context, args[i])
    BY DEF Sound, IsOperands
  <1>4. \A z : SameButType(z, x) /\ HasUnit(z) => Sound(context, z) /\ z.kind = "function"
    <2> SUFFICES ASSUME NEW z, SameButType(z, x), HasUnit(z)
                 PROVE  Sound(context, z) /\ z.kind = "function"
      OBVIOUS
    <2> QED BY <1>1, <1>3, NodeReaches
  <1>5. Len(args) = n
    BY DEF IsOperands
  <1>6. \/ name = "coalesce" /\ n \in 2..8 /\ y = Coalesced(like, args)
        \/ name = "nullif" /\ n = 2 /\ \E c : y = Require(c, like)
        \/ name = "round" /\ n \in 1..2 /\ \E c : y = Require(c, like)
        \/ name = "floor" /\ n = 1 /\ \E c : y = Require(c, FloorType(like))
        \/ name = "contains" /\ n = 2 /\ \E c : y = Require(c, TypedAs(x, "boolean", 0, 0))
    <2>1. y # Invalid
      BY InvalidIs
    <2>2. /\ x = Over([Blank EXCEPT !.kind = "function", !.name = name], args)
          /\ like = TypedLike(x, args[1])
      BY DEF b
    <2> HIDE DEF x, like
    <2>3. FunctionArm(name, args, x, like, y)
      BY <2>2, FunctionArms
    <2> QED BY <1>5, <2>1, <2>3 DEF FunctionArm
  <1> HIDE DEF x
  <1>7. n # 0 => /\ DOMAIN like = Attributes /\ HasUnit(like)
                 /\ SameButType(like, x) /\ SameType(like, args[1])
    <2> SUFFICES ASSUME n # 0
                 PROVE  /\ DOMAIN like = Attributes /\ HasUnit(like)
                        /\ SameButType(like, x) /\ SameType(like, args[1])
      OBVIOUS
    <2>0. 1 \in 1..n
      BY ONLY n \in Nat, n # 0
    <2>1. HasUnit(args[1])
      BY <2>0 DEF Sound
    <2>2. SameButType(like, x) /\ SameType(like, args[1])
      BY <1>2, TypedAlike
    <2> HIDE DEF like
    <2> QED BY <2>1, <2>2, SameTypeUnit DEF SameButType
  <1> HIDE DEF like
  <1>8. CASE name = "coalesce" /\ n \in 2..8 /\ y = Coalesced(like, args)
    <2>1. n \in Nat \ {0} /\ n = Len(args) /\ Valid(Coalesced(like, args))
      BY <1>5, <1>8
    <2>2. /\ SameButType(y, like) /\ HasUnit(y) /\ (y.type = "number" \/ SameType(y, like))
          /\ y.type = "number"
                 <=> like.type = "number" \/ \E i \in 2..n : args[i].type = "number"
      BY <1>7, <1>8, <2>1, CoalescedIs
    <2>3. SameButType(y, x) /\ (y.type = "number" \/ SameType(y, args[1]))
      BY <1>7, <2>1, <2>2 DEF SameButType, SameType
    <2>4. y.type = "number" <=> \E i \in 1..n : args[i].type = "number"
      <3>1. 1..n = {1} \cup 2..n
        BY ONLY <2>1
      <3>2. like.type = args[1].type
        BY <1>7, <2>1 DEF SameType
      <3> QED BY <2>2, <3>1, <3>2
    <2> QED BY <1>4, <1>8, <2>1, <2>2, <2>3, <2>4
  <1>9. CASE /\ name \in {"nullif", "round"} /\ n \in 1..2 /\ \E c : y = Require(c, like)
    <2>1. y = like
      BY <1>9, Requires
    <2> QED BY <1>4, <1>7, <1>9, <2>1
  <1>10. CASE name = "floor" /\ n = 1 /\ \E c : y = Require(c, FloorType(like))
    <2>1. y = FloorType(like)
      BY <1>10, Requires
    <2>2. /\ SameButType(y, like) /\ HasUnit(y)
          /\ Scaled10(args[1]) => y.type = "integer"
          /\ ~Scaled10(args[1]) => SameType(y, args[1])
      BY <1>7, <1>10, <2>1, FloorIs
    <2>3. SameButType(y, x)
      BY <1>7, <1>10, <2>2 DEF SameButType
    <2> QED BY <1>4, <1>10, <2>2, <2>3
  <1>11. CASE /\ name = "contains" /\ n = 2
              /\ \E c : y = Require(c, TypedAs(x, "boolean", 0, 0))
    <2> DEFINE found == TypedAs(x, "boolean", 0, 0)
    <2>1. SameButType(found, x) /\ HasUnit(found) /\ found.type = "boolean"
      <3>1. "boolean" \in PlanTypes
        BY DEF PlanTypes
      <3> QED BY <1>2, <3>1, Typed, NumberUnit
    <2> HIDE DEF found
    <2>2. y = found
      BY <1>11, Requires DEF found
    <2> QED BY <1>4, <1>11, <2>1, <2>2
  <1> QED BY <1>6, <1>8, <1>9, <1>10, <1>11

LEMMA DateBucketSound ==
    ASSUME NEW context, NEW grain, NEW n \in Nat, NEW args, IsOperands(args, n),
           \A i \in 1..n : Sound(context, args[i]),
           NEW y, y = CompileDateBucket(context, grain, args), Valid(y)
    PROVE  Sound(context, y) /\ y.kind = "function" /\ y.type = "datetime"
  <1> DEFINE b == [Blank EXCEPT !.kind = "function", !.name = "date_bucket", !.value = grain]
             x == Over(b, args)
             z == TypedAs(x, "datetime", 0, 0)
  <1>1. y = z
    <2>1. \E c : y = Require(c, z)
      BY DEF CompileDateBucket
    <2> HIDE DEF z
    <2> QED BY <2>1, Requires
  <1>2. /\ Fresh(b) /\ b.kind = "function"
    BY DEF Blank, Attributes, Fresh
  <1> HIDE DEF b
  <1>3. DOMAIN x = Attributes
    BY <1>2, OverIs DEF Fresh
  <1>4. \A i \in DOMAIN args : Reaches(context, args[i])
    BY DEF Sound, IsOperands
  <1> HIDE DEF x
  <1>5. SameButType(z, x) /\ HasUnit(z) /\ z.type = "datetime"
    <2>1. "datetime" \in PlanTypes
      BY DEF PlanTypes
    <2> QED BY <1>3, <2>1, Typed, NumberUnit
  <1> HIDE DEF z
  <1> QED BY <1>1, <1>2, <1>4, <1>5, NodeReaches DEF x

LEMMA AggregateSound ==
    ASSUME NEW context, NEW op, NEW name, NEW n \in Nat, NEW args, IsOperands(args, n),
           \A i \in 1..n : Sound(context, args[i]),
           NEW y, y = CompileAggregate(op, name, args), Valid(y)
    PROVE  /\ Sound(context, y) /\ y.kind = "aggregate"
           /\ name # "count" => n = 1 /\ SameType(y, args[1])
           /\ name = "count" => y.type = "integer"
  <1> DEFINE refs == UNION {args[i].refs : i \in DOMAIN args}
             measure == [name |-> name, distinct |-> op = "distinct",
                         aliases |-> {ref.alias : ref \in refs}]
             b == [Blank EXCEPT !.kind = "aggregate", !.name = name, !.measures = {measure}]
             x == Over(b, args)
             count == TypedAs(x, "integer", 0, 0)
             like == TypedLike(x, args[1])
  <1>1. /\ DOMAIN b = Attributes /\ b.kind = "aggregate"
        /\ b.refs = {} /\ b.measures = {measure} /\ b.eqs = {} /\ b.required = {}
    BY DEF Blank, Attributes
  <1>2. \A i \in DOMAIN args : Reaches(context, args[i])
    BY DEF Sound, IsOperands
  <1>3. measure.aliases \subseteq DOMAIN context.aliases
    BY <1>2 DEF Reaches, InScope
  <1> HIDE DEF measure
  <1>4. Reaches(context, b)
    BY <1>1, <1>3 DEF Reaches
  <1>5. \/ name = "count" /\ \E c : y = Require(c, count)
        \/ name # "count" /\ \E c : y = Require(n = 1 /\ c, like)
    <2>1. Len(args) = n
      BY DEF IsOperands
    <2>2. CASE name = "count"
      BY Zenon, <2>2 DEF CompileAggregate, measure
    <2>3. CASE name # "count"
      <3> DEFINE known == name \in {"sum", "avg", "min", "max"}
                 numeric == name \in {"sum", "avg"} => NumericType(args[1].type)
      <3>1. y = Require(known /\ Len(args) = 1 /\ numeric, like)
        BY Zenon, <2>3 DEF CompileAggregate, measure
      <3>2. (known /\ Len(args) = 1 /\ numeric) = (n = 1 /\ (known /\ numeric))
        BY <2>1
      <3> HIDE DEF known, numeric, like
      <3> QED BY <2>3, <3>1, <3>2
    <2> QED BY <2>2, <2>3
  <1> HIDE DEF b
  <1>6. DOMAIN x = Attributes /\ x.kind = "aggregate" /\ Reaches(context, x)
    BY <1>1, <1>2, <1>4, OverIs, OverReaches
  <1> HIDE DEF x
  <1>7. CASE name = "count" /\ \E c : y = Require(c, count)
    <2>1. "integer" \in PlanTypes
      BY DEF PlanTypes
    <2>2. SameButType(count, x) /\ HasUnit(count) /\ count.type = "integer"
      BY <1>6, <2>1, Typed, NumberUnit
    <2> HIDE DEF count
    <2>3. y = count
      BY <1>7, Requires
    <2> QED BY <1>6, <1>7, <2>2, <2>3, ReachesAlike DEF Sound, SameButType
  <1>8. CASE name # "count" /\ \E c : y = Require(n = 1 /\ c, like)
    <2>1. SameButType(like, x) /\ SameType(like, args[1])
      BY <1>6, TypedAlike
    <2> HIDE DEF like
    <2>2. y = like /\ n = 1
      BY <1>8, Requires
    <2>3. HasUnit(y)
      BY <2>1, <2>2, SameTypeUnit DEF Sound
    <2> QED BY <1>6, <1>8, <2>1, <2>2, <2>3, ReachesAlike DEF Sound, SameButType
  <1> QED BY <1>5, <1>7, <1>8

-----------------------------------------------------------------------------
(***************************************************************************)
(* One node.  NodeArm is the case analysis of CompileNode.                  *)
(***************************************************************************)
NodeArm(context, e, args, y) ==
    \/ e.node = "column" /\ y = CompileColumn(context, e.op, e.name)
    \/ e.node = "parameter" /\ y = CompileParameter(context, e.name)
    \/ e.node = "literal" /\ y = CompileLiteral(e.op, e.name)
    \/ e.node = "null" /\ y = [Blank EXCEPT !.kind = "null", !.type = "null"]
    \/ e.node = "binary" /\ y = CompileBinary(e.op, args[1], args[2])
    \/ e.node = "unary" /\ y = CompileUnary(e.op, args[1])
    \/ e.node = "comparison" /\ y = CompileComparison(e.op, args[1], args[2])
    \/ e.node = "between" /\ y = CompileBetween(e.op, args)
    \/ e.node = "is" /\ y = CompileIs(e.op, args[1])
    \/ e.node = "logical" /\ y = CompileLogical(e.op, args[1], args[2])
    \/ e.node = "not" /\ y = CompileNot(args[1])
    \/ e.node = "case" /\ y = CompileCase(args)
    \/ e.node = "date_bucket" /\ y = CompileDateBucket(context, e.op, args)
    \/ e.node = "function" /\ y = CompileFunction(context, e.name, args)
    \/ e.node = "aggregate" /\ y = CompileAggregate(e.op, e.name, args)

LEMMA NodeArms ==
    ASSUME NEW context, NEW e, NEW args, Valid(CompileNode(context, e, args))
    PROVE  /\ NodeArm(context, e, args, CompileNode(context, e, args))
           /\ \A i \in DOMAIN args : Valid(args[i])
  <1> DEFINE y == CompileNode(context, e, args)
             node == e.node
  <1>1. \A i \in DOMAIN args : Valid(args[i])
    BY Zenon, InvalidIs DEF CompileNode
  <1>2. y = CASE
                 node = "column" -> CompileColumn(context, e.op, e.name)
              [] node = "parameter" -> CompileParameter(context, e.name)
              [] node = "literal" -> CompileLiteral(e.op, e.name)
              [] node = "null" -> [Blank EXCEPT !.kind = "null", !.type = "null"]
              [] node = "binary" -> CompileBinary(e.op, args[1], args[2])
              [] node = "unary" -> CompileUnary(e.op, args[1])
              [] node = "comparison" -> CompileComparison(e.op, args[1], args[2])
              [] node = "between" -> CompileBetween(e.op, args)
              [] node = "is" -> CompileIs(e.op, args[1])
              [] node = "logical" -> CompileLogical(e.op, args[1], args[2])
              [] node = "not" -> CompileNot(args[1])
              [] node = "case" -> CompileCase(args)
              [] node = "date_bucket" -> CompileDateBucket(context, e.op, args)
              [] node = "function" -> CompileFunction(context, e.name, args)
              [] node = "aggregate" -> CompileAggregate(e.op, e.name, args)
              [] OTHER -> Invalid
    BY Zenon, <1>1 DEF CompileNode
  <1> HIDE DEF y, node
  <1>3. node = "column" => y = CompileColumn(context, e.op, e.name)
    BY Zenon, <1>2
  <1>4. node = "parameter" => y = CompileParameter(context, e.name)
    BY Zenon, <1>2
  <1>5. node = "literal" => y = CompileLiteral(e.op, e.name)
    BY Zenon, <1>2
  <1>6. node = "null" => y = [Blank EXCEPT !.kind = "null", !.type = "null"]
    BY Zenon, <1>2
  <1>7. node = "binary" => y = CompileBinary(e.op, args[1], args[2])
    BY Zenon, <1>2
  <1>8. node = "unary" => y = CompileUnary(e.op, args[1])
    BY Zenon, <1>2
  <1>9. node = "comparison" => y = CompileComparison(e.op, args[1], args[2])
    BY Zenon, <1>2
  <1>10. node = "between" => y = CompileBetween(e.op, args)
    BY Zenon, <1>2
  <1>11. node = "is" => y = CompileIs(e.op, args[1])
    BY Zenon, <1>2
  <1>12. node = "logical" => y = CompileLogical(e.op, args[1], args[2])
    BY Zenon, <1>2
  <1>13. node = "not" => y = CompileNot(args[1])
    BY Zenon, <1>2
  <1>14. node = "case" => y = CompileCase(args)
    BY Zenon, <1>2
  <1>15. node = "date_bucket" => y = CompileDateBucket(context, e.op, args)
    BY Zenon, <1>2
  <1>16. node = "function" => y = CompileFunction(context, e.name, args)
    BY Zenon, <1>2
  <1>17. node = "aggregate" => y = CompileAggregate(e.op, e.name, args)
    BY Zenon, <1>2
  <1>18. y # Invalid
    BY InvalidIs DEF y
  <1>19. node \in {"column", "parameter", "literal", "null", "binary", "unary", "comparison", "between", "is", "logical", "not", "case", "date_bucket", "function", "aggregate"}
    BY Zenon, <1>2, <1>18
  <1> QED BY <1>1, <1>3, <1>4, <1>5, <1>6, <1>7, <1>8, <1>9, <1>10, <1>11, <1>12, <1>13, <1>14, <1>15, <1>16, <1>17, <1>19 DEF NodeArm, y, node

\* Only a column compiles to a field, nothing but an ORDER BY term to a result, and
\* no literal to a plain number.
Kinded(e, y) ==
    /\ y.kind # "result"
    /\ y.kind = "field" => e.node = "column"
    /\ y.kind = "literal" => y.type # "number"

(***************************************************************************)
(* compileExpression lowers a node over sound operands to a sound           *)
(* expression, whatever the node.                                           *)
(***************************************************************************)
LEMMA NodeSound ==
    ASSUME NEW context, IsScope(context), NEW e, NEW n \in Nat, NEW args, IsOperands(args, n),
           HasOperands(e.node, n),
           \A i \in 1..n : Valid(args[i]) => Sound(context, args[i]),
           NEW y, y = CompileNode(context, e, args), Valid(y)
    PROVE  Sound(context, y) /\ Kinded(e, y)
  <1>1. NodeArm(context, e, args, y) /\ Valid(y)
    BY NodeArms
  <1>2. \A i \in 1..n : Sound(context, args[i])
    BY NodeArms DEF IsOperands
  <1> USE DEF Kinded, LeafKinds
  <1>3. CASE e.node = "column" /\ y = CompileColumn(context, e.op, e.name)
    BY <1>1, <1>3, ColumnSound
  <1>4. CASE e.node = "parameter" /\ y = CompileParameter(context, e.name)
    BY <1>1, <1>4, ParameterSound
  <1>5. CASE e.node = "literal" /\ y = CompileLiteral(e.op, e.name)
    BY <1>1, <1>5, LiteralSound
  <1>6. CASE e.node = "null" /\ y = [Blank EXCEPT !.kind = "null", !.type = "null"]
    BY <1>1, <1>6, NullSound
  <1>7. CASE e.node = "binary" /\ y = CompileBinary(e.op, args[1], args[2])
    <2>1. Sound(context, args[1]) /\ Sound(context, args[2])
      BY <1>2, <1>7 DEF HasOperands
    <2> QED BY <1>1, <1>7, <2>1, BinarySound
  <1>8. CASE e.node = "unary" /\ y = CompileUnary(e.op, args[1])
    <2>1. Sound(context, args[1])
      BY <1>2, <1>8 DEF HasOperands
    <2> QED BY <1>1, <1>8, <2>1, UnarySound
  <1>9. CASE e.node = "comparison" /\ y = CompileComparison(e.op, args[1], args[2])
    <2>1. Sound(context, args[1]) /\ Sound(context, args[2])
      BY <1>2, <1>9 DEF HasOperands
    <2> QED BY <1>1, <1>9, <2>1, ComparisonSound
  <1>10. CASE e.node = "between" /\ y = CompileBetween(e.op, args)
    <2>1. \A i \in DOMAIN args : Sound(context, args[i])
      BY <1>2 DEF IsOperands
    <2> QED BY <1>1, <1>10, <2>1, OtherBooleansSound
  <1>11. CASE e.node = "is" /\ y = CompileIs(e.op, args[1])
    <2>1. Sound(context, args[1]) /\ \A i \in DOMAIN args : Sound(context, args[i])
      BY <1>2, <1>11 DEF HasOperands, IsOperands
    <2> QED BY <1>1, <1>11, <2>1, OtherBooleansSound
  <1>12. CASE e.node = "logical" /\ y = CompileLogical(e.op, args[1], args[2])
    <2>1. Sound(context, args[1]) /\ Sound(context, args[2])
      BY <1>2, <1>12 DEF HasOperands
    <2> QED BY <1>1, <1>12, <2>1, LogicalSound
  <1>13. CASE e.node = "not" /\ y = CompileNot(args[1])
    <2>1. Sound(context, args[1]) /\ \A i \in DOMAIN args : Sound(context, args[i])
      BY <1>2, <1>13 DEF HasOperands, IsOperands
    <2> QED BY <1>1, <1>13, <2>1, OtherBooleansSound
  <1>14. CASE e.node = "case" /\ y = CompileCase(args)
    BY <1>1, <1>2, <1>14, CaseSound
  <1>15. CASE e.node = "date_bucket" /\ y = CompileDateBucket(context, e.op, args)
    BY <1>1, <1>2, <1>15, DateBucketSound
  <1>16. CASE e.node = "function" /\ y = CompileFunction(context, e.name, args)
    BY <1>1, <1>2, <1>16, FunctionSound
  <1>17. CASE e.node = "aggregate" /\ y = CompileAggregate(e.op, e.name, args)
    BY <1>1, <1>2, <1>17, AggregateSound
  <1> QED BY Zenon, <1>1, <1>3, <1>4, <1>5, <1>6, <1>7, <1>8, <1>9, <1>10, <1>11, <1>12,
       <1>13, <1>14, <1>15, <1>16, <1>17 DEF NodeArm

-----------------------------------------------------------------------------
(***************************************************************************)
(* Whole trees.  Operands are less deep than their operator, so that the    *)
(* recursion of compileExpression is one: unfolding it level by level gives *)
(* a function, and any two unfoldings agree.                                *)
(***************************************************************************)
Step(context, e, f) == CompileNode(context, e, [i \in DOMAIN e.args |-> f[e.args[i]]])

Unfolds(context, f, trees) == f = [e \in trees |-> Step(context, e, f)]

LEMMA StepsAlike ==
    ASSUME NEW context, NEW e, NEW f, NEW g,
           \A i \in DOMAIN e.args : f[e.args[i]] = g[e.args[i]]
    PROVE  Step(context, e, f) = Step(context, e, g)
  <1>1. [i \in DOMAIN e.args |-> f[e.args[i]]] = [i \in DOMAIN e.args |-> g[e.args[i]]]
    OBVIOUS
  <1> QED BY <1>1 DEF Step

LEMMA CompiledDef ==
    ASSUME NEW context, NEW trees, NEW depth, IsForest(trees, depth)
    PROVE  \E f : /\ Unfolds(context, f, trees)
                  /\ \A tree : CompileExpression(context, trees, tree) = f[tree]
  <1> DEFINE Level(m) == {e \in trees : depth[e] < m}
             Compiles(f, m) == Unfolds(context, f, Level(m))
  <1>1. /\ depth \in [trees -> Nat]
        /\ \A e \in trees : \A i \in DOMAIN e.args :
               e.args[i] \in trees /\ depth[e.args[i]] < depth[e]
    BY DEF IsForest
  <1>2. ASSUME NEW m \in Nat, NEW n \in Nat, NEW f, NEW g, Compiles(f, m), Compiles(g, n)
        PROVE  \A e \in trees : depth[e] < m /\ depth[e] < n => f[e] = g[e]
    <2> DEFINE S == {e \in trees : depth[e] < m /\ depth[e] < n => f[e] = g[e]}
    <2>1. ASSUME NEW d \in trees, \A e \in trees : depth[e] < depth[d] => e \in S
          PROVE  d \in S
      <3> SUFFICES ASSUME depth[d] < m, depth[d] < n PROVE f[d] = g[d]
        OBVIOUS
      <3>1. f[d] = Step(context, d, f) /\ g[d] = Step(context, d, g)
        BY <1>2 DEF Unfolds
      <3>2. \A i \in DOMAIN d.args : f[d.args[i]] = g[d.args[i]]
        <4> SUFFICES ASSUME NEW i \in DOMAIN d.args PROVE f[d.args[i]] = g[d.args[i]]
          OBVIOUS
        <4>1. d.args[i] \in trees /\ depth[d.args[i]] < depth[d]
          BY <1>1
        <4>2. depth[d.args[i]] \in Nat /\ depth[d] \in Nat
          BY <1>1, <4>1
        <4>3. d.args[i] \in S
          BY <2>1, <4>1
        <4> QED BY <4>1, <4>2, <4>3
      <3> QED BY <3>1, <3>2, StepsAlike
    <2> HIDE DEF S
    <2>2. trees \subseteq S
      BY <1>1, <2>1, Ranked
    <2> QED BY <2>2 DEF S
  <1>3. ASSUME NEW m \in Nat PROVE \E f : Compiles(f, m)
    <2> DEFINE S == {k \in 0..m : \E f : Compiles(f, k)}
    <2>1. 0 \in S
      <3>1. Level(0) = {}
        BY <1>1
      <3>2. Compiles([e \in {} |-> e], 0)
        BY <3>1 DEF Unfolds
      <3> HIDE DEF Compiles
      <3> QED BY <3>2
    <2>2. ASSUME NEW k \in 0..(m - 1), k \in S PROVE k + 1 \in S
      <3>1. PICK f : Compiles(f, k)
        BY <2>2
      <3> DEFINE g == [e \in Level(k + 1) |-> Step(context, e, f)]
      <3>2. Compiles(g, k + 1)
        <4> SUFFICES ASSUME NEW e \in Level(k + 1)
                     PROVE  Step(context, e, f) = Step(context, e, g)
          BY DEF Unfolds
        <4>1. \A i \in DOMAIN e.args : f[e.args[i]] = g[e.args[i]]
          <5> SUFFICES ASSUME NEW i \in DOMAIN e.args PROVE f[e.args[i]] = g[e.args[i]]
            OBVIOUS
          <5>1. e.args[i] \in trees /\ depth[e.args[i]] < depth[e] /\ depth[e] < k + 1
            BY <1>1
          <5>2. depth[e.args[i]] \in Nat /\ depth[e] \in Nat
            BY <1>1, <5>1
          <5>3. e.args[i] \in Level(k) /\ e.args[i] \in Level(k + 1)
            BY <5>1, <5>2
          <5> QED BY <3>1, <5>3 DEF Unfolds
        <4> HIDE DEF g
        <4> QED BY <4>1, StepsAlike
      <3> HIDE DEF Compiles, g
      <3> QED BY <3>2
    <2>3. m \in S
      <3> HIDE DEF S
      <3>1. \A i \in 0..m : i \in S
        BY <2>1, <2>2, UpTo
      <3> QED BY <3>1
    <2> QED BY <2>3
  <1> DEFINE chosen(e) == CHOOSE f : Compiles(f, depth[e] + 1)
             F == [e \in trees |-> chosen(e)[e]]
  <1>4. \A e \in trees : Compiles(chosen(e), depth[e] + 1)
    <2> SUFFICES ASSUME NEW e \in trees PROVE Compiles(chosen(e), depth[e] + 1)
      OBVIOUS
    <2>1. depth[e] + 1 \in Nat
      BY <1>1
    <2>2. \E f : Compiles(f, depth[e] + 1)
      BY <1>3, <2>1
    <2> HIDE DEF Compiles
    <2> QED BY <2>2
  <1>5. Unfolds(context, F, trees)
    <2> SUFFICES ASSUME NEW e \in trees PROVE F[e] = Step(context, e, F)
      BY DEF Unfolds
    <2>1. F[e] = Step(context, e, chosen(e))
      <3>1. e \in Level(depth[e] + 1)
        BY <1>1
      <3> HIDE DEF chosen
      <3> QED BY <1>4, <3>1 DEF Unfolds
    <2>2. \A i \in DOMAIN e.args : chosen(e)[e.args[i]] = F[e.args[i]]
      <3> SUFFICES ASSUME NEW i \in DOMAIN e.args PROVE chosen(e)[e.args[i]] = F[e.args[i]]
        OBVIOUS
      <3> DEFINE a == e.args[i]
      <3>1. a \in trees /\ depth[a] < depth[e] /\ depth[a] \in Nat /\ depth[e] \in Nat
        BY <1>1
      <3>2. Compiles(chosen(e), depth[e] + 1) /\ Compiles(chosen(a), depth[a] + 1)
        BY <1>4, <3>1
      <3>3. /\ depth[e] + 1 \in Nat /\ depth[a] + 1 \in Nat
            /\ depth[a] < depth[e] + 1 /\ depth[a] < depth[a] + 1
        BY <3>1
      <3> HIDE DEF Compiles, chosen, a
      <3>4. chosen(e)[a] = chosen(a)[a]
        BY <1>2, <3>1, <3>2, <3>3
      <3>5. F[a] = chosen(a)[a]
        BY <3>1
      <3> QED BY <3>4, <3>5 DEF a
    <2> HIDE DEF F, chosen
    <2> QED BY <2>1, <2>2, StepsAlike
  <1> HIDE DEF F
  <1> DEFINE G == CHOOSE f : Unfolds(context, f, trees)
  <1>6. Unfolds(context, G, trees)
    BY <1>5
  <1>7. \A tree : CompileExpression(context, trees, tree) = G[tree]
    BY DEF CompileExpression, Unfolds, Step
  <1> HIDE DEF G
  <1> QED BY <1>6, <1>7

(***************************************************************************)
(* Whatever compileExpression accepts is sound: it has a type a plan may    *)
(* have with its precision and scale, and every column, aggregate and       *)
(* equality the walks over it find names an alias in scope and a column of  *)
(* its object, for any metadata and any expression.                         *)
(***************************************************************************)
THEOREM CompiledExpressionsAreSound ==
    ASSUME NEW context, IsScope(context), NEW trees, NEW depth, IsForest(trees, depth),
           NEW tree \in trees, Valid(CompileExpression(context, trees, tree))
    PROVE  Sound(context, CompileExpression(context, trees, tree))
  <1>1. PICK f : /\ Unfolds(context, f, trees)
                 /\ \A t : CompileExpression(context, trees, t) = f[t]
    BY CompiledDef
  <1> DEFINE S == {e \in trees : Valid(f[e]) => Sound(context, f[e])}
  <1>2. ASSUME NEW d \in trees, \A e \in trees : depth[e] < depth[d] => e \in S
        PROVE  d \in S
    <2> DEFINE n == Len(d.args)
               args == [i \in DOMAIN d.args |-> f[d.args[i]]]
    <2>1. /\ d.args \in Seq(trees) /\ HasOperands(d.node, n)
          /\ \A i \in DOMAIN d.args : depth[d.args[i]] < depth[d]
      BY DEF IsForest
    <2>2. n \in Nat /\ DOMAIN d.args = 1..n /\ \A i \in 1..n : d.args[i] \in trees
      BY <2>1
    <2>3. IsOperands(args, n) /\ \A i \in 1..n : args[i] = f[d.args[i]]
      <3> DEFINE R == {f[d.args[i]] : i \in 1..n}
      <3>1. args \in Seq(R) /\ Len(args) = n
        BY ONLY <2>2
      <3> QED BY <2>2, <3>1 DEF IsOperands
    <2>4. \A i \in 1..n : Valid(args[i]) => Sound(context, args[i])
      BY <1>2, <2>1, <2>2, <2>3
    <2>5. f[d] = CompileNode(context, d, args)
      BY <1>1 DEF Unfolds, Step
    <2> HIDE DEF args, n
    <2> QED BY <2>1, <2>2, <2>3, <2>4, <2>5, NodeSound
  <1>3. depth \in [trees -> Nat]
    BY DEF IsForest
  <1> HIDE DEF S
  <1>4. trees \subseteq S
    BY <1>2, <1>3, Ranked
  <1> QED BY <1>1, <1>4 DEF S

\* The same of an ORDER BY term, which may stand for a projection instead.
LEMMA OrderTermSound ==
    ASSUME NEW context, IsScope(context), NEW trees, NEW depth, IsForest(trees, depth),
           NEW tree \in trees, NEW projections,
           \A name \in DOMAIN projections : HasUnit(projections[name]),
           Valid(CompileOrderTerm(context, projections, trees, tree))
    PROVE  Sound(context, CompileOrderTerm(context, projections, trees, tree))
  <1> DEFINE x == CompileOrderTerm(context, projections, trees, tree)
             named == tree.node = "column" /\ tree.op = "" /\ tree.name \in DOMAIN projections
  <1>1. CASE named
    <2> DEFINE b == [Blank EXCEPT !.kind = "result", !.alias = tree.name]
    <2>1. Fresh(b) /\ b.kind = "result"
      BY DEF Blank, Attributes, Fresh
    <2>2. x = TypedLike(b, projections[tree.name])
      BY <1>1 DEF CompileOrderTerm
    <2> DEFINE p == projections[tree.name]
    <2>3. HasUnit(p)
      BY <1>1
    <2> HIDE DEF b, x, p
    <2>4. SameButType(x, b) /\ SameType(x, p)
      BY <2>1, <2>2, TypedAlike DEF Fresh, p
    <2>5. HasUnit(x)
      BY <2>3, <2>4, SameTypeUnit
    <2>6. Sound(context, x)
      BY <2>1, <2>4, <2>5, FreshReaches, ReachesAlike DEF Sound, SameButType
    <2> QED BY <2>6 DEF x
  <1>2. CASE ~named
    BY <1>2, CompiledExpressionsAreSound DEF CompileOrderTerm
  <1> QED BY <1>1, <1>2

=============================================================================
