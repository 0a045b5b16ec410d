------------------------- MODULE GovernedExportProofs -------------------------
(***************************************************************************)
(* What holds of every export: the lifetime it was given is the authored    *)
(* one and representable, and its parameters stay those it was prepared     *)
(* with through storage, decoding and republication.                        *)
(***************************************************************************)
EXTENDS GovernedExport, TLAPS

(***************************************************************************)
(* The lifetime.                                                            *)
(***************************************************************************)
LEMMA QuotientBound ==
    ASSUME NEW a \in Nat, NEW b \in Nat, b > 1, a > 0
    PROVE  /\ a \div b \in Nat
           /\ (a \div b) * b <= a
           /\ a \div b < a
  <1>1. a \div b \in Int /\ a % b \in 0..(b - 1) /\ a = b * (a \div b) + (a % b)
    BY SMT
  <1>2. a \div b >= 0
    BY <1>1, SMT
  <1> DEFINE q == a \div b
  <1>3. q \in Nat /\ q * b <= a
    BY <1>1, <1>2, SMT
  <1>4. q < a
    BY <1>3, SMT
  <1> QED BY <1>3, <1>4

LEMMA ProductBound ==
    ASSUME NEW s \in Nat, NEW q \in Nat, NEW b \in Nat, s <= q
    PROVE  s * b <= q * b
  BY SMT

\* Every lifetime that is given out was asked for, and its nanoseconds fit.
LEMMA LifetimesAreAuthored ==
    ASSUME NEW d \in Definitions, NEW s \in DownloadTTLs(d.typed, d.legacy)
    PROVE  /\ s = AuthoredSeconds(d)
           /\ s \in Int64 /\ s >= MinimumTTL /\ s * Nanos <= MaxInt
  <1>1. /\ MaxInt \in Nat /\ Nanos \in Nat /\ Nanos > 1 /\ MinimumTTL \in Nat /\ MinimumTTL > 0
        /\ d.typed \in Int64 /\ d.legacy \in Legacy /\ DefaultTTL \in Int64
    BY TTLAssumption, ExportAssumption DEF Int64, MinInt
  <1>2. s \in SelectedSeconds(d.typed, d.legacy) /\ s \in MinimumTTL..MaximumDurationSeconds
    BY DEF DownloadTTLs
  <1>3. s \in Int /\ s >= MinimumTTL /\ s <= MaxInt \div Nanos
    BY <1>1, <1>2 DEF MaximumDurationSeconds
  <1>4. MaxInt > 0
    <2> SUFFICES ASSUME MaxInt = 0 PROVE FALSE
      BY <1>1
    <2>1. 0 \div Nanos = 0
      BY <1>1
    <2> QED BY <1>1, <1>3, <2>1
  <1>5. s < MaxInt /\ s * Nanos <= MaxInt
    BY <1>1, <1>3, <1>4, QuotientBound, ProductBound
  <1>6. s = AuthoredSeconds(d)
    BY <1>1, <1>2, <1>3, <1>5
    DEF SelectedSeconds, LegacySeconds, Legacy, LegacyForms, AuthoredSeconds, Int64, MinInt
  <1> QED BY <1>1, <1>3, <1>5, <1>6 DEF Int64, MinInt

LifetimeInv ==
    /\ lifetime \in Int64 /\ authored \in Int
    /\ stage = "prepared" =>
          lifetime = authored /\ lifetime >= MinimumTTL /\ lifetime * Nanos <= MaxInt

LEMMA LifetimeStep == definition \in Definitions /\ LifetimeInv /\ [Next]_vars => LifetimeInv'
  <1> SUFFICES ASSUME definition \in Definitions, LifetimeInv, [Next]_vars PROVE LifetimeInv'
    OBVIOUS
  <1>1. ASSUME NEW raw \in Requests, Prepare(raw) PROVE LifetimeInv'
    BY <1>1, LifetimesAreAuthored DEF Prepare, LifetimeInv, Int64, MinInt
  <1>2. ASSUME NEW raw \in Requests, RefusePreparation(raw) PROVE LifetimeInv'
    BY <1>2 DEF RefusePreparation, LifetimeInv
  <1>3. CASE UNCHANGED <<stage, lifetime, authored>>
    BY <1>3 DEF LifetimeInv
  <1> QED BY <1>1, <1>2, <1>3 DEF Next, vars, Resolve, NextPage, Republish

LEMMA DefinitionStep == definition \in Definitions /\ [Next]_vars => (definition \in Definitions)'
  BY DEF Next, vars, Prepare, RefusePreparation, Resolve, NextPage, Republish

LEMMA LifetimeInvHolds == Spec => [](definition \in Definitions /\ LifetimeInv)
  <1>1. Init => definition \in Definitions /\ LifetimeInv
    BY TTLAssumption DEF Init, LifetimeInv, Int64, MinInt
  <1> QED BY <1>1, LifetimeStep, DefinitionStep, PTL DEF Spec

(***************************************************************************)
(* Whatever the definition says, in whichever of the two fields, an export  *)
(* lives as many seconds as somebody asked for (report_export_control.go    *)
(* 18-39).                                                                  *)
(***************************************************************************)
THEOREM LifetimesAuthored == Spec => []LifetimeAsAuthored
  <1>1. LifetimeInv => LifetimeAsAuthored
    BY DEF LifetimeInv, LifetimeAsAuthored
  <1> QED BY <1>1, LifetimeInvHolds, PTL

(***************************************************************************)
(* and its lifetime is a time.Duration, in nanoseconds (34-37).             *)
(***************************************************************************)
THEOREM LifetimesRepresentable == Spec => []LifetimeRepresentable
  <1>1. LifetimeInv => LifetimeRepresentable
    BY DEF LifetimeInv, LifetimeRepresentable
  <1> QED BY <1>1, LifetimeInvHolds, PTL

-----------------------------------------------------------------------------
(***************************************************************************)
(* Values.                                                                  *)
(***************************************************************************)
\* The outcomes of the switch of parameterValue.
LEMMA ParameterValues ==
    ASSUME NEW type, NEW value
    PROVE
      \/ value = None /\ ParameterValue(type, value) = None
      \/ type = "text" /\ value.form = "string" /\ ParameterValue(type, value) = value
      \/ /\ type = "integer" /\ value.form \in {"number", "string", "int64"}
         /\ value.text \in DOMAIN IntegerText
         /\ ParameterValue(type, value) = Of("int64", IntegerText[value.text])
      \/ /\ type = "decimal" /\ value # None /\ value.text \in DOMAIN DecimalText
         /\ ParameterValue(type, value) = Of("string", DecimalText[value.text])
      \/ type = "boolean" /\ value.form = "bool" /\ ParameterValue(type, value) = value
      \/ /\ type = "date" /\ value.form = "string" /\ value.text \in DateTexts
         /\ ParameterValue(type, value) = value
      \/ /\ type = "datetime" /\ value.form = "string" /\ value.text \in DOMAIN InstantText
         /\ ParameterValue(type, value) = Of("string", InstantText[value.text])
      \/ ParameterValue(type, value) = Unbound
  <1> DEFINE pv == ParameterValue(type, value)
  <1>1. ParameterValue(type, None) = None
    BY DEF ParameterValue, None
  <1>2. value # None /\ type = "text" /\ value.form = "string" => pv = value
    BY Zenon DEF ParameterValue
  <1>3. /\ value # None /\ type = "integer" /\ value.form \in {"number", "string", "int64"}
        /\ value.text \in DOMAIN IntegerText
        => pv = Of("int64", IntegerText[value.text])
    BY Zenon DEF ParameterValue
  <1>4. value # None /\ type = "decimal" /\ value.text \in DOMAIN DecimalText
        => pv = Of("string", DecimalText[value.text])
    BY Zenon DEF ParameterValue
  <1>5. value # None /\ type = "boolean" /\ value.form = "bool" => pv = value
    BY Zenon DEF ParameterValue
  <1>6. value # None /\ type = "date" /\ value.form = "string" /\ value.text \in DateTexts
        => pv = value
    BY Zenon DEF ParameterValue
  <1>7. /\ value # None /\ type = "datetime" /\ value.form = "string"
        /\ value.text \in DOMAIN InstantText
        => pv = Of("string", InstantText[value.text])
    BY Zenon DEF ParameterValue
  <1>8. /\ value # None
        /\ ~(type = "text" /\ value.form = "string")
        /\ ~(type = "integer" /\ value.form \in {"number", "string", "int64"}
             /\ value.text \in DOMAIN IntegerText)
        /\ ~(type = "decimal" /\ value.text \in DOMAIN DecimalText)
        /\ ~(type = "boolean" /\ value.form = "bool")
        /\ ~(type = "date" /\ value.form = "string" /\ value.text \in DateTexts)
        /\ ~(type = "datetime" /\ value.form = "string" /\ value.text \in DOMAIN InstantText)
        => pv = Unbound
    BY Zenon DEF ParameterValue
  <1> HIDE DEF pv
  <1>9. pv = ParameterValue(type, value)
    BY DEF pv
  <1> QED BY <1>1, <1>2, <1>3, <1>4, <1>5, <1>6, <1>7, <1>8, <1>9, Zenon

\* What parameterValue returns is canonical, nil or an error.
LEMMA BoundNormal ==
    ASSUME NEW type \in ParameterTypes, NEW value \in Value
    PROVE  ParameterValue(type, value) \in NormalForm(type) \cup {None, Unbound}
  <1>1. \/ value = None
        \/ value \in [form : Forms, text : Texts] /\ value.form \in Forms /\ value.text \in Texts
    BY DEF Value
  <1> DEFINE pv == ParameterValue(type, value)
  <1>2. pv = Of("int64", IntegerText[value.text]) /\ type = "integer"
            /\ value.text \in DOMAIN IntegerText => pv \in NormalForm(type)
    BY NormalizationAssumption DEF NormalForm, CanonicalTexts, Of, Forms
  <1>3. pv = Of("string", DecimalText[value.text]) /\ type = "decimal"
            /\ value.text \in DOMAIN DecimalText => pv \in NormalForm(type)
    BY NormalizationAssumption DEF NormalForm, CanonicalTexts, Of, Forms
  <1>4. pv = Of("string", InstantText[value.text]) /\ type = "datetime"
            /\ value.text \in DOMAIN InstantText => pv \in NormalForm(type)
    BY NormalizationAssumption DEF NormalForm, CanonicalTexts, Of, Forms
  <1>5. pv = value /\ value # None
            /\ \/ type = "text" /\ value.form = "string"
               \/ type = "boolean" /\ value.form = "bool"
               \/ type = "date" /\ value.form = "string" /\ value.text \in DateTexts
            => pv \in NormalForm(type)
    BY <1>1 DEF NormalForm
  <1> HIDE DEF pv
  <1>6. pv = ParameterValue(type, value)
    BY DEF pv
  <1> QED BY <1>2, <1>3, <1>4, <1>5, <1>6, ParameterValues

\* What is stored of a canonical value is a value again, however it is decoded.
LEMMA DecodedIsValue ==
    ASSUME NEW type \in ParameterTypes, NEW v \in NormalForm(type) \cup {None},
           NEW decoder \in Decoders
    PROVE  DecodedValue(decoder, Encoded(v)) \in Value
  <1>1. CASE v = None
    BY <1>1 DEF DecodedValue, Encoded, Value, None
  <1>2. CASE v # None
    <2>1. v \in [form : Forms, text : Texts] /\ v.text \in Texts
      BY <1>2 DEF NormalForm
    <2>2. Encoded(v) \in [form : Forms, text : Texts]
      BY <2>1 DEF Encoded, Of, Forms
    <2>3. \A w \in [form : Forms, text : Texts] :
              DecodedValue(decoder, w) \in [form : Forms, text : Texts]
      BY NormalizationAssumption DEF DecodedValue, Of, Forms
    <2> QED BY <2>2, <2>3 DEF Value
  <1> QED BY <1>1, <1>2

\* Binding it again yields it, or fails for an integer that became a float.
LEMMA BoundAgain ==
    ASSUME NEW type \in ParameterTypes, NEW v \in NormalForm(type) \cup {None},
           NEW decoder \in Decoders
    PROVE  \/ ParameterValue(type, DecodedValue(decoder, Encoded(v))) = v
           \/ /\ ParameterValue(type, DecodedValue(decoder, Encoded(v))) = Unbound
              /\ decoder = "plain" /\ type = "integer"
  <1>1. CASE v = None
    BY <1>1 DEF ParameterValue, DecodedValue, Encoded, None, Of
  <1>2. CASE type = "integer" /\ v # None
    <2>1. PICK t \in DOMAIN IntegerText : v = Of("int64", IntegerText[t])
      BY <1>2 DEF NormalForm, CanonicalTexts, Of
    <2>2. v.text \in DOMAIN IntegerText /\ IntegerText[v.text] = v.text
      BY <2>1, NormalizationAssumption DEF Canonical, Of
    <2>3. DecodedValue("exact", Encoded(v)) = Of("number", v.text)
      BY <2>1 DEF DecodedValue, Encoded, Of
    <2>4. DecodedValue("plain", Encoded(v)) = Of("float64", FloatText[v.text])
      BY <2>1 DEF DecodedValue, Encoded, Of
    <2>5. ParameterValue("integer", Of("number", v.text)) = Of("int64", v.text)
      <3>1. Of("number", v.text) # None /\ Of("number", v.text).form = "number"
            /\ Of("number", v.text).text = v.text
        BY DEF Of, None
      <3> QED BY <2>2, <3>1, Zenon DEF ParameterValue
    <2>6. ParameterValue("integer", Of("float64", FloatText[v.text])) = Unbound
      <3>1. Of("float64", FloatText[v.text]) # None
            /\ Of("float64", FloatText[v.text]).form = "float64"
        BY DEF Of, None
      <3> QED BY <3>1, Zenon DEF ParameterValue
    <2>7. Of("int64", v.text) = v
      BY <2>1 DEF Of
    <2> QED BY <1>2, <2>3, <2>4, <2>5, <2>6, <2>7 DEF Decoders
  <1>3. CASE type # "integer" /\ v # None
    <2>1. DecodedValue(decoder, Encoded(v)) = v
      BY <1>3 DEF NormalForm, DecodedValue, Encoded
    <2>2. ParameterValue(type, v) = v
      <3>1. CASE type \in {"text", "boolean", "date"}
        <4>1. v.form = IF type = "boolean" THEN "bool" ELSE "string"
          BY <1>3, <3>1 DEF NormalForm
        <4>2. type = "date" => v.text \in DateTexts
          BY <1>3 DEF NormalForm
        <4> QED BY <1>3, <3>1, <4>1, <4>2, Zenon DEF ParameterValue
      <3>2. CASE type = "decimal"
        <4>1. PICK t \in DOMAIN DecimalText : v = Of("string", DecimalText[t])
          BY <1>3, <3>2 DEF NormalForm, CanonicalTexts, Of
        <4>2. v.text \in DOMAIN DecimalText /\ Of("string", DecimalText[v.text]) = v
          BY <4>1, NormalizationAssumption DEF Canonical, Of
        <4> QED BY <1>3, <3>2, <4>2, Zenon DEF ParameterValue
      <3>3. CASE type = "datetime"
        <4>1. PICK t \in DOMAIN InstantText : v = Of("string", InstantText[t])
          BY <1>3, <3>3 DEF NormalForm, CanonicalTexts, Of
        <4>2. v.form = "string" /\ v.text \in DOMAIN InstantText
              /\ Of("string", InstantText[v.text]) = v
          BY <4>1, NormalizationAssumption DEF Canonical, Of
        <4> QED BY <1>3, <3>3, <4>2, Zenon DEF ParameterValue
      <3> QED BY <1>3, <3>1, <3>2, <3>3 DEF NormalForm, ParameterTypes
    <2> QED BY <2>1, <2>2
  <1> QED BY <1>1, <1>2, <1>3

-----------------------------------------------------------------------------
(***************************************************************************)
(* The scope.  What is stored encodes canonical values, those of the        *)
(* preparation among them; what is executed agrees with the preparation.    *)
(***************************************************************************)
StoredScope ==
    /\ DOMAIN stored \subseteq DOMAIN KeyType
    /\ \A key \in DOMAIN stored :
           \E v \in NormalForm(KeyType[key]) \cup {None} : stored[key] = Encoded(v)

PreparedStored ==
    /\ DOMAIN prepared \subseteq DOMAIN stored
    /\ \A key \in DOMAIN prepared : stored[key] = Encoded(prepared[key])

PreparedExecuted ==
    execution.ok =>
        /\ DOMAIN prepared \subseteq DOMAIN execution.parameters
        /\ \A key \in DOMAIN prepared : execution.parameters[key] = prepared[key]

ScopeInv ==
    /\ definition \in Definitions
    /\ stage \in {"idle", "prepared", "refused"}
    /\ execution = [ok |-> execution.ok, parameters |-> execution.parameters]
    /\ execution.ok \in BOOLEAN
    /\ stage = "idle" => ~execution.ok
    /\ NormalScope(prepared)
    /\ NormalScope(execution.parameters)
    /\ StoredScope
    /\ PreparedStored
    /\ PreparedExecuted

\* A declaration that normalizes raw values yields canonical ones.
LEMMA NormalizedScope ==
    ASSUME NEW d \in Definitions, NEW raw, Normalizes(d.parameters, raw),
           \A key \in DOMAIN raw : raw[key] \in Value
    PROVE  /\ NormalScope(Normalized(d.parameters, raw))
           /\ DOMAIN Normalized(d.parameters, raw) = DOMAIN d.parameters
           /\ DOMAIN raw \subseteq DOMAIN d.parameters
  <1>1. /\ DOMAIN d.parameters \subseteq DOMAIN KeyType
        /\ \A key \in DOMAIN d.parameters :
               d.parameters[key].type = KeyType[key] /\ d.parameters[key].default \in Value
    BY ExportAssumption DEF Declaration
  <1>2. ASSUME NEW key \in DOMAIN d.parameters
        PROVE  Bound(d.parameters, raw, key) \in NormalForm(KeyType[key]) \cup {None}
    <2>1. Given(d.parameters, raw, key) \in Value
      BY <1>1 DEF Given
    <2>2. KeyType[key] \in ParameterTypes
      BY <1>1, ExportAssumption
    <2>3. Bound(d.parameters, raw, key) # Unbound
      BY DEF Normalizes
    <2> QED BY <1>1, <2>1, <2>2, <2>3, BoundNormal DEF Bound
  <1> QED BY <1>1, <1>2 DEF Normalizes, Normalized, NormalScope

LEMMA EncodedStored ==
    ASSUME NEW scope, NormalScope(scope)
    PROVE  /\ DOMAIN EncodedScope(scope) = DOMAIN scope
           /\ DOMAIN scope \subseteq DOMAIN KeyType
           /\ \A key \in DOMAIN scope :
                  /\ EncodedScope(scope)[key] = Encoded(scope[key])
                  /\ scope[key] \in NormalForm(KeyType[key]) \cup {None}
  BY DEF EncodedScope, NormalScope

LEMMA PrepareScope ==
    ASSUME ScopeInv, NEW raw \in Requests, Prepare(raw)
    PROVE  ScopeInv'
  <1> DEFINE scope == Normalized(definition.parameters, raw)
  <1>1. definition \in Definitions /\ Normalizes(definition.parameters, raw)
        /\ \A key \in DOMAIN raw : raw[key] \in Value
    BY ExportAssumption DEF ScopeInv, Prepare
  <1>2. NormalScope(scope)
    BY <1>1, NormalizedScope
  <1>3. /\ prepared' = scope /\ stored' = EncodedScope(prepared') /\ stage' = "prepared"
        /\ UNCHANGED <<definition, execution>> /\ ~execution.ok
    BY DEF Prepare, ScopeInv
  <1> HIDE DEF scope
  <1>4. NormalScope(prepared')
    BY <1>2, <1>3
  <1>5. StoredScope' /\ PreparedStored'
    BY <1>3, <1>4, EncodedStored DEF StoredScope, PreparedStored
  <1>6. PreparedExecuted'
    BY <1>3 DEF PreparedExecuted
  <1>7. NormalScope(prepared)' /\ NormalScope(execution.parameters)'
    BY <1>3, <1>4 DEF ScopeInv, NormalScope
  <1> QED BY <1>3, <1>5, <1>6, <1>7 DEF ScopeInv

LEMMA ResolveScope ==
    ASSUME ScopeInv, NEW decoder \in Decoders, Resolve(decoder)
    PROVE  ScopeInv'
  <1> DEFINE raw == DecodedScope(decoder, stored)
             scope == Normalized(definition.parameters, raw)
  <1>1. /\ UNCHANGED <<stage, definition, prepared, stored>> /\ stage = "prepared"
        /\ execution' = [ok |-> Normalizes(definition.parameters, raw),
                         parameters |-> IF Normalizes(definition.parameters, raw)
                                        THEN scope ELSE NoParameters]
    BY DEF Resolve
  <1>2. DOMAIN raw = DOMAIN stored
        /\ \A key \in DOMAIN stored : raw[key] = DecodedValue(decoder, stored[key])
    BY DEF DecodedScope
  <1> HIDE DEF raw
  <1>3. \A key \in DOMAIN raw : raw[key] \in Value
    <2> SUFFICES ASSUME NEW key \in DOMAIN stored PROVE raw[key] \in Value
      BY <1>2
    <2>1. PICK v \in NormalForm(KeyType[key]) \cup {None} : stored[key] = Encoded(v)
      BY DEF ScopeInv, StoredScope
    <2>2. KeyType[key] \in ParameterTypes
      BY ExportAssumption DEF ScopeInv, StoredScope
    <2> QED BY <1>2, <2>1, <2>2, DecodedIsValue
  <1>4. ASSUME Normalizes(definition.parameters, raw)
        PROVE  /\ NormalScope(scope)
               /\ DOMAIN prepared \subseteq DOMAIN scope
               /\ \A key \in DOMAIN prepared : scope[key] = prepared[key]
    <2>1. NormalScope(scope) /\ DOMAIN scope = DOMAIN definition.parameters
          /\ DOMAIN stored \subseteq DOMAIN scope
      BY <1>2, <1>3, <1>4, NormalizedScope DEF ScopeInv
    <2>2. ASSUME NEW key \in DOMAIN prepared PROVE scope[key] = prepared[key]
      <3>1. /\ key \in DOMAIN stored /\ stored[key] = Encoded(prepared[key])
            /\ key \in DOMAIN definition.parameters
            /\ prepared[key] \in NormalForm(KeyType[key]) \cup {None}
        BY <2>1 DEF ScopeInv, PreparedStored, NormalScope
      <3>2. KeyType[key] \in ParameterTypes /\ definition.parameters[key].type = KeyType[key]
        BY <3>1, ExportAssumption DEF ScopeInv, Declaration
      <3>3. scope[key] = ParameterValue(KeyType[key], DecodedValue(decoder, Encoded(prepared[key])))
        BY <1>2, <3>1, <3>2 DEF Normalized, Bound, Given
      <3>4. scope[key] # Unbound
        BY <1>4, <3>1 DEF Normalizes, Normalized
      <3> QED BY <3>1, <3>2, <3>3, <3>4, BoundAgain
    <2> QED BY <2>1, <2>2 DEF ScopeInv, PreparedStored
  <1>5. NormalScope(NoParameters)
    BY DEF NormalScope, NoParameters
  <1> HIDE DEF scope
  <1>6. execution' = [ok |-> execution'.ok, parameters |-> execution'.parameters]
        /\ execution'.ok \in BOOLEAN
    BY <1>1 DEF Normalizes
  <1>7. NormalScope(execution'.parameters) /\ PreparedExecuted'
    BY <1>1, <1>4, <1>5 DEF PreparedExecuted
  <1>8. NormalScope(execution.parameters)' /\ NormalScope(prepared)'
    BY <1>1, <1>7 DEF NormalScope, ScopeInv
  <1>9. StoredScope' /\ PreparedStored'
    BY <1>1 DEF ScopeInv, StoredScope, PreparedStored
  <1> QED BY <1>1, <1>6, <1>7, <1>8, <1>9 DEF ScopeInv

LEMMA NextPageScope ==
    ASSUME ScopeInv, NextPage
    PROVE  ScopeInv'
  <1>1. /\ execution.ok /\ stored' = EncodedScope(execution.parameters)
        /\ UNCHANGED <<stage, definition, prepared, execution>>
    BY DEF NextPage
  <1>2. StoredScope' /\ PreparedStored'
    BY <1>1, EncodedStored
    DEF ScopeInv, StoredScope, PreparedStored, PreparedExecuted
  <1>3. PreparedExecuted' /\ NormalScope(prepared)' /\ NormalScope(execution.parameters)'
    BY <1>1 DEF ScopeInv, PreparedExecuted, NormalScope
  <1> QED BY <1>1, <1>2, <1>3 DEF ScopeInv

LEMMA OtherScope ==
    ASSUME ScopeInv, definition' \in Definitions, stage' \in {stage, "refused"},
           UNCHANGED <<prepared, stored, execution>>
    PROVE  ScopeInv'
  <1>1. PreparedExecuted' /\ NormalScope(prepared)' /\ NormalScope(execution.parameters)'
        /\ StoredScope' /\ PreparedStored'
    BY DEF ScopeInv, PreparedExecuted, NormalScope, StoredScope, PreparedStored
  <1> QED BY <1>1 DEF ScopeInv

LEMMA ScopeInvHolds == Spec => []ScopeInv
  <1>1. Init => ScopeInv
    BY DEF Init, ScopeInv, NoParameters, NoExecution, NormalScope, StoredScope,
           PreparedStored, PreparedExecuted
  <1>2. ScopeInv /\ [Next]_vars => ScopeInv'
    <2> SUFFICES ASSUME ScopeInv, [Next]_vars PROVE ScopeInv'
      OBVIOUS
    <2>1. ASSUME NEW raw \in Requests, Prepare(raw) PROVE ScopeInv'
      BY <2>1, PrepareScope
    <2>2. ASSUME NEW raw \in Requests, RefusePreparation(raw) PROVE ScopeInv'
      BY <2>2, OtherScope DEF RefusePreparation, ScopeInv
    <2>3. ASSUME NEW decoder \in Decoders, Resolve(decoder) PROVE ScopeInv'
      BY <2>3, ResolveScope
    <2>4. CASE NextPage
      BY <2>4, NextPageScope
    <2>5. ASSUME NEW d \in Definitions, Republish(d) PROVE ScopeInv'
      BY <2>5, OtherScope DEF Republish
    <2>6. CASE UNCHANGED vars
      BY <2>6, OtherScope DEF vars, ScopeInv
    <2> QED BY <2>1, <2>2, <2>3, <2>4, <2>5, <2>6 DEF Next
  <1> QED BY <1>1, <1>2, PTL DEF Spec

(***************************************************************************)
(* What is executed and stored is canonical, and lifetimes are int64.       *)
(***************************************************************************)
THEOREM TypeCorrect == Spec => []TypeOK
  <1>1. ScopeInv /\ LifetimeInv => TypeOK
    BY DEF ScopeInv, StoredScope, LifetimeInv, TypeOK
  <1> QED BY <1>1, ScopeInvHolds, LifetimeInvHolds, PTL

(***************************************************************************)
(* Every page of an export is read with the parameters the export was       *)
(* prepared with, whatever is published in between and however the stored   *)
(* job is decoded (report_parameters.go 27-115).                            *)
(***************************************************************************)
THEOREM ParametersSurvive == Spec => []PreparedValuesSurvive
  <1>1. ScopeInv => PreparedValuesSurvive
    BY DEF ScopeInv, PreparedExecuted, PreparedValuesSurvive
  <1> QED BY <1>1, ScopeInvHolds, PTL

(***************************************************************************)
(* A stored scope fails to bind again only where an integer was decoded     *)
(* into a float64 (69-79).                                                  *)
(***************************************************************************)
THEOREM StoredScopesBind == Spec => []StoredValuesBind
  <1>1. ScopeInv => StoredValuesBind
    <2> SUFFICES ASSUME ScopeInv, NEW key \in DOMAIN stored, NEW decoder \in Decoders,
                        ParameterValue(KeyType[key], DecodedValue(decoder, stored[key])) = Unbound
                 PROVE  decoder = "plain" /\ KeyType[key] = "integer"
      BY DEF StoredValuesBind
    <2>1. PICK v \in NormalForm(KeyType[key]) \cup {None} : stored[key] = Encoded(v)
      BY DEF ScopeInv, StoredScope
    <2>2. KeyType[key] \in ParameterTypes
      BY ExportAssumption DEF ScopeInv, StoredScope
    <2>3. v # Unbound
      <3>1. Unbound.form = "error" /\ None.form = "nil"
        BY DEF Unbound, None
      <3>2. v \in [form : Forms, text : Texts] => v.form # "error"
        BY DEF Forms
      <3> QED BY <3>1, <3>2 DEF NormalForm
    <2> QED BY <2>1, <2>2, <2>3, BoundAgain
  <1> QED BY <1>1, ScopeInvHolds, PTL

=============================================================================
