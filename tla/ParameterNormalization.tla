------------------------- MODULE ParameterNormalization -------------------------
(***************************************************************************)
(* NormalizeParameters: a declared type and default applied to raw values.  *)
(*                                                                          *)
(* A value is [form, text]: its Go type and how it is spelled.  Every type  *)
(* is given by what parsing and formatting a spelling yields: the canonical *)
(* one, for the spellings that parse.  The text of an int64 is its decimal  *)
(* digits, that of a float64 what fmt.Sprint prints.  Keys are trimmed and  *)
(* distinct, as the compiler requires of declarations.                      *)
(***************************************************************************)
CONSTANTS
    Texts,          \* spellings
    IntegerText,    \* strconv.ParseInt: partial, spelling -> its digits
    DecimalText,    \* decimal.NewFromString and String
    InstantText,    \* time.Parse(time.RFC3339) and UTC().Format(time.RFC3339Nano)
    DateTexts,      \* spellings of the layout 2006-01-02
    FloatText       \* digits of an integer -> the spelling of its nearest float64

Canonical(f) == DOMAIN f \subseteq Texts /\ \A t \in DOMAIN f : f[t] \in DOMAIN f /\ f[f[t]] = f[t]

ASSUME NormalizationAssumption ==
    /\ Canonical(IntegerText) /\ Canonical(DecimalText) /\ Canonical(InstantText)
    /\ \A t \in DOMAIN IntegerText : IntegerText[t] \in Texts
    /\ \A t \in DOMAIN DecimalText : DecimalText[t] \in Texts
    /\ \A t \in DOMAIN InstantText : InstantText[t] \in Texts
    /\ DateTexts \subseteq Texts
    /\ FloatText \in [Texts -> Texts]

Forms == {"string", "number", "int64", "float64", "bool"}
None == [form |-> "nil", text |-> ""]
Value == [form : Forms, text : Texts] \cup {None}
Of(form, text) == [form |-> form, text |-> text]

Unbound == [form |-> "error", text |-> ""]

ParameterTypes == {"text", "integer", "number", "decimal", "boolean", "date", "datetime"}

-----------------------------------------------------------------------------
\* Mutant: a value bound before is returned as it came.
ParameterValueTrustingStrings(type, value) ==
    IF value.form \in {"nil", "string"} THEN value
    ELSE IF type = "integer" THEN Of("int64", value.text) ELSE value

\* Mutant: the numbers of an exact decoder are not integers.
ParameterValueOfNativeIntegers(type, value) ==
    IF type = "integer" /\ value.form = "number" THEN Unbound
    ELSE IF type = "integer" /\ value # None THEN Of("int64", value.text) ELSE value

(***************************************************************************)
(* parameterValue.  No case accepts a value of type number.                 *)
(***************************************************************************)
ParameterValue(type, value) ==
    CASE value = None -> None
      [] type = "text" /\ value.form = "string" -> value
      [] type = "integer" /\ value.form \in {"number", "string", "int64"}
             /\ value.text \in DOMAIN IntegerText -> Of("int64", IntegerText[value.text])
      [] type = "decimal" /\ value # None
             /\ value.text \in DOMAIN DecimalText -> Of("string", DecimalText[value.text])
      [] type = "boolean" /\ value.form = "bool" -> value
      [] type = "date" /\ value.form = "string" /\ value.text \in DateTexts -> value
      [] type = "datetime" /\ value.form = "string"
             /\ value.text \in DOMAIN InstantText -> Of("string", InstantText[value.text])
      [] OTHER -> Unbound

\* Mutant: a nil value is one that was not given.
GivenUnlessNil(declared, raw, key) ==
    IF key \in DOMAIN raw /\ raw[key] # None THEN raw[key] ELSE declared[key].default

\* The value a parameter is bound from, None when there is none.
Given(declared, raw, key) ==
    IF key \in DOMAIN raw THEN raw[key] ELSE declared[key].default

Bound(declared, raw, key) == ParameterValue(declared[key].type, Given(declared, raw, key))

(***************************************************************************)
(* NormalizeDeclaredParameters.  A key given as nil is neither required nor *)
(* defaulted.                                                               *)
(***************************************************************************)
Normalizes(declared, raw) ==
    /\ DOMAIN raw \subseteq DOMAIN declared
    /\ \A key \in DOMAIN declared :
           /\ Bound(declared, raw, key) # Unbound
           /\ declared[key].required =>
                  key \in DOMAIN raw \/ declared[key].default # None

Normalized(declared, raw) == [key \in DOMAIN declared |-> Bound(declared, raw, key)]

-----------------------------------------------------------------------------
(***************************************************************************)
(* Normalized parameters as JSON, and as a reader decodes them again: with  *)
(* json.Number, or into float64.                                            *)
(***************************************************************************)
Encoded(value) ==
    IF value.form = "int64" THEN Of("number", value.text) ELSE value

Decoders == {"exact", "plain"}

DecodedValue(decoder, value) ==
    IF decoder = "plain" /\ value.form = "number" THEN Of("float64", FloatText[value.text])
    ELSE value

EncodedScope(parameters) == [key \in DOMAIN parameters |-> Encoded(parameters[key])]
DecodedScope(decoder, scope) == [key \in DOMAIN scope |-> DecodedValue(decoder, scope[key])]

=============================================================================
