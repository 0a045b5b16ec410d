---------------------------- MODULE GovernedExport ----------------------------
(***************************************************************************)
(* The life of one governed export: its parameters are normalized and its   *)
(* lifetime is resolved when it is prepared; the normalized scope is stored *)
(* with the job as JSON, and every page a worker reads decodes that scope   *)
(* and normalizes it again, under the definition published by then.         *)
(*                                                                          *)
(* What is computed is NormalizeParameters and                              *)
(* ReportExportDownloadTTLSeconds.  Who calls them, in the order that       *)
(* reportsdk.Exports offers (Prepare, then ResolveExecution and ReadPage,   *)
(* each with the scope of the request), is outside this repository.         *)
(***************************************************************************)
EXTENDS ParameterNormalization, ExportTTL

CONSTANTS
    Definitions,    \* [parameters, typed, legacy] that may be published
    KeyType,        \* key -> the type it has in every definition
    Requests        \* raw parameters of a request, each key -> value

VARIABLES
    stage,          \* "idle", "prepared" or "refused"
    definition,     \* the published definition
    prepared,       \* the parameters the export was prepared with
    lifetime,       \* seconds, 0 before
    authored,       \* history: the number of seconds the author asked for
    stored,         \* the scope of the job, as JSON
    execution       \* the last ResolveExecution: whether it succeeded, its parameters

vars == <<stage, definition, prepared, lifetime, authored, stored, execution>>

Declaration(key) == [type : {KeyType[key]}, required : BOOLEAN, default : Value]

ASSUME ExportAssumption ==
    /\ \A key \in DOMAIN KeyType : KeyType[key] \in ParameterTypes
    /\ \A d \in Definitions :
           /\ DOMAIN d.parameters \subseteq DOMAIN KeyType
           /\ \A key \in DOMAIN d.parameters : d.parameters[key] \in Declaration(key)
           /\ d.typed \in Int64 /\ d.legacy \in Legacy
    /\ \A raw \in Requests : \A key \in DOMAIN raw : raw[key] \in Value

NoParameters == <<>>
NoExecution == [ok |-> FALSE, parameters |-> NoParameters]

AuthoredSeconds(d) ==
    IF d.typed # 0 THEN d.typed
    ELSE IF d.legacy.form # "absent" THEN d.legacy.value ELSE DefaultTTL

-----------------------------------------------------------------------------
Init ==
    /\ stage = "idle"
    /\ definition \in Definitions
    /\ prepared = NoParameters
    /\ lifetime = 0
    /\ authored = 0
    /\ stored = NoParameters
    /\ execution = NoExecution

Prepare(raw) ==
    /\ stage = "idle"
    /\ Normalizes(definition.parameters, raw)
    /\ \E seconds \in DownloadTTLs(definition.typed, definition.legacy) : lifetime' = seconds
    /\ authored' = AuthoredSeconds(definition)
    /\ prepared' = Normalized(definition.parameters, raw)
    /\ stored' = EncodedScope(prepared')
    /\ stage' = "prepared"
    /\ UNCHANGED <<definition, execution>>

RefusePreparation(raw) ==
    /\ stage = "idle"
    /\ \/ ~Normalizes(definition.parameters, raw)
       \/ DownloadTTLs(definition.typed, definition.legacy) = {}
    /\ stage' = "refused"
    /\ UNCHANGED <<definition, prepared, lifetime, authored, stored, execution>>

\* A worker, perhaps one started after a crash, resolves the stored job.
Resolve(decoder) ==
    LET raw == DecodedScope(decoder, stored)
        ok == Normalizes(definition.parameters, raw)
    IN  /\ stage = "prepared"
        /\ execution' = [ok |-> ok,
                         parameters |-> IF ok THEN Normalized(definition.parameters, raw)
                                        ELSE NoParameters]
        /\ UNCHANGED <<stage, definition, prepared, lifetime, authored, stored>>

\* The normalized scope is the one the next page is asked for with.
NextPage ==
    /\ execution.ok
    /\ stored' = EncodedScope(execution.parameters)
    /\ UNCHANGED <<stage, definition, prepared, lifetime, authored, execution>>

Republish(d) ==
    /\ definition' = d
    /\ UNCHANGED <<stage, prepared, lifetime, authored, stored, execution>>

Next ==
    \/ \E raw \in Requests : Prepare(raw) \/ RefusePreparation(raw)
    \/ \E decoder \in Decoders : Resolve(decoder)
    \/ NextPage
    \/ \E d \in Definitions : Republish(d)

Spec == Init /\ [][Next]_vars

-----------------------------------------------------------------------------
CanonicalTexts(f) == {f[t] : t \in DOMAIN f}

(***************************************************************************)
(* What a normalized value of a type can be.                                *)
(***************************************************************************)
NormalForm(type) ==
    {v \in [form : Forms, text : Texts] :
        \/ type = "text" /\ v.form = "string"
        \/ type = "integer" /\ v.form = "int64" /\ v.text \in CanonicalTexts(IntegerText)
        \/ type = "decimal" /\ v.form = "string" /\ v.text \in CanonicalTexts(DecimalText)
        \/ type = "boolean" /\ v.form = "bool"
        \/ type = "date" /\ v.form = "string" /\ v.text \in DateTexts
        \/ type = "datetime" /\ v.form = "string" /\ v.text \in CanonicalTexts(InstantText)}

\* A function from parameter keys to normalized values, or nil.
NormalScope(parameters) ==
    /\ DOMAIN parameters \subseteq DOMAIN KeyType
    /\ \A key \in DOMAIN parameters : parameters[key] \in NormalForm(KeyType[key]) \cup {None}

(***************************************************************************)
(* Only canonical values leave the normalization (report_parameters.go      *)
(* 58-115): what is executed, fingerprinted and stored has one spelling.    *)
(***************************************************************************)
TypeOK ==
    /\ stage \in {"idle", "prepared", "refused"}
    /\ definition \in Definitions
    /\ lifetime \in Int64 /\ authored \in Int
    /\ execution.ok \in BOOLEAN
    /\ NormalScope(prepared) /\ NormalScope(execution.parameters)
    /\ DOMAIN stored \subseteq DOMAIN KeyType

(***************************************************************************)
(* An export reads every page with the parameters it was prepared with,     *)
(* whatever defaults are published meanwhile and whoever decodes the job:   *)
(* a value stored as nil stays nil (report_parameters.go 38-48).            *)
(***************************************************************************)
PreparedValuesSurvive ==
    execution.ok =>
        \A key \in DOMAIN prepared \cap DOMAIN execution.parameters :
            execution.parameters[key] = prepared[key]

(***************************************************************************)
(* A stored value is refused again for one reason only: an integer decoded  *)
(* into a float64 (report_parameters.go 69-79).                             *)
(***************************************************************************)
StoredValuesBind ==
    \A key \in DOMAIN stored, decoder \in Decoders :
        ParameterValue(KeyType[key], DecodedValue(decoder, stored[key])) = Unbound =>
            decoder = "plain" /\ KeyType[key] = "integer"

(***************************************************************************)
(* A lifetime is the number of seconds somebody asked for: a conflict, a    *)
(* legacy zero or a float beyond int64 never becomes another one            *)
(* (report_export_control.go 18-39, 76-85).                                 *)
(***************************************************************************)
LifetimeAsAuthored == stage = "prepared" => lifetime = authored

(***************************************************************************)
(* Its duration in nanoseconds is an int64, and it is long enough to        *)
(* download anything (report_export_control.go 34-37).                      *)
(***************************************************************************)
LifetimeRepresentable ==
    stage = "prepared" => lifetime >= MinimumTTL /\ lifetime * Nanos <= MaxInt

=============================================================================
