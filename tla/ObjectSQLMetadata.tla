-------------------------- MODULE ObjectSQLMetadata --------------------------
(***************************************************************************)
(* The published metadata the Object SQL compiler binds a definition to.    *)
(*                                                                          *)
(* The host hands the compiler one map from object keys to fields           *)
(* (query/types.go).  A field is a record; keys are unique and trimmed, so  *)
(* the scan of objectSQLField is function application here.  Four envelope  *)
(* columns belong to every object whatever it declares, and they shadow a   *)
(* declared field with the same key.                                        *)
(***************************************************************************)
EXTENDS Integers

CONSTANTS
    Objects,    \* keys of the published objects
    FieldKeys,  \* keys a declared field may have
    Metadata    \* object key -> field key -> field

(***************************************************************************)
(* prec and scale are the declared decimal configuration, target the object *)
(* a relation points at ("" for none) and cardinality the declared          *)
(* cardinality of that relation ("" for none).                              *)
(***************************************************************************)
Field ==
    [type : STRING, prec : Int, scale : Int, unique : BOOLEAN,
     target : STRING, cardinality : STRING]

PlainField(type) ==
    [type |-> type, prec |-> 0, scale |-> 0, unique |-> FALSE,
     target |-> "", cardinality |-> ""]

ASSUME MetadataAssumption ==
    /\ DOMAIN Metadata = Objects
    /\ \A o \in Objects :
           /\ DOMAIN Metadata[o] \subseteq FieldKeys
           /\ \A f \in DOMAIN Metadata[o] : Metadata[o][f] \in Field

Envelope ==
    [workspace_id |-> PlainField("text"),
     id           |-> [PlainField("text") EXCEPT !.unique = TRUE],
     created_at   |-> PlainField("datetime"),
     updated_at   |-> PlainField("datetime")]

ColumnsOf(o) == DOMAIN Envelope \cup DOMAIN Metadata[o]

FieldOf(o, f) ==
    IF f \in DOMAIN Envelope THEN Envelope[f] ELSE Metadata[o][f]

-----------------------------------------------------------------------------
(***************************************************************************)
(* The type a column has inside an expression.  "" marks a field type the   *)
(* compiler does not support.                                               *)
(***************************************************************************)
TextTypes == {"text", "email", "long_text", "phone", "relation", "select",
              "url", "user"}

DecimalConfig(field) ==
    [prec  |-> IF field.prec <= 0 THEN 19 ELSE field.prec,
     scale |-> IF field.scale < 0 THEN 2 ELSE field.scale]

Unscaled(type) == [type |-> type, prec |-> 0, scale |-> 0]

Scaled(type, field) ==
    [type  |-> type,
     prec  |-> DecimalConfig(field).prec,
     scale |-> DecimalConfig(field).scale]

FieldType(field) ==
    CASE field.type \in TextTypes   -> Unscaled("text")
      [] field.type = "percent"     -> Scaled("decimal", field)
      [] field.type = "currency"    -> Scaled("currency", field)
      [] field.type \in {"number", "boolean", "date", "datetime", "decimal",
                         "integer"} -> Unscaled(field.type)
      [] OTHER                      -> Unscaled("")

-----------------------------------------------------------------------------
(***************************************************************************)
(* Uniqueness and relations, the facts join cardinality is inferred from.   *)
(***************************************************************************)
FieldUnique(field) == field.unique \/ field.cardinality = "one_to_one"

RelationTargets(field, object, targetField) ==
    /\ field.type = "relation"
    /\ field.target = object
    /\ targetField = "id"

=============================================================================
