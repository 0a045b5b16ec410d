---------------------------- MODULE MCGovernedExport ----------------------------
(***************************************************************************)
(* Exports with a day, a page number, a price and a closing time, under     *)
(* definitions that differ in their defaults and in the lifetime they ask   *)
(* for.  An int64 has 8 bits and a second 10 nanoseconds.                   *)
(***************************************************************************)
EXTENDS GovernedExport, TLC

MCTexts == {"7", " 7", "7.0", "1e0", "1", "noon+0", "noon+2", "2024-01-01", "x"}
MCIntegerText == "7" :> "7" @@ " 7" :> "7" @@ "1" :> "1"
MCDecimalText == "7" :> "7" @@ " 7" :> "7" @@ "7.0" :> "7" @@ "1e0" :> "1" @@ "1" :> "1"
MCInstantText == "noon+0" :> "noon+0" @@ "noon+2" :> "noon+0"
MCDateTexts == {"2024-01-01"}
\* The decoder rounds the larger integer.
MCFloatText == [t \in MCTexts |-> IF t = "7" THEN "1e0" ELSE t]

MCKeyType ==
    [page |-> "integer", price |-> "decimal", until |-> "datetime", ratio |-> "number",
     day |-> "date", open |-> "boolean", note |-> "text"]

Optional(key, default) == key :> [type |-> MCKeyType[key], required |-> FALSE, default |-> default]
Required(key) == key :> [type |-> MCKeyType[key], required |-> TRUE, default |-> None]

Asks(typed, form, value) == [typed |-> typed, legacy |-> [form |-> form, value |-> value]]
Defined(parameters, ttl) ==
    [parameters |-> parameters, typed |-> ttl.typed, legacy |-> ttl.legacy]

\* The lifetimes of one definition each: every form, at every boundary.
MCTTLs ==
    {Asks(0, "absent", 0), Asks(12, "absent", 0), Asks(13, "absent", 0), Asks(1, "absent", 0)}
    \cup {Asks(0, "float", v) : v \in {-128, 0, 4, 127, 128, 129}}
    \cup {Asks(0, "unsigned", v) : v \in {4, 255}}
    \cup {Asks(4, "signed", 4), Asks(4, "number", 3), Asks(0, "number", 300), Asks(0, "signed", 1),
          Asks(127, "float", 128), Asks(0, "fraction", 4), Asks(4, "other", 0)}

MCDefinitions ==
    {Defined(Optional("page", Of("string", " 7")) @@ Optional("price", None), ttl) : ttl \in MCTTLs}
    \cup {Defined(parameters, Asks(0, "absent", 0)) :
             parameters \in
                 {Required("page") @@ Optional("price", Of("float64", "1e0")),
                  Optional("page", None) @@ Optional("until", Of("string", "noon+2"))
                      @@ Optional("ratio", None),
                  Optional("page", Of("float64", "7")) @@ Optional("price", Of("string", "1")),
                  Optional("day", Of("string", "2024-01-01")) @@ Required("open")
                      @@ Optional("note", Of("string", " 7"))}}

\* A number has no spaces, and a float64 prints no trailing zeros.
Numeric ==
    {Of("string", text) : text \in {"7", " 7", "7.0", "1e0"}}
    \cup {Of("number", text) : text \in {"7", "7.0", "1e0"}}
    \cup {Of("float64", text) : text \in {"7", "1e0"}}

MCRequests ==
    {key :> value : key \in {"page", "price"}, value \in Numeric}
    \cup {<<>>, "page" :> None, "price" :> None, "page" :> None @@ "price" :> Of("int64", "1"),
          "until" :> Of("string", "noon+2"), "until" :> Of("string", "x"),
          "ratio" :> Of("number", "1"), "open" :> Of("bool", "1"),
          "open" :> Of("bool", "1") @@ "note" :> Of("string", "x") @@ "day" :> Of("string", "x")}

=============================================================================
