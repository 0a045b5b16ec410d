------------------------------- MODULE JoinPlan -------------------------------
(***************************************************************************)
(* What compiling the FROM tree of a report promises, without the rest of   *)
(* the statement: a plan grows one source at a time, a join enters it only  *)
(* with a cardinality proven from the metadata, and the plan is accepted    *)
(* only when no aggregate of its projections is amplified.                  *)
(*                                                                          *)
(* A definition can be refused for reasons this level does not see (limits, *)
(* types, legacy assertions), so Refuse is always possible.  The module     *)
(* ObjectSQLCompiler implements this specification; JoinExecution runs the  *)
(* accepted plans over data.                                                *)
(***************************************************************************)
EXTENDS ObjectSQLCardinality, FiniteSets

CONSTANTS
    Aliases,        \* source aliases an author may use
    OnExpressions,  \* ON expressions, as [form, eqs] records
    Projections,    \* the sets of measures a projection may contain
    MaxSources,     \* bound of the model: sources of one definition
    MaxMeasures     \* bound of the model: measures of one definition

VARIABLES
    phase,      \* "from", "select", "accepted" or "refused"
    sources,    \* plan.Sources
    measures    \* the aggregates inside plan.Projections

planVars == <<phase, sources, measures>>

JoinTypes == {"inner", "left"}
Cardinalities == {"one_to_one", "many_to_one", "one_to_many"}

Column == [alias : Aliases, field : FieldKeys \cup DOMAIN Envelope]
Equality == [left : Column, right : Column]

(***************************************************************************)
(* form says how the equalities stand in the expression: all of them        *)
(* required ("and"), any one sufficient ("or"), none allowed to hold        *)
(* ("not").  The inference walk does not look at it.                        *)
(***************************************************************************)
On == [form : {"and", "or", "not"}, eqs : SUBSET Equality]
NoOn == [form |-> "and", eqs |-> {}]

(***************************************************************************)
(* A measure is an aggregate inside a projection: its function, DISTINCT    *)
(* and the aliases its argument mentions.                                   *)
(***************************************************************************)
Measure == [name : STRING, distinct : BOOLEAN, aliases : SUBSET Aliases]

ASSUME JoinPlanAssumption ==
    /\ OnExpressions \subseteq On
    /\ Projections \subseteq SUBSET Measure
    /\ MaxSources \in Nat
    /\ MaxMeasures \in Nat

Source ==
    [object : Objects, alias : Aliases, join : JoinTypes \cup {""},
     cardinality : Cardinalities \cup {""}, on : On]

OnColumns(on) == {eq.left : eq \in on.eqs} \cup {eq.right : eq \in on.eqs}

(***************************************************************************)
(* Every column of the expression names a registered alias and a field of   *)
(* that alias's object.                                                     *)
(***************************************************************************)
Resolves(on, registered) ==
    \A column \in OnColumns(on) :
        \E i \in DOMAIN registered :
            /\ registered[i].alias = column.alias
            /\ column.field \in ColumnsOf(registered[i].object)

-----------------------------------------------------------------------------
Init ==
    /\ phase = "from"
    /\ sources = <<>>
    /\ measures = {}

\* compileBaseSource for the leftmost table of the tree.
AddRoot(object, alias) ==
    /\ phase = "from"
    /\ sources = <<>>
    /\ sources' = <<[object |-> object, alias |-> alias, join |-> "",
                     cardinality |-> "", on |-> NoOn]>>
    /\ UNCHANGED <<phase, measures>>

(***************************************************************************)
(* compileBaseSource for the right side of a join.  The alias is registered *)
(* before its ON expression is compiled, so ON may mention it and every     *)
(* earlier alias.                                                           *)
(***************************************************************************)
AddJoin(object, alias, join, on) ==
    LET entry == [object |-> object, alias |-> alias, join |-> join,
                  cardinality |-> "", on |-> on]
        registered == Append(sources, entry)
        inferred == InferJoinCardinality(registered, alias, on.eqs)
    IN  /\ phase = "from"
        /\ sources # <<>>
        /\ Len(sources) < MaxSources
        /\ alias \notin SourceAliases(sources)
        /\ Resolves(on, registered)
        /\ inferred # ""
        /\ sources' = Append(sources, [entry EXCEPT !.cardinality = inferred])
        /\ UNCHANGED <<phase, measures>>

FinishFrom ==
    /\ phase = "from"
    /\ sources # <<>>
    /\ phase' = "select"
    /\ UNCHANGED <<sources, measures>>

\* compileSelect, for the measures of one projection.
Project(projection) ==
    /\ phase = "select"
    /\ Cardinality(measures \cup projection) <= MaxMeasures
    /\ \A m \in projection : m.aliases \subseteq SourceAliases(sources)
    /\ measures' = measures \cup projection
    /\ UNCHANGED <<phase, sources>>

\* validateAmplification, the last step of the compilation.
Accept ==
    /\ phase = "select"
    /\ \A m \in measures : ~Amplified(sources, m)
    /\ phase' = "accepted"
    /\ UNCHANGED <<sources, measures>>

Refuse ==
    /\ phase \in {"from", "select"}
    /\ phase' = "refused"
    /\ UNCHANGED <<sources, measures>>

Next ==
    \/ \E object \in Objects, alias \in Aliases : AddRoot(object, alias)
    \/ \E object \in Objects, alias \in Aliases, join \in JoinTypes,
          on \in OnExpressions : AddJoin(object, alias, join, on)
    \/ FinishFrom
    \/ \E projection \in Projections : Project(projection)
    \/ Accept
    \/ Refuse

Spec == Init /\ [][Next]_planVars

-----------------------------------------------------------------------------
UniqueAliases(s) ==
    \A i, k \in DOMAIN s : s[i].alias = s[k].alias => i = k

Orientations(eq) == {eq, [left |-> eq.right, right |-> eq.left]}

(***************************************************************************)
(* The equality makes source j a function of an earlier source: on its      *)
(* right a unique column of j, on its left a column of a source before j.   *)
(***************************************************************************)
KeyedBy(s, j, eq) ==
    /\ eq.right.alias = s[j].alias
    /\ eq.right.field \in ColumnsOf(s[j].object)
    /\ FieldUnique(FieldOf(s[j].object, eq.right.field))
    /\ \E i \in 1..(j - 1) : s[i].alias = eq.left.alias

KeyedByOneOf(s, j, eqs) ==
    \E eq \in eqs : \E key \in Orientations(eq) : KeyedBy(s, j, key)

(***************************************************************************)
(* What every reachable plan satisfies, at whatever point of its            *)
(* compilation: aliases name one source each, every source but the root has *)
(* a cardinality, one that does not fan out rests on a key of the joined    *)
(* object tied to an EARLIER source (object_sql_cardinality.go 12-47), and  *)
(* a plan whose measures fan out is never accepted.                         *)
(***************************************************************************)
PlanInv ==
    /\ phase \in {"select", "accepted"} => sources # <<>>
    /\ UniqueAliases(sources)
    /\ \A j \in DOMAIN sources :
           /\ sources[j].cardinality = "" <=> j = 1
           /\ sources[j].cardinality \in {"one_to_one", "many_to_one"} =>
                  KeyedByOneOf(sources, j, sources[j].on.eqs)
    /\ phase = "accepted" => \A m \in measures : ~Amplified(sources, m)

=============================================================================
