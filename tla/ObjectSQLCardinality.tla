------------------------ MODULE ObjectSQLCardinality ------------------------
(***************************************************************************)
(* Join cardinality inference and the amplification rule of the Object SQL  *)
(* compiler, as operators over the plan's sources.                          *)
(*                                                                          *)
(* A source is the record the plan keeps per FROM entry; its position in    *)
(* the sequence is its aliasOrder (from 1 here).  The ON expression is      *)
(* reduced to what the inference walk can see of it: eqs, the equalities    *)
(* between two columns that occur ANYWHERE inside it.  A measure is what    *)
(* the amplification walk reads of an aggregate: its function, DISTINCT and *)
(* the aliases its arguments mention.                                       *)
(***************************************************************************)
EXTENDS ObjectSQLMetadata, Sequences

SourceAliases(sources) == {sources[i].alias : i \in DOMAIN sources}

Position(sources, alias) ==
    CHOOSE i \in DOMAIN sources : sources[i].alias = alias

ColumnField(sources, column) ==
    FieldOf(sources[Position(sources, column.alias)].object, column.field)

-----------------------------------------------------------------------------
(***************************************************************************)
(* inferJoinCardinality: an equality counts when, once oriented, its right  *)
(* side is a column of the joined alias and its left side a column of an    *)
(* earlier one, and a unique field or a relation backs it.                  *)
(***************************************************************************)
Oriented(eq, alias) ==
    IF eq.left.alias = alias THEN [left |-> eq.right, right |-> eq.left] ELSE eq

JoinEqualityBacked(leftObject, left, leftKey, rightObject, right, rightKey) ==
    \/ FieldUnique(left)
    \/ FieldUnique(right)
    \/ RelationTargets(left, rightObject, rightKey)
    \/ RelationTargets(right, leftObject, leftKey)

\* Mutant: the right side may belong to any alias.
UsableEqualitiesOfAnyAlias(sources, alias, eqs) ==
    {eq \in {Oriented(e, alias) : e \in eqs} :
        JoinEqualityBacked(
            sources[Position(sources, eq.left.alias)].object,
            ColumnField(sources, eq.left), eq.left.field,
            sources[Position(sources, eq.right.alias)].object,
            ColumnField(sources, eq.right), eq.right.field)}

\* sources already holds the joined alias, as its last element.
UsableEqualities(sources, alias, eqs) ==
    {eq \in {Oriented(e, alias) : e \in eqs} :
        /\ eq.right.alias = alias
        /\ Position(sources, eq.left.alias) < Position(sources, alias)
        /\ JoinEqualityBacked(
               sources[Position(sources, eq.left.alias)].object,
               ColumnField(sources, eq.left), eq.left.field,
               sources[Position(sources, alias)].object,
               ColumnField(sources, eq.right), eq.right.field)}

\* Mutant: a unique column on the left is taken for one on the right.
CardinalityOfEitherSide(sources, eq) ==
    IF \/ FieldUnique(ColumnField(sources, eq.left))
       \/ FieldUnique(ColumnField(sources, eq.right))
    THEN "many_to_one" ELSE "one_to_many"

CardinalityOf(sources, eq) ==
    CASE /\ FieldUnique(ColumnField(sources, eq.left))
         /\ FieldUnique(ColumnField(sources, eq.right)) -> "one_to_one"
      [] /\ ~FieldUnique(ColumnField(sources, eq.left))
         /\ FieldUnique(ColumnField(sources, eq.right)) -> "many_to_one"
      [] OTHER                                          -> "one_to_many"

\* Mutant: an unprovable join is given a cardinality of its own.
InferOrGuessCardinality(sources, alias, eqs) ==
    LET inferred == {CardinalityOf(sources, eq) :
                        eq \in UsableEqualities(sources, alias, eqs)}
    IN  IF inferred = {} THEN "many_to_many" ELSE CHOOSE c \in inferred : TRUE

(***************************************************************************)
(* The best ranked inference wins (objectSQLCardinalityRank).  "" when no   *)
(* usable equality was found: the cardinality is unprovable.                *)
(***************************************************************************)
InferJoinCardinality(sources, alias, eqs) ==
    LET inferred == {CardinalityOf(sources, eq) :
                        eq \in UsableEqualities(sources, alias, eqs)}
    IN  CASE "one_to_one" \in inferred -> "one_to_one"
          [] "one_to_one" \notin inferred /\ "many_to_one" \in inferred -> "many_to_one"
          [] inferred = {"one_to_many"} -> "one_to_many"
          [] OTHER -> ""

-----------------------------------------------------------------------------
(***************************************************************************)
(* validateAmplification, for one aggregate of a projection.                *)
(***************************************************************************)
AmplificationExempt(m) == m.distinct \/ m.name \in {"min", "max"}

\* Mutant: the join that follows a source is taken for the source itself.
AmplifiedBeyondNext(sources, m) ==
    /\ ~AmplificationExempt(m)
    /\ \E j \in DOMAIN sources :
           /\ sources[j].cardinality = "one_to_many"
           /\ \/ m.aliases = {} /\ m.name = "count"
              \/ \E i \in DOMAIN sources : i + 1 < j /\ sources[i].alias \in m.aliases

\* Mutant: COUNT over no column is forgotten.
AmplifiedColumnsOnly(sources, m) ==
    /\ ~AmplificationExempt(m)
    /\ \E j \in DOMAIN sources :
           /\ sources[j].cardinality = "one_to_many"
           /\ \E i \in DOMAIN sources : i < j /\ sources[i].alias \in m.aliases

Amplified(sources, m) ==
    /\ ~AmplificationExempt(m)
    /\ \E j \in DOMAIN sources :
           /\ sources[j].cardinality = "one_to_many"
           /\ \/ m.aliases = {} /\ m.name = "count"
              \/ \E i \in DOMAIN sources : i < j /\ sources[i].alias \in m.aliases

=============================================================================
