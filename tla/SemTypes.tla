------------------------------- MODULE SemTypes -------------------------------
(* The types of src/sem/types.h and what the analyzer does with two of them.    *)
EXTENDS Naturals

CONSTANT MaxNodes    \* bound: how many declaring nodes an AST has

ASSUME MaxNodesIsNat == MaxNodes \in Nat

\* Nodes that declare a name: functions, parameters and lets, numbered in the
\* order the analyzer meets them.  A function node and the identifier node that
\* holds its name are one.
Nodes  == 1..MaxNodes
NoNode == 0

PlainKinds == {"Unknown", "Void", "Integer", "Float", "Bool", "String"}

Type(kind)         == [kind |-> kind, reference |-> NoNode]
FunctionType(node) == [kind |-> "Function", reference |-> node]
Unknown            == Type("Unknown")
Types == {Type(kind) : kind \in PlainKinds} \cup {FunctionType(node) : node \in Nodes}

IsKnown(type) == type.kind # "Unknown"
\* What a history of types written keeps of a type.
Known(type) == IF IsKnown(type) THEN {type} ELSE {}

\* Mutant: functions are alike whichever they refer to.
Conflict_AnyFunction(lhs, rhs) == IsKnown(lhs) /\ IsKnown(rhs) /\ lhs.kind # rhs.kind

\* SemanticAnalyzer::unify_types: the type it returns and the code it reports.
Conflict(lhs, rhs) ==
    /\ IsKnown(lhs) /\ IsKnown(rhs)
    /\ \/ lhs.kind # rhs.kind
       \/ lhs.kind = "Function" /\ lhs.reference # rhs.reference

\* Mutant: a conflict has a kind of its own.
unify_types_OwnKind(lhs, rhs) ==
    IF ~IsKnown(lhs) THEN rhs
    ELSE IF Conflict(lhs, rhs) THEN Type("Conflict") ELSE lhs

unify_types(lhs, rhs) ==
    IF ~IsKnown(lhs) THEN rhs
    ELSE IF Conflict(lhs, rhs) THEN Unknown ELSE lhs

Mismatch(lhs, rhs) == IF Conflict(lhs, rhs) THEN {"SemTypeMismatch"} ELSE {}

pick_known(lhs, rhs) == IF IsKnown(lhs) THEN lhs ELSE rhs
===============================================================================
