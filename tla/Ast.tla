---------------------------------- MODULE Ast ----------------------------------
(* The syntax tree (src/front/ast.h, ast.cpp): nodes in one growing vector,     *)
(* named by their place in it.  Spans count tokens, not characters.             *)
EXTENDS Integers, Sequences

AstKinds ==
    {"Unknown", "Module", "Function", "Declaration", "Expression", "AssignmentExpr",
     "BinaryExpr", "UnaryExpr", "LiteralExpr", "IdentifierExpr", "CallExpr", "ArgumentList",
     "GroupExpr", "BlockStmt", "LetStmt", "ReturnStmt", "ExpressionStmt"}

Span(start, end) == [start |-> start, end |-> end]
Spans == [start : Nat, end : Nat]

merge_span(lhs, rhs) ==
    Span(IF lhs.start <= rhs.start THEN lhs.start ELSE rhs.start,
         IF lhs.end >= rhs.end THEN lhs.end ELSE rhs.end)

NoNode == 0
AstNode(kind, span, value, children) ==
    [kind |-> kind, span |-> span, value |-> value, children |-> children]
Leaf(kind, span, value) == AstNode(kind, span, value, <<>>)

VARIABLES
    nodes,      \* AstContext::nodes_
    capacity    \* how many nodes the vector's block of memory holds

\* A block of each capacity is another block: references into an old one dangle.
Grown(n) == IF n = 0 THEN 1 ELSE 2 * n

NextId == Len(nodes) + 1
NextCapacity == IF Len(nodes) < capacity THEN capacity ELSE Grown(capacity)

\* Mutant: the vector is taken to have room.
create_node_InPlace(node) == nodes' = Append(nodes, node) /\ UNCHANGED capacity

create_node(node) ==
    /\ nodes' = Append(nodes, node)
    /\ capacity' = NextCapacity
===============================================================================
