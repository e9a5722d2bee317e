------------------------------ MODULE SemContext ------------------------------
(* The symbol table and the function registry of src/sem/context.cpp, as values *)
(* and the operations on them.                                                  *)
EXTENDS SemTypes, Sequences

CONSTANT Names    \* the identifiers a program uses

-------------------------------------------------------------------------------
(* SymbolTable: a sequence of scopes, each from names to declaring nodes.        *)

Scope == [Names -> Nodes \cup {NoNode}]
EmptyScope == [name \in Names |-> NoNode]

push_scope(scopes, scope) == Append(scopes, scope)

\* Mutant: the outermost function's scope is never popped either.
pop_scope_OffByOne(scopes) ==
    IF Len(scopes) > 2 THEN SubSeq(scopes, 1, Len(scopes) - 1) ELSE scopes

\* The outermost scope is never popped.
pop_scope(scopes) ==
    IF Len(scopes) > 1 THEN SubSeq(scopes, 1, Len(scopes) - 1) ELSE scopes

Declares(scope, name) == scope[name] # NoNode

\* emplace: the first declaration of a name in a scope stays.
insert(scopes, name, node) ==
    IF Declares(scopes[Len(scopes)], name)
    THEN scopes
    ELSE [scopes EXCEPT ![Len(scopes)][name] = node]

\* The innermost declaration of name, if any.
Levels(scopes, name) == {level \in DOMAIN scopes : Declares(scopes[level], name)}

lookup(scopes, name) ==
    IF Levels(scopes, name) = {}
    THEN NoNode
    ELSE scopes[CHOOSE level \in Levels(scopes, name) :
                    \A other \in Levels(scopes, name) : other <= level][name]

-------------------------------------------------------------------------------
(* FunctionRegistry: one entry per name, whatever the scope.  by_node_ is the    *)
(* inverse of the entries' own nodes.                                            *)

Parameter(name, node, type) == [name |-> name, node_id |-> node, type |-> type]
Parameters == [name : Names, node_id : Nodes, type : Types]

Signature(node, parameters) ==
    [node_id |-> node, parameters |-> parameters, return_type |-> Unknown]
Signatures ==
    [node_id : Nodes \cup {NoNode}, parameters : Seq(Parameters), return_type : Types]

NoSignature == Signature(NoNode, <<>>)
EmptyRegistry == [name \in Names |-> NoSignature]

IsRegistered(registry, name) == registry[name].node_id # NoNode

\* emplace again: a second function of the same name finds the first's entry.
declare(registry, name, signature) ==
    IF IsRegistered(registry, name)
    THEN registry
    ELSE [registry EXCEPT ![name] = signature]

\* The name under which FunctionRegistry::lookup(NodeId) finds an entry.
RegisteredAs(registry, node) ==
    {name \in Names : IsRegistered(registry, name) /\ registry[name].node_id = node}
===============================================================================
