------------------------------- MODULE MCAnalyzer ------------------------------
(* Analyzer and Lowering on small programs.                                      *)
EXTENDS Lowering, FiniteSets, TLC

\* No action prefers a name to another.
NamesAreAlike == Permutations(Names)

Used(name) ==
    \/ IsRegistered(registry, name)
    \/ \E level \in DOMAIN scopes : scopes[level][name] # NoNode
    \/ \E i \in DOMAIN operands : operands[i].name = name
OneName == Cardinality({name \in Names : Used(name)}) <= 1

\* Programs are followed past what they are rejected for when all they declare
\* contends for one name.  A block directly in a block is left empty.
AcceptedOrOneName == (Accepted \/ OneName) /\ frames # <<Block, Block>>

\* Of a rejected program no property reads the history, nor what it was rejected
\* for, and none is accepted again.
View ==
    <<scopes, registry, types, function_stack, frames, binding, operands, next_node, Accepted,
      IF Accepted THEN history ELSE <<>>>>
===============================================================================
