\* A sign before a sum.
CONSTANT Calls <- Signed
SPECIFICATION Spec
INVARIANTS
    ParsesTheWholeGrammar
\* A call of the parser ends.
CHECK_DEADLOCK FALSE
