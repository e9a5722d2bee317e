\* Every stream of tokens over each of the alphabets.
CONSTANT Calls <- MCCalls
SPECIFICATION Spec
INVARIANTS
    TypeOK
    TreeSpellsTokens
    ParsesTheGrammar
    EveryNodeHeldOnce
    SpansNest
PROPERTY EventuallyDone
\* A call of the parser ends.
CHECK_DEADLOCK FALSE
