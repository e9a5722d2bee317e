\* A let in a new context.
CONSTANT Calls <- NewLet
SPECIFICATION Spec
INVARIANTS
    LetNamesAreIdentifiers
\* A call of the parser ends.
CHECK_DEADLOCK FALSE
