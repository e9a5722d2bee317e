\* A function whose returns conflict and then go on.
CONSTANTS
    Names = {f}
    LiteralKinds = {"Integer", "String"}
    MaxNodes = 1
    MaxDepth = 1
    MaxOperands = 1
    MaxParams = 0
    WatchedCodes = {"SemTypeMismatch", "SemDuplicateSymbol"}
    NoName = NoName
    Block = Block
SPECIFICATION Spec
INVARIANT ConflictingReturnsAreUnknown
CHECK_DEADLOCK FALSE
