\* Every program within the bounds, up to its first mismatch or duplicate, and
\* further if it has one name only.
CONSTANTS
    Names = {f, x}
    LiteralKinds = {"Integer"}
    MaxNodes = 3
    MaxDepth = 2
    MaxOperands = 2
    MaxParams = 1
    WatchedCodes = {"SemTypeMismatch", "SemDuplicateSymbol"}
    NoName = NoName
    Block = Block
SPECIFICATION Spec
SYMMETRY NamesAreAlike
VIEW View
CONSTRAINT AcceptedOrOneName
INVARIANTS
    TypeOK
    SignaturesInStep
    ParametersAreScoped
    AcceptedVariables
    AcceptedReturns
    AcceptedFunctionsResolve
    AcceptedTypesAreLowered
CHECK_DEADLOCK FALSE
