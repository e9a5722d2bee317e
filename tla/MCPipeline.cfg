\* Bodies of up to three instructions, alone and after another function, and
\* signatures with every type in every place.
CONSTANTS
    ModuleSets <- MCModuleSets
    Registers <- MCRegisters
    Arguments <- MCArguments
    CallValue <- MCCallValue
    Greatest = 3
    GreatestInt = 1
    Passes = 2
    Options <- MCOptions
    TypeDepth = 2
    Undefined = Undefined
    NoName = NoName
    NoConstant = NoConstant
SPECIFICATION PipelineSpec
INVARIANTS
    TypeOK
    MeaningKept
    TypesAreDeclared
    HeaderIncludesAreUsed
    BodiesAreDeclared
PROPERTY OncePassedIsFolded
\* The compiler stops when its files are written, or when a division traps.
CHECK_DEADLOCK FALSE
