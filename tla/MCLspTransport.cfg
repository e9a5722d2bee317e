\* Frames of all sorts, cut into units, with an editor that may die at any unit.
CONSTANTS
    Frames <- MCAnyFrames
    MaxMessages = 3
    AwaitInitialize = FALSE
SPECIFICATION ClosingSpec
INVARIANTS
    TypeOK
    DeliveredIsPrefix
    FaultsAreContained
PROPERTIES
    ImplementsServer
    EventuallyAnswered
    EventuallyReturns
\* After run() returns and the stream is closed nothing is left to do.
CHECK_DEADLOCK FALSE
