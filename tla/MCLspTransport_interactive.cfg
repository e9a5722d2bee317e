\* An editor that waits for the reply to initialize.
CONSTANTS
    Frames <- MCPlain
    MaxMessages = 2
    AwaitInitialize = TRUE
SPECIFICATION FinishingSpec
PROPERTY InitializeAnswered
CHECK_DEADLOCK FALSE
