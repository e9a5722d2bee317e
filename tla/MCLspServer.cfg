\* A whole session of up to three messages, one of every kind the server tells apart.
CONSTANTS
    Payloads <- MCPayloads
    MaxMessages = 3
SPECIFICATION Spec
INVARIANTS
    TypeOK
    RepliesMatch
    ExitCodeContract
PROPERTIES
    EventuallyAnswered
    EventuallyReturns
\* After run() returns nothing is left to do.
CHECK_DEADLOCK FALSE
