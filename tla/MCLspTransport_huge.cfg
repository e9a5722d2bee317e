\* A Content-Length that does not fit a string.
CONSTANTS
    Frames <- MCHuge
    MaxMessages = 1
    AwaitInitialize = FALSE
SPECIFICATION Spec
INVARIANT MalformedHeadersEndSession
CHECK_DEADLOCK FALSE
