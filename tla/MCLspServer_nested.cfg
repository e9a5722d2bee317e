\* A notification with an "id" nested in its params, or a string "id", is answered.
CONSTANTS
    Payloads <- MCNested
    MaxMessages = 1
SPECIFICATION Spec
INVARIANT NotificationsAreIgnored
CHECK_DEADLOCK FALSE
