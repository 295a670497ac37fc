SPECIFICATION Spec
CONSTANTS
    MaxAttempts = 3
    MaxRequests = 2
    MaxPushes = 2
    MaxLost = 1
INVARIANTS
    KeysAgree
    NothingGarbled
PROPERTIES
    AcceptsAgain
CHECK_DEADLOCK FALSE
