SPECIFICATION Spec
CONSTANTS
    MaxSessions = 2
    MaxActions = 2
    MaxFaults = 1
INVARIANTS
    OwnAnswers
    InitialisedFirst
    ViewIsLast
PROPERTIES
    CallsEnd
CHECK_DEADLOCK FALSE
