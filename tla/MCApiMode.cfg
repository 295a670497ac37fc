SPECIFICATION FairSpec
CONSTANTS
    Req = {r1}
    Loop = Loop
    Esp = TRUE
    MaxFail = 4
    MaxReq = 1
    MaxSwitch = 1
    MaxSet = 1
INVARIANTS
    SessionsApart
    RestartedOnce
    IdentificationRefetched
PROPERTIES
    RequestsServed
    PollsComeRound
CHECK_DEADLOCK FALSE
