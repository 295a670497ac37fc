SPECIFICATION FairChannelSpec
CONSTANTS
    Caller = {c1, c2, c3}
    MaxReq = 2
    MaxCancel = 1
    MaxWriteFail = 1
INVARIANTS
    OneInFlight
    OwnAnswerInv
PROPERTIES
    CallsEnd
CHECK_DEADLOCK FALSE
