SPECIFICATION FairSpec
CONSTANTS
    Cmd = {c1}
    ViaMqtt = {}
    MaxSession = 3
    MaxFail = 2
    MaxSwitch = 2
    MaxChange = 1
    MaxCmd = 1
INVARIANTS
    NoLinkLeftBehind
    NoPhantomConnection
PROPERTIES
    DisconnectHonoured
    PollsGoOn
    ShutdownEnds
CHECK_DEADLOCK FALSE
