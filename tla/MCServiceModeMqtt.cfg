SPECIFICATION FairSpec
CONSTANTS
    Cmd = {c1}
    ViaMqtt = {c1}
    MaxSession = 1
    MaxFail = 0
    MaxSwitch = 0
    MaxChange = 0
    MaxCmd = 1
PROPERTIES
    ShutdownEnds
CHECK_DEADLOCK FALSE
