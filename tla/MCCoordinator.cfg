SPECIFICATION Spec
CONSTANTS
    Owners = {1, 2, 3}
    Coordinators = {1, 2}
    Flow = 3
    Dev <- OneDevice
    Shared = FALSE
    Conns = {1, 2, 3, 4, 5}
    MaxFaults = 1
    Threshold = 2
    MaxCommands = 1
INVARIANTS
    NoConnectionForgotten
    SettingsFresh
PROPERTIES
    SlotReleased
    PollsRecover
CHECK_DEADLOCK FALSE
