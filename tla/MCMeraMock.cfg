SPECIFICATION Spec
CONSTANTS
    Scenarios <- MCScenarios
    Apps <- MCApps
    BurstFrames = 1
    Ticks = 1
    MaxGen = 2
INVARIANTS
    RestartKeeps
    OneUpdate
    SeenIsTrue
PROPERTIES
    Settles
CHECK_DEADLOCK FALSE
