SPECIFICATION Spec
CONSTANTS
    Installs = {"on-demand", "persistent", "hacs"}
    MaxRequests = 2
    MaxFaults = 2
    Companions <- MCCompanions
    Touched <- MCTouched
INVARIANTS
    CacheExact
    LabelsTrue
    Honoured
    NothingBlank
    MonitorTrue
CHECK_DEADLOCK FALSE
