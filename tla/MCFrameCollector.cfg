SPECIFICATION Spec
CONSTANTS
    Task = {t1, t2}
    NoTask = NoTask
    Payload = {p}
    Index = {1, 2, 3}
    Count = {0, 1, 2, 3, 4}
    BitmapBits = 3
    AckEvery = 2
    MaxTxn = 3
SYMMETRY TaskSymmetry
INVARIANTS
    BitmapExact
    CompleteIsNoticed
    AtMostOnce
CHECK_DEADLOCK FALSE
