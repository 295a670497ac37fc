SPECIFICATION LinkSpec
CONSTANTS
    Task = {t1, t2}
    NoTask = NoTask
    Payload <- MCPayload
    Index <- MCIndex
    Count <- MCCount
    BitmapBits = 64
    AckEvery = 4
    MaxTxn = 12
    MaxRetransmit = 3
    Requests = 3
    FrameCounts = {1, 2, 3, 4}
    LossyCounts = {2, 6}
    MaxLost = 1
PROPERTIES
    ImplementsAskAnswer
    RequestsEnd
CHECK_DEADLOCK FALSE
