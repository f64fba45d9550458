SPECIFICATION FairSpec
CONSTANTS
    MSS = 1200
    MAX_RWND = 2
    INITIAL_SSTHRESH = 2400
    MessageLengths = {0, 3000}
    MaxSegments = 4
    MaxCwnd = 7200
INVARIANTS
    TypeOK
    WindowContiguous
    InflightExact
    NoStall
    CongestionWindow
    InOrderExactlyOnce
    AckedIsReceived
    NeverBeyondWindow
PROPERTIES
    NoUselessSend
    StreamSafety
    StreamSpec
    SenderDrains
CHECK_DEADLOCK FALSE
