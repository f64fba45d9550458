SPECIFICATION ThreadsSpec
CONSTANTS
    MSS = 1200
    MAX_RWND = 2
    INITIAL_SSTHRESH = 2400
    MessageLengths = {6000}
    MaxSegments = 5
    MaxCwnd = 7200
INVARIANTS
    EveryPacketKept
    OldestAtBase
    OneBeyondWindow
CHECK_DEADLOCK FALSE
