SPECIFICATION ThreadsSpec
CONSTANTS
    MSS = 1200
    MAX_RWND = 3
    INITIAL_SSTHRESH = 2400
    MessageLengths = {8400}
    MaxSegments = 7
    MaxCwnd = 7200
INVARIANT
    NoneStranded
CHECK_DEADLOCK FALSE
