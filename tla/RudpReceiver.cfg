SPECIFICATION MCSpec
CONSTANTS
    MSS = 1200
    MAX_RWND = 5
    StreamLength = 8
INVARIANTS
    BufferInWindow
    WindowNeverCloses
    WholeMessages
    ConsumesPrefix
    AckIsCurrent
