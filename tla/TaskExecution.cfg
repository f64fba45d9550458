SPECIFICATION Spec
CONSTANTS
    STREAM_THRESHOLD = 2
    NoFile = NoFile
    Tasks <- MCTasks
    Contains <- MCContains
    Lines <- MCLines
    InitialFiles <- MCInitialFiles
    TempNames = {"tmp1", "tmp2"}
    INLINE_LIMIT = 2
    SEARCH_CAP = 1
    MaxTasks = 3
    MaxCrashes = 1
INVARIANTS
    WholeFiles
    ErrorLeavesFiles
    AnswerIsTrue
CHECK_DEADLOCK FALSE
