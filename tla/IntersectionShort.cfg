SPECIFICATION Spec
CONSTANTS
    rider_count = 1
    driver_count = 1
    FlushOnSend = FALSE
    BufCap = 3
    Repeat = 1
    Versions = {4}
    VERTEX_NUM = 2
    Threshold <- MCThreshold
    SelfKey <- MCSelfKey
    Documents <- MCShortDocuments
    Garbage <- MCGarbages
    WORD = 5
    LIMIT = 3
    LOW = 1
INVARIANTS ShortMatchesCorrect
CHECK_DEADLOCK FALSE
