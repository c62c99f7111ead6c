SPECIFICATION Spec
CONSTANTS
    rider_count = 2
    driver_count = 1
    FlushOnSend = FALSE
    BufCap = 3
    Repeat = 2
    Versions = {1, 2, 3, 4}
    VERTEX_NUM = 2
    Threshold <- MCThreshold
    SelfKey <- MCSelfKey
    Documents <- MCDocuments
    Garbage <- MCGarbage
    WORD = 5
    LIMIT = 3
    LOW = 1
INVARIANTS Lockstep BlocksAligned MatchesCorrect
PROPERTIES Terminates
CHECK_DEADLOCK FALSE
