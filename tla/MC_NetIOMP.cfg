SPECIFICATION FairSpec
CONSTANTS
    rider_count = 1
    driver_count = 1
    Bipartite = TRUE
    FlushOnSend = FALSE
    BufCap = 1
    Item = {1, 2}
    Message <- MCMessage
    MaxRead = 1
    MaxInFlight = 3
INVARIANTS
    TypeOK
    EndsAgree
    FlushedBeforeBlocking
PROPERTIES
    FIFOSpec
    DialogueResumes
CHECK_DEADLOCK FALSE
