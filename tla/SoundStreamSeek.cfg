SPECIFICATION FairSpec
CONSTANTS
    Total = 5
    PageSize = 2
    Targets = {1}
    Loops <- NoLoops
    MaxJobs = 1
    OrderLimit = 4
    MayFail = TRUE
    Reuse = FALSE
    NoSeek = NoSeek
    NoLoop = NoLoop
    NoJob = NoJob
INVARIANTS
    DeliveredAtCursor
PROPERTIES
    CallsReturn
    KeepsPlaying
