SPECIFICATION FairSpec
CONSTANTS
    Total = 3
    PageSize = 1
    Targets = {1}
    Loops <- TheLoops
    MaxJobs = 1
    OrderLimit = 4
    MayFail = FALSE
    Reuse = FALSE
    NoSeek = NoSeek
    NoLoop = NoLoop
    NoJob = NoJob
INVARIANTS
    TypeOK
    StreamOpenInUse
    RewindAlone
    JobsInOrder
    SeeksCounted
    NoFillWhileCopied
