SPECIFICATION Spec
CONSTANTS
    Actors = {a1, a2}
    Tokens = {}
    Requests <- MCQueueRequests
    Depth = 2
    ReadyTTL = 0
    ActiveTTL = 1
    MinAge = 0
    Stall = 0
    MaxArtifacts = 3
    MaxPairs = 1
    MaxClock = 2
    MaxResets = 0
SYMMETRY MCSymmetry
INVARIANTS
    RefreshOnce
PROPERTIES
    FeedIsQueue
CHECK_DEADLOCK FALSE
