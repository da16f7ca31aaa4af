SPECIFICATION Spec
CONSTANTS
    Actors = {a1, a2}
    Tokens = {}
    Requests <- MCWaitingRequests
    Depth = 2
    ReadyTTL = 0
    ActiveTTL = 1
    MinAge = 1
    Stall = 0
    MaxArtifacts = 2
    MaxPairs = 1
    MaxClock = 2
    MaxResets = 1
SYMMETRY MCSymmetry
INVARIANTS
    QueueSound
    RevisionNamesRow
CHECK_DEADLOCK FALSE
