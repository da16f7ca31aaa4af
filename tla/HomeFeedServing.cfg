SPECIFICATION Spec
CONSTANTS
    Actors = {a1, a2}
    Tokens = {"tab"}
    Requests <- MCServingRequests
    Depth = 2
    ReadyTTL = 1
    ActiveTTL = 3
    MinAge = 2
    Stall = 1
    MaxArtifacts = 2
    MaxPairs = 1
    MaxClock = 3
    MaxResets = 0
SYMMETRY MCSymmetry
INVARIANTS
    LaunchesWait
    AllocatedOnce
PROPERTIES
    OnlyExpiredOrNewLeave
CHECK_DEADLOCK FALSE
