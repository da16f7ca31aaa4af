SPECIFICATION Spec
CONSTANTS
    Actors = {a1}
    Tokens = {"pull", "tab"}
    Requests <- MCTokenRequests
    Depth = 2
    ReadyTTL = 2
    ActiveTTL = 3
    MinAge = 1
    Stall = 0
    MaxArtifacts = 4
    MaxPairs = 1
    MaxClock = 3
    MaxResets = 0
INVARIANTS
    TokenPromotesOnce
CHECK_DEADLOCK FALSE
