SPECIFICATION WorkerSpec
CONSTANTS
    Scopes = {s1}
    Types = {"artwork"}
    Gens = {g1, g2}
    SlotGens = {}
    Payloads = {p1}
    Identity <- MCIdentity
    JobIds = {1, 2}
    Schedulers = {c1}
    Demands <- MCDemands
    MaxAttempts <- MCMaxAttempts
    BackoffSteps <- MCBackoffSteps
    BackoffCap = 1
    Delays = {}
    Lease = 3
    Skew = 1
    MaxPreserved = 0
    Tables <- MCArtworkTables
    Workers = {"w1", "w2"}
    Processes = {"w1", "w2"}
    LaneOf <- MCArtworkLanes
    ProcessOf <- MCOwnProcess
    IdlePolicy = FALSE
    Punctual = TRUE
    RenewEvery = 2
INVARIANTS
    HandlersExclusive
PROPERTIES
    LatestLeaseFinishes
    UsesJobTable
CHECK_DEADLOCK FALSE
