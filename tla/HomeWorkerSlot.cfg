SPECIFICATION FairWorkerSpec
CONSTANTS
    Scopes = {s1}
    Types = {"candidates", "radio"}
    Gens = {g1, g2}
    SlotGens = {}
    Payloads = {p1}
    Identity <- MCIdentity
    JobIds = {1, 2}
    Schedulers = {}
    Demands <- MCDemands
    MaxAttempts <- MCMaxAttempts
    BackoffSteps <- MCBackoffSteps
    BackoffCap = 1
    Delays = {}
    Lease = 2
    Skew = 1
    MaxPreserved = 0
    Tables <- MCSlotTables
    Workers = {"w1", "w2"}
    Processes = {"p1"}
    LaneOf <- MCSlotLanes
    ProcessOf <- MCOneProcess
    IdlePolicy = TRUE
    Punctual = FALSE
    RenewEvery = 1
INVARIANTS
    SlotHeldByHandler
PROPERTIES
    JobsSettle
CHECK_DEADLOCK FALSE
