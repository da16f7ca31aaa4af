SPECIFICATION Spec
CONSTANTS
    Scopes = {s1}
    Types = {"candidates", "compose", "artwork", "interaction"}
    Gens = {g1, g2}
    SlotGens = {g2}
    Payloads = {"p1", "p2", "p3"}
    Identity <- MCIdentity
    JobIds = {1, 2, 3}
    Schedulers = {c1}
    Demands <- MCStartupDemands
    MaxAttempts <- MCMaxAttempts
    BackoffSteps <- MCBackoffSteps
    BackoffCap = 1
    Delays = {}
    Lease = 1
    Skew = 0
    MaxPreserved = 1
    Tables <- MCLegacyTables
INVARIANTS
    BudgetKept
    SingletonActionable
PROPERTIES
    CancelledWorkSurvives
CHECK_DEADLOCK FALSE
