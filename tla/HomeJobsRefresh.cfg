SPECIFICATION Spec
CONSTANTS
    Scopes = {s1}
    Types = {"candidates"}
    Gens = {g1, g2}
    SlotGens = {}
    Payloads = {p1, p2}
    Identity <- MCIdentity
    JobIds = {1, 2}
    Schedulers = {c1, c2}
    Demands <- MCRefreshDemands
    MaxAttempts <- MCMaxAttempts
    BackoffSteps <- MCBackoffSteps
    BackoffCap = 1
    Delays = {0}
    Lease = 2
    Skew = 1
    MaxPreserved = 1
    Tables <- MCEmptyTables
VIEW MCView
SYMMETRY MCSymmetry
INVARIANTS
    SingletonActionable
    AdmissionLeasesLive
    KeyUnique
    WaitingClaimable
PROPERTIES
    TerminalFinal
    LeaseKeepsInput
    CancelledWorkSurvives
CHECK_DEADLOCK FALSE
