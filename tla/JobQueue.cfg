SPECIFICATION FairSpec
CONSTANTS
    p1 = p1
    p2 = p2
    w1 = w1
    w2 = w2
    Posters = {p1}
    Workers = {w1}
    Owner = Owner
    Capacity = 4
    GroupSize = 2
    NoSlot = NoSlot
    Nobody = Nobody
    NoJob = NoJob
    Quit = Quit
CHECK_DEADLOCK FALSE
INVARIANTS
    QueueConsistent
PROPERTIES
    ImplementsFifo
    EveryJobTaken
    WorkersEnd
