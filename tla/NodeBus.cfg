SPECIFICATION FairSpec
CONSTANTS
    b1 = b1
    b2 = b2
    b3 = b3
    c1 = c1
    c2 = c2
    Buses = {b1, b2, b3}
    Callers = {c1, c2}
    Detachers = {c1}
    Head = Head
    Null = Null
    Nobody = Nobody
INVARIANTS
    ReleasedNotVisited
    ListIntact
    RefCountExact
PROPERTIES
    ImplementsGate
    DetachReturns
