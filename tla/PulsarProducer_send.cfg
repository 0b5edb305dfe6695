SPECIFICATION FairSpec
CONSTANTS
    m1 = m1
    m2 = m2
    Msgs = {m1, m2}
    QueueMax = 1
    QueueFullRetries = 2
    TimeoutRetries = 2
INVARIANTS
    DuplicatesAreRetries
    SendsBounded
    RefusedIsNotSent
PROPERTIES
    SendingEnds
    ImplementsDelivery
