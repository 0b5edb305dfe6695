SPECIFICATION FairSpec
CONSTANTS
    m1 = m1
    m2 = m2
    m3 = m3
    m4 = m4
    Msgs = {m1, m2, m3, m4}
    QueueMax = 3
    MaxPolls = 2
    MaxFails = 1
    SyncModes = {TRUE, FALSE}
    RecordModes = {TRUE}
INVARIANTS
    TypeOK
    DuplicatesAreResends
    NothingVanishes
    SyncTruth
PROPERTIES
    ImplementsDelivery
    FlushDrains
