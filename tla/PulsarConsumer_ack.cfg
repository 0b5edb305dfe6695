SPECIFICATION FairSpec
CONSTANTS
    t1 = t1
    t2 = t2
    Topics = {t1, t2}
    MaxMsg = 2
    MaxStarts = 2
    Builds = {"callback", "php"}
    ManualModes = {TRUE, FALSE}
    ForceModes = {TRUE, FALSE}
    AckFailures = TRUE
INVARIANTS
    TypeOK
    MapExclusive
    AckedIsProcessed
    NothingForgotten
PROPERTIES
    
    StopReturns
    StartReturns
    WaitingIsAcked
