SPECIFICATION FairSpec
CONSTANTS
    Calls = {c1, c2}
    PartitionCnt = 2
    Keys <- MCKeys
    MaxPolls = 2
    None = None
INVARIANTS
    ResultsAreHeard
    FaultsAreRaced
PROPERTIES
    Routed
    CallsReturn
