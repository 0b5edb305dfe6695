SPECIFICATION PhpSpec
CONSTANTS
    p1 = p1
    p2 = p2
    t1 = t1
    t2 = t2
    k1 = k1
    a = a
    b = b
    c = c
    None = None
    Partitions = {p1, p2}
    Topics = {t1, t2}
    Keys = {k1}
    TopicOf <- MCTopicOf
    KeyOf <- MCKeyOf
    Obj = {a, b}
    MaxOffset = 2
    Modes = {"auto", "internal", "user"}
    CommitPolicy = "worker"
    RebalanceErrors = TRUE
    PauseSets <- MCPauseSets
SYMMETRY Symmetry
INVARIANTS
    CommitsReturned
    OwedIsWaiting
    
    PausedStaysQuiet
    NothingLeaks
PROPERTIES
    OffsetsForward
