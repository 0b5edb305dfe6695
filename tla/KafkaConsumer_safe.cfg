SPECIFICATION Spec
CONSTANTS
    p1 = p1
    p2 = p2
    t1 = t1
    t2 = t2
    k1 = k1
    k2 = k2
    a = a
    b = b
    c = c
    d = d
    None = None
    Partitions = {p1, p2}
    Topics = {t1, t2}
    Keys = {k1, k2}
    TopicOf <- MCTopicOf
    KeyOf <- MCKeyOf
    Obj = {a, b, c}
    MaxOffset = 2
    Modes = {"auto", "internal", "user"}
    CommitPolicy = "callback"
    RebalanceErrors = TRUE
    PauseSets <- MCPauseSets
SYMMETRY Symmetry
INVARIANTS
    TypeOK
    NoMisuse
    MessagesOwned
    AtLeastOnce
    PauseCoversAssignment
