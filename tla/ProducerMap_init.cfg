SPECIFICATION Spec
CONSTANTS
    t1 = t1
    t2 = t2
    t3 = t3
    k1 = k1
    k2 = k2
    None = None
    Objs = {o1, o2}
    Targets = {t3}
    MqOf <- MCPulsar
    Keys = {k2}
    KeyOf <- MCPulsarKey
    Addr = {a1, a2}
INVARIANT FoundIsReused
