SPECIFICATION Spec
CONSTANTS
    t1 = t1
    t2 = t2
    t3 = t3
    k1 = k1
    k2 = k2
    None = None
    Objs = {o1, o2, o3}
    Targets = {t1, t2, t3}
    MqOf <- MCMqOf
    Keys = {k1, k2}
    KeyOf <- MCKeyOf
    Addr = {a1, a2, a3}
SYMMETRY Symmetry
INVARIANTS
    
    NothingAbandoned
