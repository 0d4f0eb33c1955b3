CONSTANTS
    k1 = k1
    k2 = k2
    k3 = k3
    Keys = {k1, k2, k3}
    Values = {a}
    DefaultValue = a
    NoNode = NoNode
    NoValue = NoValue
    Hash <- HashOf
    Threads = {t1, t2}
    NoThread = NoThread
    NumSlices = 2
    InitialCapacity = 2
    Kinds = {"set"}
    MaxOps = 2
SPECIFICATION Spec
INVARIANT MetricsExact
