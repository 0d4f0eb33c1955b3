CONSTANTS
    k1 = k1
    k2 = k2
    k3 = k3
    Keys = {k1, k2, k3}
    Values = {a, b}
    DefaultValue = b
    NoNode = NoNode
    NoValue = NoValue
    Hash <- HashOf
    Threads = {t1, t2}
    NoThread = NoThread
    NumSlices = 2
    InitialCapacity = 2
    Kinds = {"set", "get_or_add", "process_and_remove_if", "remove", "get"}
    MaxOps = 3
SPECIFICATION FairSpec
INVARIANTS TypeOK BucketExclusion ChainsWellFormed
PROPERTIES ImplementsAtomicMap OperationsReturn
