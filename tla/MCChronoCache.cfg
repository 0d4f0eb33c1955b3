CONSTANTS
    Threads = {w1, w2}
    InitThreads = {w1}
    Keys = {k}
    Values = {a, b}
    NoValue = NoValue
    NoThread = NoThread
    TTLs = {2}
    ReplayModes = {TRUE}
    EventLogging = TRUE
    MaxTime = 3
    MaxCalls = 3
    MaxCrashes = 1
    MaxTopic = 2
SYMMETRY Symmetry
SPECIFICATION Spec
INVARIANTS TypeOK SeqCoversLog NoSeqReuse SeqInv LogAgrees TTLsResume
