CONSTANTS
    Threads = {w1, w2}
    InitThreads = {w1}
    Keys = {k}
    Values = {a, b}
    NoValue = NoValue
    NoThread = NoThread
    TTLs = {1}
    ReplayModes = {TRUE}
    EventLogging = TRUE
    MaxTime = 2
    MaxCalls = 2
    MaxCrashes = 1
    MaxTopic = 3
SYMMETRY Symmetry
SPECIFICATION Spec
INVARIANT ExpiredStaysGone
