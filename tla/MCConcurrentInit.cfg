CONSTANTS
    Threads = {w1, w2}
    InitThreads = {w1, w2}
    Keys = {k}
    Values = {a}
    NoValue = NoValue
    NoThread = NoThread
    TTLs = {}
    ReplayModes = {TRUE, FALSE}
    EventLogging = TRUE
    MaxTime = 0
    MaxCalls = 2
    MaxCrashes = 1
    MaxTopic = 1
SPECIFICATION FairSpec
PROPERTY InitReturns
