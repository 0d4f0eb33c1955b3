CONSTANTS
    NumWorkers = 2
    Signals = {sigint, sigterm}
    Main = main_thread
    MaxClients = 1
    MaxFailures = 1
SPECIFICATION FairSpec
INVARIANTS TypeOK ServesUntilStopped ExitIsClean
PROPERTY StopsWhenServing
