CONSTANTS
    NumWorkers = 2
    Signals = {sigint}
    Main = main_thread
    MaxClients = 1
    MaxFailures = 0
SPECIFICATION FairSpec
PROPERTY SignalStopsServer
