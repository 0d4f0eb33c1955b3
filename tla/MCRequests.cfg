CONSTANTS
    NaN = NaN
    NoResult = NoResult
    IntMax = 7
    disable_event_logging = FALSE
    Alphabet <- Symbols
    Workload <- MCWorkload

SPECIFICATION FairSpec

INVARIANTS TypeOK TreesAgree RepliesAreFrames
PROPERTIES ErrorsChangeNothingLoggable CutRequestsAreRefused AnswersLag ImplementsService CallsReturn
