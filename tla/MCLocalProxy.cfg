SPECIFICATION FairSpec
CONSTANTS
    MaxChunks <- MCMaxChunks
    MaxFailures = 1
CHECK_DEADLOCK FALSE
INVARIANTS
    NothingLeftOpen
    CallbackRuns
    OrderlyEndIsComplete
PROPERTY BridgesUnwind
