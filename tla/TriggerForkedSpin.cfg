SPECIFICATION FairSpec
CONSTANTS
    Threads = {t1, t2}
    Root = t1
    Wanted = 1
    MaxCalls = 2
    Forks = TRUE
    Signals = FALSE
CHECK_DEADLOCK FALSE
PROPERTIES
    RewoundIsPassed
