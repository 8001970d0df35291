SPECIFICATION FairSpec
CONSTANTS
    Threads = {t1, t2, t3}
    Root = t1
    Wanted = 2
    MaxCalls = 2
    Forks = TRUE
    Signals = TRUE
CHECK_DEADLOCK FALSE
INVARIANTS
    PatchIsSound
    FiresOnce
PROPERTIES
    ReachedIsPassed
