SPECIFICATION Spec
CONSTANTS
    MaxCapture = 2
    AfterSet = {1, 3}
    TailSet = {0, 1}
    HandleTime = 1
    Finalize = 2
    AckLimit = 4
    MaxReports = 3
    None = None
INVARIANTS
    StopsOnTime
    ParkedUntilTaken
    OwnedIsTerminated

    
CHECK_DEADLOCK FALSE
