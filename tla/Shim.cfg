SPECIFICATION FairSpec
CONSTANTS
    Threads = {t1, t2, t3}
    Root = t1
    None = None
    AuxBytes = 2
    AuxBudget = 3
CHECK_DEADLOCK FALSE
INVARIANTS
    ParentWaitsForRecorder
    BudgetRespected
    ExitIsSnapped
PROPERTIES
    
    ThreadsBecomeKnown
