SPECIFICATION Spec
CONSTANTS
    Sessions = {s1, s2}
    Jobs = {j1, j2, j3}
    None = None
    Details <- AllDetails
    MaxActiveCaptures = 1
    MaxDecodeJobs = 1
    MaxPendingExpensive = 2
SYMMETRY IdSymmetry
CHECK_DEADLOCK FALSE
INVARIANTS
    Accounting
    CapturedIsComplete
    QueuedIsServed
    SucceededIsOnDisk
PROPERTIES
    ImplementsService
