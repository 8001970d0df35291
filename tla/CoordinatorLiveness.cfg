SPECIFICATION FairSpec
CONSTANTS
    Sessions = {s1}
    Jobs = {j1, j2, j3}
    None = None
    Details <- AllDetails
    MaxActiveCaptures = 1
    MaxDecodeJobs = 2
    MaxPendingExpensive = 2

CHECK_DEADLOCK FALSE
PROPERTIES
    WorkEnds
