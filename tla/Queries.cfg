SPECIFICATION Spec
CONSTANTS
    None = None
    Tasks <- TwoThreadsAndChild
    Root <- Leader
    Recordings = {"launch", "attach"}
    Images = {"A", "B"}
    Addrs = {0, 1, 2}
    Code <- SmallCode
    MaxRecords = 5
    PathDepth = 2
    StemOf <- HashedNames
    DetailLevels = {"calls", "instructions"}
    Threads = {a, b}
    Names = {"f", "g"}
    MaxSpans = 3
    MaxServed = 2
    MaxClock = 2
    MaxStack = 3
    Pairs <- SomePairs
    Limits = {1, 2}
    Weight <- Heavy
    Least <- Shrunk
    Budget = 2
SYMMETRY ThreadSymmetry
CHECK_DEADLOCK FALSE
INVARIANTS BranchesAreTrue  HotpathsAreTrue  PairedOnce PagedOnce
 
