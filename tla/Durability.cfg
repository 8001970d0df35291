SPECIFICATION Spec
CONSTANTS
    Sessions = {s1}
    Bundles = {b1}
    Procs = {p1, p2, p3, p4}
    NoProc = NoProc
SYMMETRY ProcSymmetry
INVARIANTS
    CapturedOnDisk
    
    CapturingIsAlive
    
PROPERTIES
    UsersKeepFiles
CHECK_DEADLOCK FALSE
