SPECIFICATION TruthSpec
CONSTANTS
    Tasks <- OneTask
    Thread <- Runner
    None = None
    Functions = {f, g}
    Mappings = {m}
    CPUs = {c, d}
    MaxTime = 5
    MaxRecords = 5
    MaxDepth = 3
    Stubs = TRUE
    Signals = TRUE
    Errors = TRUE
    MaxStart = 2
INVARIANTS   FramesAreGrounded
SYMMETRY PlaceSymmetry
