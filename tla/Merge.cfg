SPECIFICATION FairSpec
CONSTANTS
    Rings = 2
    MaxChunks = 2
    MaxTime = 2
    Parallelism = 4
    ChannelCap = 1
    Decoders = {"libipt", "perf"}
    UntimedRings = {1}
    Overflows = FALSE
    Faults = TRUE
INVARIANTS EachOnce 
PROPERTY DecodeEnds
