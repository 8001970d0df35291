SPECIFICATION Spec
CONSTANTS
    Rings = 1
    MaxChunks = 2
    MaxTime = 2
    Parallelism = 2
    ChannelCap = 1
    Decoders = {"libipt"}
    UntimedRings = {}
    Overflows = TRUE
    Faults = FALSE
INVARIANT LossIsReported
