SPECIFICATION Spec
CONSTANTS
    Total = 3
    Gens = 1
    Retries = 1
    MaxCmds = 2
    OutCap = 1
    InCap = 1
    FrameCap = 1
    MaxFrame = 2
    High = 1
    Low = 1
INVARIANT NoLostResume
CHECK_DEADLOCK FALSE
