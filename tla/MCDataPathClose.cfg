SPECIFICATION FairestSpec
CONSTANTS
    Total = 9
    Gens = 1
    Retries = 1
    MaxCmds = 2
    OutCap = 1
    InCap = 1
    FrameCap = 1
    MaxFrame = 1
    High = 1
    Low = 1
PROPERTY CloseStopsSupervisor
CHECK_DEADLOCK FALSE
