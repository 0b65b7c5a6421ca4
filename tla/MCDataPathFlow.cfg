SPECIFICATION FairSpec
CONSTANTS
    Total = 4
    Gens = 2
    Retries = 1
    MaxCmds = 2
    OutCap = 1
    InCap = 1
    FrameCap = 1
    MaxFrame = 2
    High = 1
    Low = 1
INVARIANTS TypeOK InOrder LostResumeExplained
PROPERTIES OutputDelivered CloseStopsUngated
CHECK_DEADLOCK FALSE
