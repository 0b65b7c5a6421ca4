SPECIFICATION FairSpec
CONSTANTS
    Enabled = TRUE
    MaxAttempts = 2
    Gens = 2
    Cmds = {c1, c2}
    Sizes = {"s1"}
    InitSize = "s1"
    Strays = {x1}
    Base = 5
    Cap = 300
    Factor = 2
    U32Max = 255
INVARIANTS
    OnlyDropsReconnect
    OneLiveTransport
    GiveUpIsEarned
    AtMostOneLateStatus
    WaitsAreSane
PROPERTIES
    RejectionExplained
    OutageResolves
    ImplementsLife
CHECK_DEADLOCK FALSE
