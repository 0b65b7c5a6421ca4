CONSTANTS
    MaxOutput = 4
    MaxInput = 2
    KernelDepth = 2
    OutputQueueDepth = 2
    WriteQueueDepth = 2
    TailDepth = 1
SPECIFICATION FairSpec
INVARIANTS StreamsIntact ExitIsLast
PROPERTIES ExitReported
CHECK_DEADLOCK FALSE
