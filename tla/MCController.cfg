SPECIFICATION FairSpec
CONSTANTS
    Tabs = 1
    Sids = 2
    EvCap = 2
INVARIANTS HandleIsValid OneActivePerTab
PROPERTIES CloseCompletes 
CHECK_DEADLOCK FALSE
