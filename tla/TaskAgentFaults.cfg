SPECIFICATION FairTaskSpec
CONSTANTS
    k1 = k1
    k2 = k2
    Task <- OneTask
    Unsupported <- AllSupported
    Operator <- CancelAndComplete
    AgentFaults <- EveryFault
    MaxAsks = 2
    MaxOutages = 3
    ReconnectBase = 1
    ReconnectCap = 3
INVARIANTS TaskTypeOK BackoffFollowsOutages
PROPERTIES VersionsIncrease WorkersEnd OpenTaskIsTaken
CHECK_DEADLOCK FALSE
