SPECIFICATION FairTaskSpec
CONSTANTS
    k1 = k1
    k2 = k2
    Task <- OneTask
    Unsupported <- AllSupported
    Operator <- CancelOnly
    AgentFaults <- NoFaults
    MaxAsks = 1
    MaxOutages = 0
    ReconnectBase = 1
    ReconnectCap = 2
PROPERTIES ReachesTerminal
CHECK_DEADLOCK FALSE
