SPECIFICATION FairTaskSpec
CONSTANTS
    k1 = k1
    k2 = k2
    Task <- TwoTasks
    Unsupported <- SecondUnsupported
    Operator <- CancelOnly
    AgentFaults <- CleanFaults
    MaxAsks = 1
    MaxOutages = 1
    ReconnectBase = 1
    ReconnectCap = 2
INVARIANTS CancelReachesManager
PROPERTIES UndisturbedReachesTerminal
CHECK_DEADLOCK FALSE
