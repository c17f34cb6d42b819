SPECIFICATION TaskSpec
CONSTANTS
    k1 = k1
    k2 = k2
    Task <- OneTask
    Unsupported <- AllSupported
    Operator <- CompleteOnly
    AgentFaults <- NoFaults
    MaxAsks = 1
    MaxOutages = 0
    ReconnectBase = 1
    ReconnectCap = 2
PROPERTIES TerminalIsFinal
CHECK_DEADLOCK FALSE
