SPECIFICATION Spec
CONSTANTS
    NumRequests = 1
    LogEvents <- AllLogs
    Registrations <- NobodyRegisters
    EarlyReports = {TRUE, FALSE}
    LogsClients = {TRUE}
    Interrupts = {}
    MaxLogBatch = 2
    MaxRetries = 1
    AgentSignals = FALSE
    MaxSize = 3
    AgentCap = 1
    LambdaCap = 1
    LogsCap = 1
    SyncFlush = FALSE
    MaxOutages = 0
INVARIANTS ShippedOnce
PROPERTIES OnlyProxiesAreLost
