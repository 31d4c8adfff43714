SPECIFICATION Spec
CONSTANTS
    NumRequests = 2
    LogEvents <- Lifecycle
    Registrations <- FirstRegisters
    EarlyReports = {FALSE}
    LogsClients = {TRUE}
    Interrupts = {}
    MaxLogBatch = 1
    MaxRetries = 0
    AgentSignals = FALSE
    MaxSize = 3
    AgentCap = 1
    LambdaCap = 1
    LogsCap = 1
    SyncFlush = TRUE
    MaxOutages = 0
INVARIANTS ProxyIsKept
