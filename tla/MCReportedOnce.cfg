SPECIFICATION Spec
CONSTANTS
    NumRequests = 1
    LogEvents <- Lifecycle
    Registrations <- AnyRegistration
    EarlyReports = {FALSE}
    LogsClients = {TRUE}
    Interrupts = {}
    MaxLogBatch = 1
    MaxRetries = 0
    AgentSignals = TRUE
    MaxSize = 3
    AgentCap = 1
    LambdaCap = 1
    LogsCap = 1
    SyncFlush = TRUE
    MaxOutages = 0
INVARIANTS ReportedOnce
