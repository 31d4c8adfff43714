SPECIFICATION FairSpec
CONSTANTS
    NumRequests = 1
    LogEvents <- Lifecycle
    Registrations <- AnyRegistration
    EarlyReports = {FALSE}
    LogsClients = {TRUE, FALSE}
    Interrupts = {"signal", "error"}
    MaxLogBatch = 1
    MaxRetries = 0
    AgentSignals = TRUE
    MaxSize = 3
    AgentCap = 1
    LambdaCap = 1
    LogsCap = 1
    SyncFlush = TRUE
    MaxOutages = 1
INVARIANTS OneSender FlushFindsItsBodies ShippedOnce PayloadsWellFormed FlushIsHeard ExitDelivers
PROPERTIES EventsEnd SignalEnds ImplementsBatch ImplementsLedger
