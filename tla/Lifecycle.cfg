SPECIFICATION FairSpec
CONSTANTS
    w1 = w1
    Workers = {w1}
    NoWorker = NoWorker
    MaxOps = 4
    QuotaConfigured = TRUE
    ApplyMayBreak = TRUE
    MaxFaults = 1
    MaxNotifications = 1
INVARIANTS RouteHasRuntime Settled QuotaExclusive
PROPERTIES PublishedWhenReady JournalSpec OperationsEnd
CHECK_DEADLOCK FALSE
