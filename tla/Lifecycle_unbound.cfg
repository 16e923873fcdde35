SPECIFICATION FairSpec
CONSTANTS
    w1 = w1
    Workers = {w1}
    NoWorker = NoWorker
    MaxOps = 2
    QuotaConfigured = FALSE
    ApplyMayBreak = TRUE
    MaxFaults = 1
    MaxNotifications = 0
PROPERTIES EveryOperationEnds
CHECK_DEADLOCK FALSE
