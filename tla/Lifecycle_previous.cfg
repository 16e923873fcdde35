SPECIFICATION Spec
CONSTANTS
    w1 = w1
    Workers = {w1}
    NoWorker = NoWorker
    MaxOps = 3
    QuotaConfigured = TRUE
    ApplyMayBreak = FALSE
    MaxFaults = 0
    MaxNotifications = 0
INVARIANTS DeletedHoldsNoQuota
CHECK_DEADLOCK FALSE
