SPECIFICATION Spec
CONSTANTS
    w1 = w1
    Workers = {w1}
    NoWorker = NoWorker
    MaxOps = 2
    QuotaConfigured = TRUE
    ApplyMayBreak = FALSE
    MaxFaults = 1
    MaxNotifications = 0
INVARIANTS CancelledPlaceholderIsLocal
CHECK_DEADLOCK FALSE
