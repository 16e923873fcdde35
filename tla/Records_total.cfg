SPECIFICATION MCSpec
CONSTANTS
    a1 = a1
    a2 = a2
    Workers = {a1, a2}
    NoWorker = NoWorker
    MaxOps = 2
    MaxAttempts = 1
    Calls = {1, 2, 3}
    Scopes = {"s1", "s2", "s3"}
    MaxActive = 2
    Capacity = 1
    TTL = 1
    MaxTime = 2
    Controllers = {a1, a2}
    Observations <- MCObservations
    Attempts = 2
    MaxWrites = 2
    MaxObjects = 2
    MaxApplies = 1
SYMMETRY MCSymmetry
INVARIANTS TotalCoversPage
CHECK_DEADLOCK FALSE
