SPECIFICATION ManagedFairSpec
CONSTANTS
    Create = Create
    Deletes = {d1, d2}
    Payloads = {p1, p2}
    Null = Null
    MaxOps = 4
    MaxPods = 2
    MaxFaults = 2
INVARIANTS ReleasedHoldsNothing RefundIsProven
PROPERTY EveryDeleteSettles
CHECK_DEADLOCK FALSE
