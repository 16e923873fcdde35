SPECIFICATION FairSpec
CONSTANTS
    a = a
    b = b
    m1 = m1
    m2 = m2
    Publications = {a, b}
    Models = {m1, m2}
    Model <- SameModel
    Bootstrap = {}
    Unowned = {m2}
    MaxRetries = 2
    MaxEdits = 2
    MaxCuts = 2
INVARIANTS RouteLimited WithdrawnLeavesNothing
PROPERTIES KeysInUseStay WithdrawalsEnd
CHECK_DEADLOCK FALSE
