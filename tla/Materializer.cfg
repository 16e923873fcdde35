SPECIFICATION FairSpec
CONSTANTS
    MaxGen = 2
    MaxUID = 2
    MaxFaults = 2
    MaxLosses = 1
    MaxUpgrades = 1
INVARIANTS CleanedLeavesNothing
PROPERTIES ReadyIsVerified ModelArrives CleanupEnds
CHECK_DEADLOCK FALSE
