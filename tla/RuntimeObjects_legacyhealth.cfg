SPECIFICATION FairSpec
CONSTANTS
    Kinds = {"Deployment"}
    MaxGen = 1
    MaxUID = 2
    MaxFaults = 1
    MaxIntrusions = 0
    ApplyMayBreak = FALSE
PROPERTIES LegacyDegradationSeen
CHECK_DEADLOCK FALSE
