SPECIFICATION FairSpec
CONSTANTS
    Kinds = {"Deployment"}
    MaxGen = 2
    MaxUID = 2
    MaxFaults = 0
    MaxIntrusions = 0
    ApplyMayBreak = FALSE
PROPERTIES LegacyOperationsEnd
CHECK_DEADLOCK FALSE
