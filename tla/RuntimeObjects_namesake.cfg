SPECIFICATION Spec
CONSTANTS
    Kinds = {"InferenceService"}
    MaxGen = 2
    MaxUID = 3
    MaxFaults = 0
    MaxIntrusions = 2
    ApplyMayBreak = FALSE
PROPERTIES DeletesOnlyBound
CHECK_DEADLOCK FALSE
