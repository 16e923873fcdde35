SPECIFICATION FairSpec
CONSTANTS
    Kinds = {"InferenceService", "LLMInferenceService", "Deployment"}
    MaxGen = 4
    MaxUID = 5
    MaxFaults = 2
    MaxIntrusions = 2
    ApplyMayBreak = TRUE
INVARIANTS ObjectsFollowGoal ReadyIsCurrent
PROPERTIES FencedDeletes OperationsEnd DegradationSeen
CHECK_DEADLOCK FALSE
