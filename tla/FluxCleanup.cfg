SPECIFICATION Spec
CONSTANTS
    JobIds = {j1, j2, j3}
    NumSteps = 2
    NamesMatch = FALSE
    CompletionsNeeded = 2
    MaxSize = 2
    MaxFaults = 0
CHECK_DEADLOCK FALSE
INVARIANTS
    NoSurplus
