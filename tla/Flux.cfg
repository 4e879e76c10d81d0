SPECIFICATION FairSpec
CONSTANTS
    JobIds = {j1}
    NumSteps = 3
    NamesMatch = FALSE
    CompletionsNeeded = 1
    MaxSize = 1
    MaxFaults = 1
CHECK_DEADLOCK FALSE
INVARIANTS
    AheadBound Moving
PROPERTIES
    Termination
