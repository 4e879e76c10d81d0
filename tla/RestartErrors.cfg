SPECIFICATION Spec
CONSTANTS
    JobIds = {j1, j2}
    NumSteps = 3
    NamesMatch = FALSE
    CompletionsNeeded = 2
    MaxSize = 1
    Kind <- AllJobs
    Nodes <- OneNode
    AlwaysSucceed = {1}
    RetryFailure = TRUE
    Rules <- NoRules
    Numbers = {}
    FreshIds = TRUE
    MaxCrashes = 1
    MaxTouches = 0
    MaxFailures = 2
    MaxErrors = 1
SYMMETRY IdSymmetry
CHECK_DEADLOCK FALSE
INVARIANTS
    StepInv ExitSound
