SPECIFICATION Spec
CONSTANTS
    JobIds = {j1}
    NumSteps = 3
    NamesMatch = FALSE
    CompletionsNeeded = 1
    MaxSize = 1
    Kind <- AllJobs
    Nodes <- OneNode
    AlwaysSucceed = {}
    RetryFailure = FALSE
    Rules <- NoRules
    Numbers = {}
    FreshIds = TRUE
    MaxCrashes = 0
    MaxTouches = 1
    MaxFailures = 0
    MaxErrors = 0
CHECK_DEADLOCK FALSE
INVARIANTS
    StepOrder
