SPECIFICATION FairSpec
CONSTANTS
    JobIds = {j1}
    NumSteps = 2
    NamesMatch = FALSE
    CompletionsNeeded = 1
    MaxSize = 1
    Kind <- AllJobs
    Nodes <- OneNode
    AlwaysSucceed = {}
    RetryFailure = FALSE
    Rules <- NoRules
    Numbers = {}
    FreshIds = TRUE
    MaxCrashes = 1
    MaxTouches = 0
    MaxFailures = 0
    MaxErrors = 0
CHECK_DEADLOCK FALSE
PROPERTIES
    Termination
