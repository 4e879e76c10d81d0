SPECIFICATION Spec
CONSTANTS
    JobIds = {j1, j2, j3}
    NumSteps = 3
    NamesMatch = FALSE
    CompletionsNeeded = 2
    MaxSize = 2
    Kind <- AllJobs
    Nodes <- OneNode
    AlwaysSucceed = {}
    RetryFailure = FALSE
    Rules <- NoRules
    Numbers = {}
    FreshIds = FALSE
    MaxCrashes = 1
    MaxTouches = 0
    MaxFailures = 1
    MaxErrors = 0
SYMMETRY IdSymmetry
CHECK_DEADLOCK FALSE
INVARIANTS
    StepOrder WithinMaxSize NoSurplus
PROPERTIES
    FinishedStays ImplementsWorkflow
