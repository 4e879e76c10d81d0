SPECIFICATION FairSpec
CONSTANTS
    JobIds = {j1, j2, j3}
    NumSteps = 2
    NamesMatch = FALSE
    CompletionsNeeded = 2
    MaxSize = 2
    Kind <- AllJobs
    Nodes <- OneNode
    AlwaysSucceed = {}
    RetryFailure = FALSE
    Rules <- NoRules
    Numbers = {}
    FreshIds = FALSE
    MaxCrashes = 0
    MaxTouches = 0
    MaxFailures = 1
    MaxErrors = 0
INVARIANTS
    NoStall ScriptMatches ExitSound
PROPERTIES
    Termination
