SPECIFICATION MetricsSpec
CONSTANTS
    JobIds = {j1, j2, j3}
    NumSteps = 2
    NamesMatch = FALSE
    CompletionsNeeded = 2
    MaxSize = 2
    Kind <- JobThenJobSet
    Nodes <- OneNode
    AlwaysSucceed = {}
    RetryFailure = FALSE
    Rules <- AllRules
    Numbers = {1, 2, 3, 4, 6}
    Series <- RuleSeries
    Statistics = {4, 6}
    Parsers = {1, 2}
    FreshIds = TRUE
    MaxCrashes = 0
    MaxTouches = 0
    MaxFailures = 0
    MaxErrors = 1
SYMMETRY IdSymmetry
CHECK_DEADLOCK FALSE
INVARIANTS
    TypeOK StepOrder NoSurplus CountsExact LogsOfOwnStep
PROPERTIES
    RepeatHolds
