SPECIFICATION FairSpec
CONSTANTS
    InClusterRegistry = FALSE
    TemplateFails = FALSE
    MaxSize = 1
    Completed = 1
    MaxErrors = 1
    MaxDeletes = 1
    MaxRestarts = 1
CHECK_DEADLOCK FALSE
INVARIANTS
    TypeOK MadeInOrder OrderInv
PROPERTIES
    Converges
