SPECIFICATION FairSpec
CONSTANTS
    Nodes = {n1, n2}
    MaxChanges = 3
CHECK_DEADLOCK FALSE
INVARIANTS
    Alternates ReportIsHistory
PROPERTIES
    Follows
