SPECIFICATION Spec
CONSTANTS
    n1 = n1
    n2 = n2
    v1 = v1
    v2 = v2
    Nodes = {n1, n2}
    Versions = {v1, v2}
    Retention = 1
    Scenarios <- MCScenarios
INVARIANT NewestBackupKept
INVARIANT SucceededIsGone
INVARIANT ReadyStaysStartable
PROPERTY OnlyConfirmedRemoved
PROPERTY OperationsEnd
CHECK_DEADLOCK FALSE
