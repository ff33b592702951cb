SPECIFICATION MCSpec
CONSTANTS
    Jobs = {j1, j2}
    Ops = {o1}
    Configs = {c1}
    Agents = {a1}
    None = None
    MaxFaults = 1
INVARIANT VerdictMatchesHost
INVARIANT AtMostOneMutation
INVARIANT OperationsExcludeUpdater
PROPERTY ReceiptedJobResolves
CHECK_DEADLOCK FALSE
