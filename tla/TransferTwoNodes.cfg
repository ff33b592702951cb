CONSTANTS
    n1 = n1
    n2 = n2
    a1 = a1
    g1 = g1
    g2 = g2
    Nodes = {n1, n2}
    Accounts = {a1, a2}
    None = None
    NoGroup = NoGroup
    Groups = {g1, g2}
    Signals <- MCSignals
    Memberships <- MCMemberships
    IdOrder <- MCIdOrder
    Score <- MCScore
    Scenarios <- MCScenarios
    MaxVersions = 3
    MaxJobs = 3
    MaxTransfers = 2
    MaxEdits = 1
    MaxFaults = 2
SPECIFICATION MCSpec
CHECK_DEADLOCK FALSE
INVARIANTS  AccessNeverLost NeverWedged
PROPERTY WithdrawnAtTheEnd CooldownHolds JobsSettle
