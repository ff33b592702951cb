SPECIFICATION Spec
CONSTANTS
    s1 = s1
    c1 = c1
    c2 = c2
    k1 = k1
    k2 = k2
    a1 = a1
    Servers = {s1}
    Chats = {c1, c2}
    Sessions = {k1, k2}
    Accounts = {a1}
    Samples <- MCSamples
    Scenarios <- MCScenarios
    Ttl = 2
    CriticalFireDelay = 1
    WarningFireDelay = 2
    RecoveryDelay = 2
    FlapWindow = 3
    FlapFireDelay = 3
INVARIANT QuietAfterResolve
INVARIANT EachHearsOnce
INVARIANT ConfirmedIsPaired
PROPERTY SteadyBeforeResolve
PROPERTY IntentsExpand
PROPERTY OneConnectivityAlert
CHECK_DEADLOCK FALSE
