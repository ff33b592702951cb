CONSTANTS
    v1 = v1
    v2 = v2
    v3 = v3
    singbox = singbox
    wireguard = wireguard
    Versions = {v1, v2, v3}
    Initial = v1
    Selects <- MCSelects
    Absent = Absent
    None = None
    ServiceControl = TRUE
    MaxJobs = 3
    MaxFailures = 2
    MaxCrashes = 2
SPECIFICATION Spec
CHECK_DEADLOCK FALSE
INVARIANTS AllOrNothing ConfirmedIsDeployed
