SPECIFICATION TrafficFairSpec
CONSTANTS
    a1 = a1
    a2 = a2
    Accounts <- TwoAccounts
    BatchLimit = 1
    Limits <- NoLimit
    Nothing = Nothing
    MaxBytes = 1
    MaxChanges = 1
    MaxFaults = 2
INVARIANTS NeverOvercounted NothingLost
PROPERTIES BatchDrains
