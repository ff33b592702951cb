SPECIFICATION AccessSpec
CONSTANTS
    a1 = a1
    a2 = a2
    Accounts = {a1, a2}
    Protocols <- MCProtocols
    NodeDefaults = {"auto", "mtproto"}
    Choices <- MCChoices
    Budgets <- MCBudgets
SYMMETRY Symmetry
INVARIANT DeployedIsServed
INVARIANT NothingPending
INVARIANT RevokedDeviceIsCutOff
CHECK_DEADLOCK FALSE
