CONSTANTS
    Users = {u1, u2}
    Bootstrap = u1
    RoleSets = {{"super_admin"}, {"vpn_user"}}
    Requests = {r1, r2}
    MaxHashes = 3
    MaxSessions = 2
    MaxLinks = 2
    MaxEdits = 2
    MaxRestarts = 2
SPECIFICATION IdentitySpec
SYMMETRY Symmetry
CHECK_DEADLOCK FALSE
INVARIANTS OldPasswordsOpenNothing OneWorkingLink
CONSTRAINT FewEvents
