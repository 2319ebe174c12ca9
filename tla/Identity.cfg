\* Three requests of every kind, one after the other or overlapping in any way.
CONSTANTS
    u1 = u1
    u2 = u2
    u3 = u3
    Users = {u1, u2, u3}
    Roles <- MCRoles
    Requests = {r1, r2, r3}
    Browsers = {b1, b2}
    None = None
    InitialRoles <- MCTwoAdminsOneNew
    Kinds <- MCAllKinds
    allow_multiple_identities = FALSE
SPECIFICATION Spec
SYMMETRY MCSymmetry
CONSTRAINT MCBounds
INVARIANTS
    GuardKeepsAnAdmin
    
    EarlierSessionsRevoked
    OneIdentityPerBrowser
    NoSessionWhenInactive
