\* Two administrators' changes, guarded and unguarded, that may wait for each other.
CONSTANTS
    u1 = u1
    u2 = u2
    u3 = u3
    Users = {u1, u2}
    Roles <- MCRoles
    Requests = {r1, r2}
    Browsers = {b1}
    None = None
    InitialRoles <- MCTwoAdmins
    Kinds <- MCChangesAndLogins
    allow_multiple_identities = FALSE
SPECIFICATION FairSpec
PROPERTIES
    EveryRequestEnds
