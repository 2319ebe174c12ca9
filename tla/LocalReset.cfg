\* One process on an empty database or one of a release.
CONSTANTS
    m1 = m1
    m2 = m2
    m3 = m3
    s1 = s1
    s2 = s2
    s3 = s3
    None = None
    Jobs = {j1}
    Checks = {}
    Batches = {}
    Accounts = {a1}
    Profiled = {a1}
    MaxAccounts = 1
    Migrations = {m1, m2, m3}
    Seeds = {s1, s2, s3}
    released <- MCReleased
    name <- MCName
    Releases = 2
    Creates <- MCCreates
    Discards <- MCDiscards
    Takes <- MCTakes
SPECIFICATION Spec
SYMMETRY MCSymmetry
CONSTRAINT MCBounds
CHECK_DEADLOCK FALSE
PROPERTY
    ResetClears
