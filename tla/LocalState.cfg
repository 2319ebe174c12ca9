\* Two processes on an empty database or one of a release, a check and a batch, and an upgrade at any time.
CONSTANTS
    m1 = m1
    m2 = m2
    m3 = m3
    s1 = s1
    s2 = s2
    s3 = s3
    None = None
    Jobs = {j1, j2}
    Checks = {c1}
    Batches = {b1}
    Accounts = {a1, a2, a3}
    Profiled = {a1, a2}
    MaxAccounts = 2
    Migrations = {m1, m2, m3}
    Seeds = {s1, s2, s3}
    released <- MCReleased
    name <- MCName
    Releases = 2
    Creates <- MCCreates
    Discards <- MCDiscards
    Takes <- MCTakes
SPECIFICATION Spec
SYMMETRY MCSymmetry
CONSTRAINT MCBounds
CHECK_DEADLOCK FALSE
INVARIANTS
    AppliedOnce
    
    ReadyMeansMigrated
    BatchesAreTrue

    
