\* A single alert and a single request are enough.
CONSTANTS
    Alerts = {a1}
    Requests = {r1}
    None = None
    RoleSets <- MCAllRoleSets
SPECIFICATION Spec
INVARIANTS
    SupervisorsMayClose
