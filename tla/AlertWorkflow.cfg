\* Three concurrent requests on two alerts, from risk operators and supervisors.
CONSTANTS
    Alerts = {a1, a2}
    Requests = {r1, r2, r3}
    None = None
    RoleSets <- MCTwoRoleSets
SPECIFICATION Spec
SYMMETRY MCSymmetry
INVARIANTS
    TrailExplainsStatus
    StatusChangesAudited
    OneDecisionPerApproval
    AnswersAreTrue
    PendingTogetherOverlapped
PROPERTIES
    ImplementsLifecycle
