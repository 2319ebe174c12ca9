\* Two turns of one session, overlapping or not, with one failure.
CONSTANTS
    u1 = u1
    u2 = u2
    Users = {u1, u2}
    Sessions = {s1}
    Requests = {r1, r2}
    None = None
    RoleOf <- MCRoleOf
    ApprovalOf <- MCApproved
    Plans = {{"read"}, {"read", "ops"}}
    Limit = 2
    MaxInFlight = 2
    MaxFailures = 1
SPECIFICATION Spec
CONSTRAINT MCOneSession
SYMMETRY MCRequestSymmetry
INVARIANTS
    TypeOK
    ForeignMessagesOverlapped
    HistorySourcesAgree
    ArtifactsAnchored
    AuditClaimsAreTrue
    HitsRepeatTheTurn
PROPERTIES
    OwnersStay
