SPECIFICATION Spec
CONSTANTS
    Proof = {p1}
    Kind <- MCKind
    MaxAge = 2
    AudienceBound = 1
    BlockBound = 1
    GraceUntil = 3
    Target = 2
    MaxLatency = 1
    MaxTime = 5
    MaxTrail = 3
INVARIANTS TrailMatchesOutcome NoticeFollowsAudit
PROPERTIES RevocationHonoured NoEarlyAnswer
