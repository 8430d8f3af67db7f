SPECIFICATION Spec
CONSTANTS
    s1 = s1
    s2 = s2
    s3 = s3
    c1 = c1
    c2 = c2
    Service = {s1, s2, s3}
    User = {}
    Conn = {c1, c2}
    Ends <- MCEnds
    Federation = {s1}
    Window <- MCWindow
    Unbounded = Unbounded
    DefaultWindow = 2
    Skew = 0
    MaxClaims = 1
    MaxRejects = 1
    MaxRotations = 1
    MaxTime = 1
SYMMETRY Symmetry
INVARIANTS
    EvidenceIsGenuine
    SessionAgreement
    ClaimsSettleOnce
CHECK_DEADLOCK FALSE
