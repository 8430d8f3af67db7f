SPECIFICATION Spec
CONSTANTS
    s1 = s1
    s2 = s2
    Service = {s1, s2}
    User = {u}
    u = u
    Cap = {"c"}
    MaxDepth = 2
    Hop <- MCHop
    MaxRotations = 1
    MaxTime = 2
    Anonymous = Anonymous
    Declaration <- MCDeclaration
    TrustRoots = {"ours"}
    Skew = 1
    MaxValidity = 2
    MaxAttempts = 2
INVARIANTS
    AcceptedIsGranted
    RefusalHasCause
    ChainExplains
    AuthorityHasSource
    TrailMatchesContexts
CHECK_DEADLOCK FALSE
