SPECIFICATION FairSpec
CONSTANTS
    s1 = s1
    s2 = s2
    Scope = {s1, s2}
    MaxEvents <- MCMaxEvents
    Guarded = {"User"}
INVARIANTS
    ResultIsHonest
    PrivilegedFirst
    MarkersUnwindCommits
PROPERTIES
    AuditTrailContract
    EveryCommitSettles
    PanickedSinkIsTerminated
CHECK_DEADLOCK FALSE
