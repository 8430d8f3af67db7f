SPECIFICATION Spec
CONSTANTS
    Call = {c1, c2}
    DocumentTTL = 2
    TrustRootTTL = 1
    DocumentCeiling = 2
    MaxLatency = 1
    MaxTime = 3
    MaxDoc = 2
    MaxEpoch = 1
SYMMETRY Symmetry
PROPERTIES
    ServedWithinAge
    SwapsAreAudited
    TombstoneHolds
CHECK_DEADLOCK FALSE
