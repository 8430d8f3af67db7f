SPECIFICATION Spec
CONSTANTS
    Request = {r1, r2, r3}
    Claim <- MCClaim
    Issuer = {"did"}
    Key = {"k1", "k2"}
    Nonce = {"n1", "n2", "n3"}
    Skew = 1
    MaxValidity = 1
    Retention = 4
    Cap = 2
    MaxLatency = 1
    MaxTime = 5
SYMMETRY Symmetry
INVARIANTS
    AcceptedAtMostOnce
    ReplayHasWitness
PROPERTIES
    AcceptedInTime
CHECK_DEADLOCK FALSE
