SPECIFICATION Spec
CONSTANTS
    Request = {r1, r2, r3, r4}
    Initiator = {"i"}
    Nonce = {n1, n2, n3}
    n1 = n1
    n2 = n2
    n3 = n3
    Hello <- MCHello
    Skew = 1
    Window = 3
    Cap = 2
    MaxLatency = 1
    MaxTime = 5
SYMMETRY Symmetry
INVARIANTS
    AcceptedAtMostOnce
    LockStep
PROPERTIES
    ReplayIsTruthful
CHECK_DEADLOCK FALSE
