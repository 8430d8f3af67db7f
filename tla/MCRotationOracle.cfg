SPECIFICATION Spec
CONSTANTS
    Thread = {t1, t2}
    Cadence = 2
    MaxLatency = 1
    MaxTime = 4
    MaxSlug = 4
    Torn = Torn
SYMMETRY Symmetry
INVARIANTS
    ServedWithinCadence
    PersistsInOrder
PROPERTIES
    RewindBounded
    MarksNeverGoBack
CHECK_DEADLOCK FALSE
