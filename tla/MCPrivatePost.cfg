CONSTANTS
    None = None
    here = here
    there = there
    everyone = everyone
    nobody = nobody
    c1 = c1
    c2 = c2
    Place = {here, there}
    Call = {c1, c2}
    Post <- MCPost
    Hooks <- MCHooks
    Audience = {everyone, nobody}
    Freshness = 1
    MaxHostTime = 3
    MaxMoves = 2
    MaxDraws = 3
SPECIFICATION PostSpec
CHECK_DEADLOCK FALSE
SYMMETRY Symmetry
INVARIANTS  ClearFieldsAgree StampedFresh
PROPERTY MaskNeverReused
CONSTRAINT Bounded
