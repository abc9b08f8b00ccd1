CONSTANTS
    Callers = {r1, r2}
    Keys = {k1, k2}
    NoKey = NoKey
    LimitOption = "account_id"
    Limit = 2
    Window = 3
    Second = 2
    MaxTime = 5
SPECIFICATION LimiterSpec
SYMMETRY Symmetry
INVARIANTS
    OnTimeWithinLimit
    DenialJustified
PROPERTIES
    ImplementsSlidingLog
