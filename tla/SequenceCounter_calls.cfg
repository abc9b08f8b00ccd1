CONSTANTS
    Requests = {r1, r2}
    Resets = {w1}
    Pods = {x1, x2}
    Keys = {k1, k2}
    ResponseLists <- MCResponseLists
    FirstList <- MCFirstList
    None = None
    MaxUpdates = 1
    MaxResends = 1
    MaxRestarts = 1
SPECIFICATION Spec
SYMMETRY Symmetry
INVARIANTS
    CountsAreDense
    CleanResetStartsOver
    MissingTTLExplained
