CONSTANTS
    Requests = {r1, r2}
    Resets = {}
    Pods = {x1}
    Keys = {k1}
    ResponseLists <- MCDescribedLists
    FirstList <- MCDescribedList
    None = None
    MaxUpdates = 0
    MaxResends = 0
    MaxRestarts = 0
SPECIFICATION Spec
INVARIANT AnsweredAsDescribed
