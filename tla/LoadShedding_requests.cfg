CONSTANTS
    Requests = {r1, r2, r3}
    maxCurrency = 1
    warningLatency = 2
    maxLatency = 4
    threshold = 4
    Millisecond = 2
    windowSize = 2
    Pings <- MCPings
    MaxPings = 3
SPECIFICATION Spec
INVARIANTS
    CounterIsExact
    OvershootNeedsRace
    ShedExplained
