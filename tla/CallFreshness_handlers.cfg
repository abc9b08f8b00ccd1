CONSTANTS
    d1 = d1
    d2 = d2
    p1 = p1
    p2 = p2
    h1 = h1
    a1 = a1
    t1 = t1
    t2 = t2
    t3 = t3
    Requests = {r1, r2}
    Writers = {w1, w2}
    Pods = {x1}
    Accounts = {a1, a2}
    Prefixes = {p1, p2}
    Shapes = {h1}
    Seeds = {d1}
    SeedScope <- MCSeedScope
    Texts = {t1, t2, t3}
    TextOf <- MCTextOf
    Named <- MCNamed
    None = None
    WriteOps = {"createHTTP", "createTool", "updateHTTP", "updateTool", "deleteHTTP", "deleteTool"}
    Settings <- Switched
    MaxRestarts = 0
SPECIFICATION WatchedSpec
ACTION_CONSTRAINTS
    ThreeRuns
    ThreeKeys
SYMMETRY Symmetry
INVARIANTS
    FlightsAreAwaited
    StaleExplained
    AnswerFromScope
    DuplicatesExplained
    AnswerWasCurrent
