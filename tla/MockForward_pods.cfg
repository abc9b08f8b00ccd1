CONSTANTS
    d1 = d1
    d2 = d2
    p1 = p1
    p2 = p2
    h1 = h1
    t1 = t1
    Requests = {r1, r2}
    Writers = {w1}
    Pods = {x1, x2}
    Accounts = {a1}
    Prefixes = {p1}
    Shapes = {h1}
    Seeds = {d1}
    SeedScope <- MCSeedScope
    Texts = {t1}
    TextOf <- MCTextOf
    Named <- MCNamed
    None = None
    WriteOps = {"createTool", "updateHTTP", "updateTool", "deleteTool"}
    Settings <- AnySettings
    MaxRestarts = 1
SPECIFICATION FairSpec
PROPERTIES
    EveryCallReturns
