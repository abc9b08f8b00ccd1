CONSTANTS
    f1 = f1
    f2 = f2
    s1 = s1
    s2 = s2
    t1 = t1
    Requests = {r1, r2, r3}
    Features = {f1, f2}
    Scenarios = {s1, t1}
    Accounts = {a1}
    Global = Global
    None = None
    FeatureOf <- MCFeatureOf
    NameOf <- MCNameOf
    Prevs = {None, s1}
    Ops = {"activate", "deleteTool"}
SPECIFICATION Spec
SYMMETRY Symmetry
PROPERTY DeleteRemovesOnlyOwnApis
