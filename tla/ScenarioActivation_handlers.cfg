CONSTANTS
    f1 = f1
    f2 = f2
    s1 = s1
    s2 = s2
    t1 = t1
    Requests = {r1, r2, r3}
    Features = {f1}
    Scenarios = {s1, s2}
    Accounts = {a1, a2}
    Global = Global
    None = None
    FeatureOf <- MCFeatureOf
    NameOf <- MCNameOf
    Prevs = {s1}
    Ops = {"activate", "activateTool", "deactivateTool", "setInactiveTool", "delete", "deleteTool", "forward"}
SPECIFICATION Spec
ACTION_CONSTRAINT MostlyActivations
SYMMETRY Symmetry
INVARIANTS
    DuplicatesOnlyFromOverlap
    SlotLostOnlyToAnother
    DanglingExplained
    StaleEntryOnlyFromOverlap
    FallbackExplained
PROPERTIES
    GlobalActivationReachesEveryone
    SetInactiveSparesOthers
