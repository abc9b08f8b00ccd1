CONSTANTS
    r1 = r1
    r2 = r2
    n1 = n1
    s1 = s1
    s2 = s2
    Admins = {a1, a2}
    Callers = {c1}
    Explorers = {x1}
    Ids = {i1, i2}
    Routes = {r1, r2, n1}
    Nameless = {n1}
    Describable = {r1, r2}
    Services = {s1, s2}
    ServiceOf <- MCServiceOf
    Objects = {o1}
    EmptyObject = EmptyObject
    NoInput = NoInput
    Foreign = Foreign
    NoMock = NoMock
    MaxImport = 1
SPECIFICATION Spec
SYMMETRY Symmetry
INVARIANTS
    SteadyMockAnswers
    ToggleLostOnlyToOverlap
    ListedIsFound
