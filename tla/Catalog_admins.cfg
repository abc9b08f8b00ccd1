CONSTANTS
    Admins = {x, y}
    Names = {f, g}
    ScenarioNames = {s, t}
    FeatureIds = {1, 2, 3}
    ScenarioIds = {4, 5}
    None = None
    Sizes = {0, 1, 3}
    DefaultPageSize = 2
    MaxPageSize = 2
    MaxHandlers = 4
SPECIFICATION Spec
SYMMETRY Symmetry
INVARIANTS
    TypeOK
    OrphansExplained
    BrowseMissesNothing
CHECK_DEADLOCK FALSE
