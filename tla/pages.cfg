SPECIFICATION Spec
CONSTANTS
    None = None
    Columns = {a, b}
    Labels = {l}
    Parts <- GivenParts
    Limits = {0, 1, 2}
    Budgets = {13, 17, 40}
    Base = 2
    Fixed = 1
    Token = 1
    MaxResults = 2
    MaxOpened = 1
    MaxParts = 3

CHECK_DEADLOCK FALSE
INVARIANTS
    WalkIsExact
