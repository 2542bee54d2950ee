SPECIFICATION Spec
CONSTANTS
    Null = Null
    OutOfRange = OutOfRange
    Input <- Values
    Lanes = 2
    LaneTop = 2
    WideTop = 5
    Least <- MinusTwo
    Most = 3
    Accs = {a1, a2}
    Grouped = {g1, g2}
    Groups = 2
    MaxBatch = 5
    MaxRows = 5
CHECK_DEADLOCK FALSE
SYMMETRY SumSymmetry
INVARIANTS
    SumIsExact
