CONSTANTS
    Ids = {i1, i2, i3}
    Old = {i1, i2}
    NoId = none
    Roots = {a, b, top}
    TopRoot = top
    Callers = {c1, c2}
    MaxTime = 1
    MaxFaults = 1
SPECIFICATION Spec
INVARIANTS NoOrphans OneProjectPerRoot RegisterTellsTheTruth
PROPERTY RootsSurvive
CHECK_DEADLOCK FALSE
SYMMETRY Symmetry
