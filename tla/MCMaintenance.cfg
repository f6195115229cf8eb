\* Two calls, each of any kind, beside one statement of another: a reset with an
\* export, two resets, two exports, and what may come between their steps.  One
\* file row of one project of two tells a filter, a count and a lost row apart.
CONSTANTS
    p = p  q = q  f = f  x = x
    Calls = {c1, c2}
    Projects = {p, q}
    Files = {f}
    ProjectOf <- Project
    PathOf <- Path
    Paths = {x}
    All = All
    None = None
    Partial = Partial
    MaxFaults = 1
    MaxWrites = 1
SPECIFICATION Spec
INVARIANT FilesAreOneState
PROPERTY StoreSpec
CHECK_DEADLOCK FALSE
SYMMETRY Symmetry
