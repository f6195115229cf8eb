CONSTANTS
    f1 = f1  f2 = f2  p1 = p1  p2 = p2
    Files = {f1, f2}
    Paths = {p1, p2}
    PathOf <- MCPathOf
    Passes = {s1, s2}
    MaxConcurrent = 1
    MaxStaged = 2
    MaxEdits = 1
    MaxFaults = 1
SPECIFICATION FairSpec
INVARIANT IndexedFilesHaveARow
PROPERTIES NothingStagedIsLost NothingGoesBack PassEnds
\* Without another staged file there is nothing left to import.
CHECK_DEADLOCK FALSE
