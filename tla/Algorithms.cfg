CONSTANTS
    MaxValue = 4
    MaxPattern = 4
    MaxComps = 5
    MaxUses = 5
    CacheCapacity = 2
    MaxRows = 2
    MaxMarks = 2
    MaxLines = 3
    MaxName = 6
SPECIFICATION AlgorithmsSpec
INVARIANTS PatternsAreExact RootIsExact CacheKeepsTheMostRecent SearchIsExactUnderTheLimit ScaffoldIsStable
CHECK_DEADLOCK FALSE
