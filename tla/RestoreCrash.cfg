\* One operator, two commands: a restore that crashes and the retry.
CONSTANTS
    Dirs = {d1, d2, d3, d4}
    Parts = {p1, p2}
    Names = {n1, n2}
    Tools = {t1}
    Absent = Absent
    MaxVersion = 2
    MaxRuns = 2
SPECIFICATION Spec
INVARIANT CrashCannotLoseOriginal
