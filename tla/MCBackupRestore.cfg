\* Two files per directory tell a torn copy from a whole one; the live database,
\* the original, the temp copy and what the disk still names are four directories
\* at most.  Two concurrent commands, two in all, allow a crashed restore and its
\* retry, or a backup beside either; two versions let the daemon write once.
CONSTANTS
    Dirs = {d1, d2, d3, d4}
    Parts = {p1, p2}
    Names = {n1, n2}
    Tools = {t1, t2}
    Absent = Absent
    MaxVersion = 2
    MaxRuns = 2
SPECIFICATION Spec
SYMMETRY Symmetry
INVARIANTS OriginalSurvives DaemonKeepsItsDirectory
PROPERTIES RestoreInstallsTheBackup ReportedBackupIsExact AtomicReplace
