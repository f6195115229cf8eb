\* Two callers, every hazard being a call caught between two steps of another, and
\* three paths of which two fit: a put must choose which to evict, and enough
\* versions to fill the cache and put one more.
CONSTANTS
    Callers = {c1, c2}
    Projects = {A, B}
    NoProject = none
    Paths = {p1, p2, p3}
    NoPath = nopath
    Capacity = 2
    MaxVersions = 3
SPECIFICATION Spec
INVARIANTS SettledProjectsAgree RootsAreRight CountsTheActiveProject CacheIsSound
PROPERTY LeastRecentlyUsed
SYMMETRY Symmetry
