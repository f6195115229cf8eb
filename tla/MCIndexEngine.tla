--------------------------- MODULE MCIndexEngine ---------------------------
EXTENDS IndexEngine, TLC
Symmetry == Permutations(Callers) \cup Permutations(Projects) \cup Permutations(Paths)
=============================================================================
