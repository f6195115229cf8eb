----------------------------- MODULE MCProjects -----------------------------
\* Two old records, one id to be minted, two directories.  Callers, the old
\* ids and the directories other than "/" are interchangeable.
EXTENDS Projects, TLC

Symmetry == Permutations(Callers) \cup Permutations(Old) \cup Permutations(Roots \ {TopRoot})
=============================================================================
