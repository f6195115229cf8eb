--------------------------- MODULE MCMaintenance ---------------------------
EXTENDS Maintenance, TLC
CONSTANTS p, q, f, x
\* A project with a file and one without.
Project == f :> p
Path == f :> x
Symmetry == Permutations(Calls)
=============================================================================
