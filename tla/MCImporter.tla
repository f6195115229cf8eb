----------------------------- MODULE MCImporter -----------------------------
\* Two files, each about a path of its own.
EXTENDS Importer, TLC

CONSTANTS f1, f2, p1, p2

MCPathOf == f1 :> p1 @@ f2 :> p2
=============================================================================
