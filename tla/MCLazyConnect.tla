--------------------------- MODULE MCLazyConnect ---------------------------
EXTENDS LazyConnect, TLC
CONSTANTS c1, c2, o1, o2, o3
Owners == o1 :> c1 @@ o2 :> c1 @@ o3 :> c2
=============================================================================
