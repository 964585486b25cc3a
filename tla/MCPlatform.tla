----------------------------- MODULE MCPlatform -----------------------------
(* Small institutions, articles, pictures, limits, catalogues and listings.  *)
EXTENDS Platform, TLC

CONSTANTS i1, i2, c1, c2, p1, p2, coll, res

Types == i1 :> "INVITE_ONLY" @@ i2 :> "PAID"
Versions == coll :> 3 @@ res :> 4
Symmetry == Permutations({c1, c2}) \cup Permutations({p1, p2})
=============================================================================
