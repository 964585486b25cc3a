--------------------------- MODULE MCMaterialFiles ---------------------------
(* Small instances of MaterialFiles for TLC.                                 *)
EXTENDS MaterialFiles, TLC

CONSTANTS f1, f2, f3, p1, p2, w1, w2

Symmetry == Permutations({f1, f2, f3}) \cup Permutations({p1, p2}) \cup Permutations({w1, w2})
=============================================================================
