----------------------------- MODULE MCAccount -----------------------------
(* Small instances of Account for TLC.                                       *)
EXTENDS Account, TLC

CONSTANTS t1, t2, t3, s1, s2, home, away, p1, p2

Symmetry ==
  Permutations({t1, t2, t3}) \cup Permutations({s1, s2}) \cup Permutations({p1, p2})
    \cup Permutations({home, away})
=============================================================================
