------------------------------ MODULE MCSession ------------------------------
(* Small instances of Session for TLC.                                       *)
EXTENDS Session, TLC

CONSTANTS u1, s1, s2, t1, t2, t3, t4, i1, i2, p1, p2, p3

OneUser == [s \in SessionId |-> u1]
(* t4 is the second session's first token, the others belong to the first.   *)
Families == [t \in Token |-> IF t = t4 THEN s2 ELSE s1]

Symmetry ==
  Permutations({t1, t2, t3}) \cup Permutations({i1, i2}) \cup Permutations({p1, p2, p3})
=============================================================================
