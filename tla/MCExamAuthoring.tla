--------------------------- MODULE MCExamAuthoring ---------------------------
(* Small instances of ExamAuthoring for TLC.                                 *)
EXTENDS ExamAuthoring, TLC

CONSTANTS e1, e2, b1, b2, b3

At(s, c, d) == [startsAt |-> s, closesAt |-> c, duration |-> d]
OneWindow == {At(1, 2, 1)}
TwoWindows == {At(1, 3, 1), At(0, 2, 1)}

(* Move the start, move the end, clear the duration.                         *)
Patches == {[startsAt |-> 2], [closesAt |-> 2], [duration |-> Null]}
NoPatch == {}

EditorSymmetry == Permutations({e1, e2}) \cup Permutations({b1, b2, b3})
=============================================================================
