----------------------------- MODULE MCLiveExam -----------------------------
(* Small instances of LiveExam for TLC.                                      *)
EXTENDS LiveExam, TLC

CONSTANTS u1, u2, a1, a2, a3, q1, q2, sA, sB, p1, p2, w1, w2

(* Two versions with different questions, as fresh ids make them.            *)
MCKey == (1 :> (q1 :> sA)) @@ (2 :> (q2 :> sA))
MCKeyOne == 1 :> (q1 :> sA)

Window(s, c, d, m, i) ==
  [startsAt |-> s, closesAt |-> c, duration |-> d, maxAttempts |-> m, mode |-> i]

(* The window has room for two attempts one after the other, one or two are  *)
(* allowed, and practice is possible after it.                               *)
StartSchedules == {Window(0, 2, 1, 1, "OPEN"), Window(0, 2, 1, 2, "OPEN")}
TwoAttempts == {Window(0, 2, 1, 2, "OPEN")}
(* One attempt, cut off by closesAt.                                         *)
OneSchedule == {Window(0, 1, 2, 1, "OPEN")}
(* Edits move the window, shorten it, and turn an open exam invite-only.     *)
EditedSchedules == {Window(1, 3, 1, 1, "OPEN"), Window(2, 3, 2, 1, "INVITE_ONLY")}

StartSymmetry == Permutations({a1, a2, a3}) \cup Permutations({p1, p2})
AnswerSymmetry == Permutations({p1, p2}) \cup Permutations({w1, w2})
EditSymmetry == Permutations({p1, p2})
=============================================================================
