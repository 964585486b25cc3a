CONSTANTS
  u1 = u1 u2 = u2 a1 = a1 a2 = a2 a3 = a3 q1 = q1 q2 = q2
  sA = sA sB = sB p1 = p1 p2 = p2 w1 = w1 w2 = w2
  User = {u1, u2}
  Invited = {u1}
  Scope = "INSTITUTIONAL"
  AttemptId = {a1}
  Question = {q1, q2}
  Selection = {sA}
  Version = {1, 2}
  Key <- MCKey
  Revision = {}
  Schedule <- EditedSchedules
  Proc = {p1, p2}
  Worker = {}
  MinWindow = 1
  Unreadable = {}
  Limit = 1
  Skew = 1
  MaxTime = 3
  MaxFaults = 1
SPECIFICATION Spec
SYMMETRY EditSymmetry
INVARIANTS ScheduleHolds OnlyInvited Inv
