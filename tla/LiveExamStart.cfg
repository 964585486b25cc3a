\* Two tabs of one candidate, and a worker: starting, budget, expiry.
CONSTANTS
  u1 = u1 u2 = u2 a1 = a1 a2 = a2 a3 = a3 q1 = q1 q2 = q2
  sA = sA sB = sB p1 = p1 p2 = p2 w1 = w1 w2 = w2
  User = {u1}
  Invited = {}
  Scope = "PUBLIC"
  AttemptId = {a1, a2, a3}
  Question = {q1}
  Selection = {sA}
  Version = {1}
  Key <- MCKeyOne
  Revision = {}
  Schedule <- StartSchedules
  Proc = {p1, p2}
  Worker = {w1}
  MinWindow = 1
  Unreadable = {}
  Limit = 1
  Skew = 0
  MaxTime = 3
  MaxFaults = 0
SPECIFICATION Spec
SYMMETRY StartSymmetry
INVARIANTS OneOpenAttempt AttemptBudget ClosedAsDated
PROPERTY FirstCloserWins
