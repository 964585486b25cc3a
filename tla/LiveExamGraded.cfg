\* One worker and failing calls: nothing that is due stays ungraded.
CONSTANTS
  u1 = u1 u2 = u2 a1 = a1 a2 = a2 a3 = a3 q1 = q1 q2 = q2
  sA = sA sB = sB p1 = p1 p2 = p2 w1 = w1 w2 = w2
  User = {u1}
  Invited = {}
  Scope = "PUBLIC"
  AttemptId = {a1, a2}
  Question = {q1}
  Selection = {sA}
  Version = {1}
  Key <- MCKeyOne
  Revision = {}
  Schedule <- TwoAttempts
  Proc = {p1}
  Worker = {w1}
  MinWindow = 1
  Unreadable = {a2}
  Limit = 2
  Skew = 0
  MaxTime = 2
  MaxFaults = 1
SPECIFICATION FairSpec
PROPERTY EventuallyGraded
