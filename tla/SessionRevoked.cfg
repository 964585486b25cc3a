\* Is a revoked session rejected by every instance?
CONSTANTS
  u1 = u1 s1 = s1 s2 = s2 t1 = t1 t2 = t2 t3 = t3 t4 = t4
  i1 = i1 i2 = i2 p1 = p1 p2 = p2 p3 = p3
  User = {u1}
  SessionId = {s1}
  Token = {t1, t2}
  Owner <- OneUser
  FamilyOf <- Families
  Instance = {i1, i2}
  Proc = {p1, p2}
  RefreshTtl = 2
  AccessTtl = 1
  CacheSize = 1
  MaxTime = 2
  MaxFaults = 0
SPECIFICATION Spec
SYMMETRY Symmetry
CHECK_DEADLOCK FALSE
INVARIANT RevokedRejected
