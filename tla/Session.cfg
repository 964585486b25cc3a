\* One session, two instances with their caches: refreshes, replays,
\* revocations and lookups race, and a call or an instance may fail.
CONSTANTS
  u1 = u1 s1 = s1 s2 = s2 t1 = t1 t2 = t2 t3 = t3 t4 = t4
  i1 = i1 i2 = i2 p1 = p1 p2 = p2 p3 = p3
  User = {u1}
  SessionId = {s1}
  Token = {t1, t2}
  Owner <- OneUser
  FamilyOf <- Families
  Instance = {i1, i2}
  Proc = {p1, p2}
  RefreshTtl = 2
  AccessTtl = 1
  CacheSize = 1
  MaxTime = 2
  MaxFaults = 1
SPECIFICATION FairSpec
CHECK_DEADLOCK FALSE
INVARIANTS OneUsableToken BarredStaysOut StaleAtMostTtl
PROPERTY ReplayEndsSession
