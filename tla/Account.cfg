\* Logins, two reset requests, confirmations and changes race.
CONSTANTS
  t1 = t1 t2 = t2 t3 = t3 s1 = s1 s2 = s2 home = home away = away p1 = p1 p2 = p2
  ResetToken = {t1, t2}
  SessionId = {s1, s2}
  Context = {home, away}
  Proc = {p1, p2}
  PerSecond = 1
  ResetTtl = 1
  MaxTime = 1
  MaxEra = 2
  MaxFaults = 1
SPECIFICATION Spec
SYMMETRY Symmetry
CHECK_DEADLOCK FALSE
INVARIANTS TokensSound LinkRemains SurvivorsAreNew
