\* Two handlers upload, replace, publish, reject and delete while a worker cleans up.
CONSTANTS
  f1 = f1 f2 = f2 f3 = f3 p1 = p1 p2 = p2 w1 = w1 w2 = w2
  File = {f1, f2}
  Purpose = {"CONTENT"}
  Required = {"CONTENT"}
  Proc = {p1, p2}
  Worker = {w1}
  Ttl = 1
  Grace = 1
  Lease = 1
  Delay = {1}
  LateBy = 1
  MaxPending = 1
  Batch = 1
  MaxFaults = 1
SPECIFICATION Spec
SYMMETRY Symmetry
INVARIANTS AttachedStored OneAttached PublishedReady PendingCap
PROPERTY NeverReattached
