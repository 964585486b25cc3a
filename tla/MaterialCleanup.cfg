\* Two workers, one of them slower than its lease, with retries and late uploads.
CONSTANTS
  f1 = f1 f2 = f2 f3 = f3 p1 = p1 p2 = p2 w1 = w1 w2 = w2
  File = {f1}
  Purpose = {"CONTENT"}
  Required = {"CONTENT"}
  Proc = {p1}
  Worker = {w1, w2}
  Ttl = 1
  Grace = 1
  Lease = 1
  Delay = {1}
  LateBy = 2
  MaxPending = 1
  Batch = 1
  MaxFaults = 2
SPECIFICATION FairSpec
INVARIANT CleanupSound
PROPERTY NoOrphans
