CONSTANTS
  e1 = e1 e2 = e2 b1 = b1 b2 = b2 b3 = b3
  Editor = {e1, e2}
  Pub = {b1, b2, b3}
  Window <- TwoWindows
  Patch <- Patches
  MinWindow = 1
  MaxVersion = 2
  MaxTime = 3
  MaxFaults = 2
SPECIFICATION LossySpec
SYMMETRY EditorSymmetry
CHECK_DEADLOCK FALSE
INVARIANTS OwnedUnlessTimedOut PublishedCommitted ScheduleSound
PROPERTY FrozenOnceStarted
