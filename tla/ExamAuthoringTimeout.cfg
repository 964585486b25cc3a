CONSTANTS
  e1 = e1 e2 = e2 b1 = b1 b2 = b2 b3 = b3
  Editor = {e1, e2}
  Pub = {b1, b2}
  Window <- OneWindow
  Patch <- NoPatch
  MinWindow = 1
  MaxVersion = 2
  MaxTime = 1
  MaxFaults = 1
SPECIFICATION LossySpec
SYMMETRY EditorSymmetry
CHECK_DEADLOCK FALSE
INVARIANT ContentOwned
