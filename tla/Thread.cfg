SPECIFICATION LiveSpec
CONSTANTS
  Callers = {c1, c2}
  Workers = {w1, w2, w3}
  HoldSelf = HoldSelf
  None = None
INVARIANTS
  NoUseAfterFree
  OneThread
PROPERTIES
  DestroyedWhenDropped
CHECK_DEADLOCK FALSE
