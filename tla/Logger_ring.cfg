SPECIFICATION Spec
CONSTANTS
  w1 = w1
  w2 = w2
  r1 = r1
  r2 = r2
  Writers = {w1, w2}
  Readers = {r1}
  Euid <- MCEuid
  Size = 5
  Mapped = 6
  HdrLen = 2
  Lens = {0, 2, 5}
  MaxPayload = 4
  GarbageLens = {0, 3}
  UserLen = 4
  MaxWrites = 4
  MaxSignals = 0
INVARIANTS
  ReadInOrder
  AtEntry
CHECK_DEADLOCK FALSE
