SPECIFICATION FairSpec
CONSTANTS
  w1 = w1
  w2 = w2
  r1 = r1
  r2 = r2
  Writers = {w1}
  Readers = {r1, r2}
  Euid <- MCEuid
  Size = 5
  Mapped = 5
  HdrLen = 1
  Lens = {1, 2}
  MaxPayload = 2
  GarbageLens = {0}
  UserLen = 2
  MaxWrites = 2
  MaxSignals = 1
INVARIANTS
  NoLostWakeup
PROPERTIES
  EveryEntryRead
CHECK_DEADLOCK FALSE
