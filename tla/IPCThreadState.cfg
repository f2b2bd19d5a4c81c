SPECIFICATION FairSpec
CONSTANTS
  t1 = t1
  t2 = t2
  Threads = {t1, t2}
  Handles = {0, 1}
  Drivers = {"/dev/binder", "other"}
  defaultDriver = "/dev/binder"
  Errnos = {"OK", "EINTR"}
  TrWords = 2
  MaxWork = 5
INVARIANTS
  OneState
  OutIsHistory
  OneProxy
PROPERTIES
  CallReturns
CHECK_DEADLOCK FALSE
