SPECIFICATION Spec
CONSTANTS
  p1 = p1
  p2 = p2
  t1 = t1
  t2 = t2
  u1 = u1
  u2 = u2
  Procs = {p1, p2}
  Tasks = {t1, t2}
  Process <- MCProcess
  Euid <- MCEuid
  Buffers <- MCBuffers
  LogSize = 2
  MapSizes = {1}
  SZ_4M = 2
  MaxTransactions = 3
INVARIANTS
  LogExact
  RefsExact
PROPERTIES
  ManagerKept
CHECK_DEADLOCK FALSE
