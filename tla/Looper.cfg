SPECIFICATION FairSpec
CONSTANTS
  Senders = {s1, s2}
  Uptimes = {1, 3}
  Timeouts <- MCTimeouts
  NsPerMs = 2
  INT_MAX = 2
  LLONG_MAX = 1000
  MaxMessages = 3
  Horizon = 4
  Garbage = Garbage
INVARIANTS
  NoLostWakeup
  QueueIntact
PROPERTIES
  HandledInOrder
  NoEarlyTimeout
  EveryMessageHandled
