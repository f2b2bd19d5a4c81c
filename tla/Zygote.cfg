CONSTANTS
  Threads = {"server", "app"}
  Main = "server"
  Logs <- TwoLogs
  MaxFd = 5
  Children = {c1, c2}
  c1 = c1
  c2 = c2
  GarbageFds = {0, 3}
SPECIFICATION Spec
SYMMETRY AnyChild
CONSTRAINT StillPromised
INVARIANTS
  DescriptorsHeld
  OneOpenPerLog
  ZombiesAccounted
