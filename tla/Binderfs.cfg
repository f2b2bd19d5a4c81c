SPECIFICATION Spec
CONSTANTS
  Mounts = {m1, m2}
  InitialNs = {m1}
  Tasks = {t1, t2}
  Names <- MCNames
  DefaultNames <- MCDefaultNames
  OptionLists <- MCOptionLists
  BINDERFS_MAX_MINOR = 2
  Reserved = 1
SYMMETRY SymmetricTasks
INVARIANTS
  MinorsExact
  NamesUnique
  StatsKeptByWhole
