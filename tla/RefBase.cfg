SPECIFICATION FairSpec
CONSTANTS
  Ptrs = {p1, p2, p3, p4}
  INITIAL = 268435456
  Raw = Raw
  NoSrc = NoSrc
INVARIANTS
  NoUseAfterFree
  CountersExact
  Reclaimed
  FirstRefOnce
PROPERTIES
  ImplementsLifetime
  PromoteFailsOnlyWhenDead
  EventuallyDestroyed
CHECK_DEADLOCK FALSE
