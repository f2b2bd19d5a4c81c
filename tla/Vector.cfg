SPECIFICATION VecSpec
CONSTANTS
  Items = {a, b}
  MaxCount = 5
  Trivials = {TRUE, FALSE}
  Capacities = {2, 6}
  Garbage = Garbage
SYMMETRY AnyItems
INVARIANTS
  HoldsSequence
