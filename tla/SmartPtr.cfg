SPECIFICATION Spec
CONSTANTS
  SharedPtrs = {x1, x2, x3, x4}
  WeakPtrs = {w1, w2}
  Counters <- MCCounters
  Strings <- MCStrings
  MaxLeaked = 1
  Gone = Gone
  Lost = Lost
  Null = Null
SYMMETRY Symmetry
INVARIANTS OwnershipExact
PROPERTY ImplementsOwnership
VIEW NoAddresses
