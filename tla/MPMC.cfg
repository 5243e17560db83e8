SPECIFICATION Spec
CONSTANTS
  Threads = {t1, t2, t3}
  Values = {v1, v2}
  None = None
  MaxSize = 2
  SpuriousCAS = TRUE
  MaxPos = 4
SYMMETRY Symmetry
INVARIANTS ClaimsExclusive NoDataRace FalseIsJustified
PROPERTY ImplementsQueue
