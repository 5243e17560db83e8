SPECIFICATION Program
CONSTANTS
  Objects = {d1, d2}
  Values = {0, 1}
  BlockSize = 2
  MaxSize = 3
  MaxBlocks = 6
  NoObject = NoObject
  Nil = Nil
  Junk = Junk
SYMMETRY Symmetry
INVARIANTS NeverStops
CHECK_DEADLOCK FALSE
VIEW NoAddresses
