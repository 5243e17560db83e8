SPECIFICATION Program
CONSTANTS
  Lists = {o1, o2, o3}
  Items = {i1, i2, i3, i4}
  Null = Null
  Objects = {o1, o2}
  Values = {0, 1}
  ArrayAddresses <- MCArrays
  HolderAddresses <- MCHolders
  MaxSize = 3
  MaxCapacity = 4
  MaxNesting = 3
  Leaves = {i, j}
  X = X
  NoObject = NoObject
  Unusable = Unusable
  Nil = Nil
  Junk = Junk
SYMMETRY Symmetry
INVARIANTS HooksConsistent NodesOwned ArraysOwned HoldersOwned
PROPERTIES EndsRespected ImplementsLists ImplementsList ImplementsVector ImplementsAny
\* After exceptions there may be no List left that the program may touch.
CHECK_DEADLOCK FALSE
VIEW NoAddresses
