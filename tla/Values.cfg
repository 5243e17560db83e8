SPECIFICATION Program
CONSTANTS
  Variables = {v1, v2}
  Data = {1, 2}
  MaxDepth = 3
  Gone = Gone
  Lost = Lost
  Moved = Hollow
  Raw = Raw
  Null = Null
INVARIANTS FlagTellsLife TreeSound SearchExact
PROPERTIES ImplementsOptional ImplementsSet
\* After exceptions there may be no Optional left that the program may touch.
CHECK_DEADLOCK FALSE
