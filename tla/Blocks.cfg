CONSTANTS
  Room = 2400
  Sizes = {24, 48, 96, 100, 104, 216, 336}
  MaxCalls = 5
SPECIFICATION Spec
INVARIANTS
  TypeOK
  ListLinked
  ListEnds
  WalkStops
CHECK_DEADLOCK FALSE
