CONSTANTS
  Room = 2400
  Sizes = {24, 48, 96, 100, 104, 216, 336}
  MaxCalls = 5
SPECIFICATION Spec
INVARIANTS
  LiveDisjoint
CHECK_DEADLOCK FALSE
