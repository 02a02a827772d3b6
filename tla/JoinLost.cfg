CONSTANTS
  MaxTid = 4
  BoostAt = 225
  Joins <- Pairs
SPECIFICATION Spec
INVARIANTS
  ExitWakesJoiner
CHECK_DEADLOCK FALSE
