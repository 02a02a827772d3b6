CONSTANTS
  MaxTid = 4
  BoostAt = 90
  Joins <- OnlyMain
SPECIFICATION Spec
INVARIANTS
  ValuesAppended
CHECK_DEADLOCK FALSE
