CONSTANTS
  MaxTid = 4
  BoostAt = 120
  Joins <- Crossed
SPECIFICATION Spec
INVARIANTS
  TypeOK
  ListsAcyclic
PROPERTIES
  ValuesKept
CHECK_DEADLOCK FALSE
