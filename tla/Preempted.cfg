CONSTANTS
  MaxTid = 3
  MaxTorn = 1
SPECIFICATION Spec
INVARIANTS
  TypeOK
  SafeUnlessTorn
PROPERTIES
  TidsFresh
CHECK_DEADLOCK FALSE
