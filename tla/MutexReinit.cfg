CONSTANTS
  Threads = {1, 2, 3}
  Destroyers = {2}
  Initers = {3}
SPECIFICATION Spec
INVARIANTS
  TypeOK
  OwnerHolds
