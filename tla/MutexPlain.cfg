CONSTANTS
  Threads = {1, 2, 3, 4}
  Destroyers = {}
  Initers = {}
SPECIFICATION FairSpec
INVARIANTS
  HolderOwns
  MutualExclusion
PROPERTIES
  SomebodyGets
  LockFreed
