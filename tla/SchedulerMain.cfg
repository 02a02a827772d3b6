CONSTANTS
  MaxTid = 4
  BoostAt = 90
  Joins <- OnlyMain
SPECIFICATION FairSpec
INVARIANTS
  RunQueuesExact
  WaitersWakeable
  FreedTcbsUntouched
PROPERTIES
  ImplementsLife
  ReadyRuns
  JoinReturns
CHECK_DEADLOCK FALSE
