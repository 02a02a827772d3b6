CONSTANTS
  NUM_PROCESSES = 4
  Tids = {1, 2, 3}
  NUM_USER_PAGES = 12
  Values = {"a", "b"}
  PAGE_SIZE = 4
  HEADER = 1
  Sizes = {3}
  Again = FALSE
  Preemptible = FALSE
SPECIFICATION Spec
INVARIANTS
  OpenIsOwn
  NeverAstray
  FindsStored
  CallsSettle
CHECK_DEADLOCK FALSE
