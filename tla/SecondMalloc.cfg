CONSTANTS
  NUM_PROCESSES = 4
  Tids = {1, 2}
  NUM_USER_PAGES = 15
  Values = {"a", "b"}
  PAGE_SIZE = 4
  HEADER = 1
  Sizes = {1, 7}
  Again = TRUE
  Preemptible = FALSE
SPECIFICATION Spec
INVARIANTS
  FindsStored
CHECK_DEADLOCK FALSE
