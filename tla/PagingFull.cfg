CONSTANTS
  NUM_PROCESSES = 3
  Tids = {1, 2}
  NUM_USER_PAGES = 3
  Values = {"a"}
  PAGE_SIZE = 4
  HEADER = 1
  Sizes = {1, 2, 4}
  Again = TRUE
  Preemptible = TRUE
SPECIFICATION Spec
INVARIANTS
  TypeOK
  MappedIsUsed
PROPERTIES
  StaysSettled
CHECK_DEADLOCK FALSE
