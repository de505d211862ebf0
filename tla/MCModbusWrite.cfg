CONSTANTS
  Tasks = {t1, t2}
  NoTask = noTask
  Kinds = {0, 1, 2}
  MaxRequests = 2
SPECIFICATION Spec
INVARIANTS QuietWriteSucceeds
CHECK_DEADLOCK FALSE
