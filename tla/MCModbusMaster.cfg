CONSTANTS
  Tasks = {t1, t2}
  NoTask = noTask
  Kinds = {0, 1, 2}
  MaxRequests = 3
SYMMETRY TaskSymmetry
SPECIFICATION Spec
INVARIANTS TypeOK TakenOnce QuietReadSucceeds
CHECK_DEADLOCK FALSE
