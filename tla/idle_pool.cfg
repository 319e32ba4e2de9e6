\* Two workers lose each other's activity bits.
SPECIFICATION Spec
CONSTANTS
  Workers = {w1, w2}
  Tasks = {t1, t2}
  NoTask = NoTask
INVARIANTS
  RestIsSeen
CHECK_DEADLOCK FALSE
