\* A start is refused although no other instance runs.
SPECIFICATION Spec
CONSTANTS
  Instances = {i1}
  Keys = {k1, k2}
  Pids = {p1, p2}
  Users = {}
  MaxRows = 2
  RestoreChoices = {TRUE, FALSE}
  InheritChoices = {TRUE, FALSE}
  DatabaseOutcomes = {TRUE}
  LockErrors = FALSE
  MaxInterrupts = 2
PROPERTIES
  RefusedOnlyWhileRunning
