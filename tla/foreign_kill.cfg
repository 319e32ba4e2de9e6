\* A stale document makes a start kill a process of someone else.
SPECIFICATION Spec
CONSTANTS
  Instances = {i1}
  Keys = {k1, k2}
  Pids = {p1, p2}
  Users = {}
  MaxRows = 2
  RestoreChoices = {TRUE, FALSE}
  InheritChoices = {TRUE, FALSE}
  DatabaseOutcomes = {TRUE}
  LockErrors = FALSE
  MaxInterrupts = 2
PROPERTIES
  OnlyChildrenAreKilled
