\* One instance that always restores, under fairness. No child holds the lock.
SPECIFICATION FairSpec
CONSTANTS
  Instances = {i1}
  Keys = {k1, k2}
  Pids = {p1, p2}
  Users = {u1}
  MaxRows = 2
  RestoreChoices = {TRUE}
  InheritChoices = {FALSE}
  DatabaseOutcomes = {TRUE}
  LockErrors = TRUE
  MaxInterrupts = 2
INVARIANTS
  NothingElseIsReplayed
PROPERTIES
  InterruptedReturn
