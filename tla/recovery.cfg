\* Two instances, a database that may refuse, children that may hold the lock.
SPECIFICATION Spec
CONSTANTS
  Instances = {i1, i2}
  Keys = {k1, k2}
  Pids = {p1, p2}
  Users = {}
  MaxRows = 2
  RestoreChoices = {TRUE, FALSE}
  InheritChoices = {TRUE, FALSE}
  DatabaseOutcomes = {TRUE, FALSE}
  LockErrors = FALSE
  MaxInterrupts = 2
SYMMETRY Symmetry
INVARIANTS
  TypeOK
  SingleInstance
  InterruptedSurvive
  LiveChildIsJournaled
  OrphansAreKilled
PROPERTIES
  InterruptedAreDelivered
