\* Three clients that are added and removed while the thread works.
SPECIFICATION Spec
CONSTANTS
  Clients = {"a", "b", "c"}
  NullClient = "null"
INVARIANTS
  TypeOK
  NoCallAfterRemove
PROPERTIES
  AddedIsRun
  ShutdownReturns
CHECK_DEADLOCK FALSE
