\* A reply reaches the observers as a request of the other side.
SPECIFICATION Spec
CONSTANTS
  Asynchronous = {r1, r2}
  Blocking = {b1}
  Initiatives = {q1}
  NoRequest = NoRequest
  MaxReplies = 2
INVARIANTS
  OnlyInitiativesAreHanded
CHECK_DEADLOCK FALSE
