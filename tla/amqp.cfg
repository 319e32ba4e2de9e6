\* An asynchronous request, a blocking one, one of the other side, which may repeat itself. All of it ends.
SPECIFICATION Spec
CONSTANTS
  Asynchronous = {r1}
  Blocking = {b1}
  Initiatives = {q1}
  NoRequest = NoRequest
  MaxReplies = 3
INVARIANTS
  TypeOK
  ResponseIsThere
PROPERTIES
  AnswersOnce
  AwaitedIsNotHanded
CHECK_DEADLOCK FALSE
