\* Three connections, one with requests the factory refuses, and two requests to replay.
SPECIFICATION Spec
CONSTANTS
  c1 = c1
  c2 = c2
  c3 = c3
  wal1 = wal1
  conf1 = conf1
  NoClient = NoClient
  Clients = {c1, c2, c3}
  Descriptors = {5, 6}
  RequestsFromWAL <- MCRequestsFromWAL
  RequestsFromConfig <- MCRequestsFromConfig
  Garbled = {c3}
  MaxAsks = 2
INVARIANTS
  TypeOK
  AnswersReachTheAsker
  ReplayedComeFirst
  KilledByTheImpatient
  NoRequestIsLost
PROPERTIES
  AskedIsAnswered
  ShutdownReturns
CHECK_DEADLOCK FALSE
