\* A client and the monitor, three children. The launcher ends when it is shut down.
SPECIFICATION FairSpec
CONSTANTS
  Clients = {c1}
  Monitor = Monitor
  Programs = {prog}
  MaxLaunches = 3
INVARIANTS
  TypeOK
  HandledOnce
  OnlyTheDeadAreAnnounced
  LiveChildrenAreWatched
  NoDeathIsForgotten
PROPERTIES
  DeathIsAnnounced
CHECK_DEADLOCK FALSE
