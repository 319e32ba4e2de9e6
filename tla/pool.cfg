\* Two workers, three tasks, shutdown at any time. The pool ends when it is shut down.
SPECIFICATION FairSpec
CONSTANTS
  Workers = {w1, w2}
  Tasks = {t1, t2, t3}
  NoTask = NoTask
INVARIANTS
  TypeOK
  ShutdownDrains
  NobodySleepsOverWork
PROPERTIES
  RunsEachTaskOnceInOrder
  EveryAcceptedTaskRuns
  ShutdownReturns
CHECK_DEADLOCK FALSE
