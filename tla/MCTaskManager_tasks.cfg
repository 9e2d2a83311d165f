SPECIFICATION FairSpec
CONSTANTS
  w1 = w1
  w2 = w2
  NoWorker = NoWorker
  Worker <- MCWorker
  Initial <- MCInitial
  MaxThreads = 2
  RemoveQuiet = TRUE
  MaxTask = 3
  MaxStarts = 3
CHECK_DEADLOCK FALSE
INVARIANTS RunsOnce StoppedClean
PROPERTIES Dismisses
