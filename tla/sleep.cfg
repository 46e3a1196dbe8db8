\* the model sleeps and wakes, and the server may be stopped at any time
CONSTANTS
  Client = {c1, c2, c3}
  Main = main
  MaxSleeps = 3
  QuickLock = TRUE
  MayStop = TRUE
SPECIFICATION Spec
INVARIANTS TypeOK OnlyMainWaits RequestHeard
PROPERTIES Served LoopReturns
CHECK_DEADLOCK FALSE
