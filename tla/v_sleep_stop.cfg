CONSTANTS
  Client = {c1, c2}
  Main = main
  MaxSleeps = 1
  QuickLock = TRUE
  MayStop = TRUE
SPECIFICATION Spec
PROPERTY Returns
CHECK_DEADLOCK FALSE
