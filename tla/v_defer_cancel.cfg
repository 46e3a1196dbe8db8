CONSTANTS
  Task <- ThreeTasks
  NSlot = 1
  Pinned <- Anywhere3
  Reader = {1, 2, 3}
  Owner <- OwnerOwn
  Parent <- NoParent
  Action = {}
  Impatient = {2}
  Streaming = FALSE
  Faults = {}
  PromptLen = 1
  NPredict = 1
  NBatch = 2
SPECIFICATION FairSpec
PROPERTY Answered
CHECK_DEADLOCK FALSE
