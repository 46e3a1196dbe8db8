CONSTANTS
  Task <- ThreeTasks
  NSlot = 1
  Pinned <- PinnedSecond
  Reader = {1, 2, 3}
  Owner <- OwnerOwn
  Parent <- NoParent
  Action = {2}
  Impatient = {}
  Streaming = FALSE
  Faults = {}
  PromptLen = 1
  NPredict = 1
  NBatch = 2
SPECIFICATION FairSpec
PROPERTY Answered
CHECK_DEADLOCK FALSE
