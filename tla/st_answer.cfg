CONSTANTS
  Task <- Tasks
  NSlot = 2
  Pinned <- PinnedBeyond
  Reader = {1, 2, 3}
  Owner <- OwnerParent
  Parent <- ParentOf
  Action = {}
  Impatient = {}
  Streaming = FALSE
  Faults = {}
  PromptLen = 1
  NPredict = 2
  NBatch = 2
SPECIFICATION FairSpec
PROPERTY Answered
CHECK_DEADLOCK FALSE
