CONSTANTS
  Task <- Tasks
  NSlot = 2
  Pinned <- PinnedLast
  Reader = {1, 2, 3}
  Owner <- OwnerParent
  Parent <- ParentOf
  Action = {}
  Impatient = {1, 2}
  Streaming = FALSE
  Faults = {}
  PromptLen = 1
  NPredict = 1
  NBatch = 2
SPECIFICATION Spec
INVARIANT NeverAborts
CHECK_DEADLOCK FALSE
