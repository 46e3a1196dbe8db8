CONSTANTS
  Task <- Family
  NSlot = 1
  Pinned <- Anywhere2
  Reader = {1, 2}
  Owner <- OwnerTwo
  Parent <- NoParent2
  Action = {}
  Impatient = {1, 2}
  Streaming = FALSE
  Faults = {}
  PromptLen = 1
  NPredict = 2
  NBatch = 2
SPECIFICATION Spec
INVARIANT CancelledGone
CHECK_DEADLOCK FALSE
