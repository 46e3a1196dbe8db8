CONSTANTS
  Task <- Tasks
  NSlot = 2
  Pinned <- PinnedLast
  Reader = {1, 2, 3}
  Owner <- OwnerParent
  Parent <- ParentOf
  Action = {}
  Impatient = {1, 3}
  Streaming = TRUE
  Faults = {"launch", "spec"}
  PromptLen = 1
  NPredict = 2
  NBatch = 2
SPECIFICATION Spec
INVARIANTS InOnePlace NoStrayResult OneFinalResult ChildHasParent
CHECK_DEADLOCK FALSE
