CONSTANTS
  Task <- Family
  NSlot = 2
  Pinned <- Anywhere2
  Reader = {1}
  Owner <- OwnerFamily
  Parent <- ParentFamily
  Action = {}
  Impatient = {}
  Streaming = FALSE
  Faults = {"kv"}
  PromptLen = 2
  NPredict = 2
  NBatch = 2
SPECIFICATION Spec
INVARIANT MemoryHoldsPrompt
CHECK_DEADLOCK FALSE
