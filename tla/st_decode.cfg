\* decoding, with every way a prompt or a decode may fail; as many slots as tasks
CONSTANTS
  Task <- ThreeTasks
  NSlot = 3
  Pinned <- PinnedSecond
  Reader = {1, 2, 3}
  Owner <- OwnerOwn
  Parent <- NoParent
  Action = {2}
  Impatient = {3}
  Streaming = TRUE
  Faults = {"kv", "decode", "prompt"}
  PromptLen = 3
  NPredict = 2
  NBatch = 4
SPECIFICATION Spec
INVARIANTS TypeOK MemoryHoldsPrompt CancelledGone
CHECK_DEADLOCK FALSE
