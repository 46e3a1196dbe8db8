\* exactly the prompt that is in memory, with a state that cannot be taken back
CONSTANTS
  a = a
  b = b
  Token <- MCToken
  Kinds <- MCKinds
  Prompts <- MCPrompts
  RingN = 3
  NPredict = 5
  NDraft = 2
  NBatch = 3
  NCkpt = 2
  CkptMin = 2
  CkptGap = 0
  CkptTail = 1
  MaxReq = 2
  Trusting = {"exact"}
SPECIFICATION Spec
INVARIANTS NeverAborts
CHECK_DEADLOCK FALSE
