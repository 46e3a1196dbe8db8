\* a checkpoint that covers the token at which the new prompt diverges
CONSTANTS
  a = a
  b = b
  Token <- MCToken
  Kinds <- MCKinds
  Prompts <- MCParting
  RingN = 3
  NPredict = 5
  NDraft = 2
  NBatch = 3
  NCkpt = 2
  CkptMin = 2
  CkptGap = 0
  CkptTail = 1
  MaxReq = 2
  Trusting = {"edge"}
SPECIFICATION Spec
INVARIANTS SampledFromHistory
CHECK_DEADLOCK FALSE
