\* two requests; drafts of two tokens, with every memory of a target
CONSTANTS
  a = a
  b = b
  Token <- MCToken
  Kinds <- MCKinds
  Prompts <- MCPrompts
  RingN = 3
  NPredict = 5
  NDraft = 2
  NBatch = 3
  NCkpt = 2
  CkptMin = 2
  CkptGap = 0
  CkptTail = 1
  MaxReq = 2
  Trusting = {}
SPECIFICATION FairSpec
INVARIANTS SampledFromHistory BoundaryIsHistory NeverAborts
PROPERTIES Finishes
CHECK_DEADLOCK FALSE
