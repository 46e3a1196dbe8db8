\* two sequences in three cells; one token can be taken back; runs that do not
\* fit one micro-batch
CONSTANTS
  NCells = 3
  NSeq = 2
  NRs = 1
  Token = {a}
  UBatch = 3
  KeepTail = 0
  Sequential = FALSE
  MaxPos = 3
  MaxBatch = 4
  Trusting = {}
SPECIFICATION Spec
INVARIANTS StateIsHistory TailsAgree NeverAborts
