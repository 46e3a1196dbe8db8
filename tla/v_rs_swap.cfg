\* three sequences in three cells; one token can be taken back; runs that do not
\* fit one micro-batch
CONSTANTS
  NCells = 3
  NSeq = 3
  NRs = 1
  Token = {a}
  UBatch = 3
  KeepTail = 0
  Sequential = FALSE
  MaxPos = 2
  MaxBatch = 3
  Trusting = {"moved"}
SPECIFICATION Spec
INVARIANT StateIsHistory
