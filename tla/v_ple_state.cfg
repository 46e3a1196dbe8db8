\* a restored sequence: the history of the one before is trusted
CONSTANTS
  NCells = 3
  SeqId = {0, 1}
  Token = {a, b}
  Eos = eos
  NGram = 3
  UBatch = 2
  EmbdAll = FALSE
  Shared = TRUE
  MaxRun = 2
  MaxBatch = 3
  MaxPos = 3
  JumpInside = FALSE
  Jumps <- SmallJumps
  Ranges <- RmRanges
SPECIFICATION StateSpec
SYMMETRY Symmetric
INVARIANTS NoFalseContext
