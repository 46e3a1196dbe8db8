\* two sequences, alone, together in a batch or sharing tokens; micro-batches
\* of two tokens; every operation between decodes; inputs and graphs that fail
CONSTANTS
  NCells = 3
  SeqId = {0, 1}
  Token = {a, b}
  Eos = eos
  NGram = 3
  UBatch = 2
  EmbdAll = FALSE
  Shared = TRUE
  MaxRun = 2
  MaxBatch = 3
  MaxPos = 3
  JumpInside = FALSE
  Jumps <- SmallJumps
  Ranges <- RmRanges
SPECIFICATION Spec
SYMMETRY Symmetric
INVARIANTS SameCells SameEnd NoFalseContext ContextKept
