\* restoring a sequence whose stream copy is pending
CONSTANTS
    NCells = 2
    NSeq = 2
    MaxPos = 2
    NStream = 2
    SwaType = "none"
    NSwa = 1
    UBatch = 2
    MaxBatch = 2
    Starts = {0, 1, 2}
    SharedBatch = FALSE
    AnyOrder = FALSE
    Ranges <- TailRanges
    Deltas <- NoDeltas
    Divs = {}
    MaxShift = 2
    Ops = {"cp", "write", "read", "decode"}
    Faults = {}
    CallerCleans = TRUE
SPECIFICATION Spec
INVARIANTS RowsTrackCells
