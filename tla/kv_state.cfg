\* saving and restoring a sequence between decodes
CONSTANTS
    NCells = 3
    NSeq = 2
    MaxPos = 1
    NStream = 1
    SwaType = "none"
    NSwa = 1
    UBatch = 2
    MaxBatch = 2
    Starts = {0, 1}
    SharedBatch = FALSE
    AnyOrder = TRUE
    Ranges <- TailRanges
    Deltas <- NoDeltas
    Divs = {}
    MaxShift = 2
    Ops = {"rm", "write", "read", "decode"}
    Faults = {}
    CallerCleans = TRUE
SPECIFICATION Spec
INVARIANT RowsTrackCells
