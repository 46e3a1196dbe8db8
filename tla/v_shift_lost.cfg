\* a failed K-shift, then a rehearsal that reuses a cell whose shift is pending
CONSTANTS
    NCells = 3
    NSeq = 1
    MaxPos = 4
    NStream = 1
    SwaType = "standard"
    NSwa = 2
    UBatch = 1
    MaxBatch = 2
    Starts = {0, 1, 2, 3, 4}
    SharedBatch = FALSE
    AnyOrder = FALSE
    Ranges <- TailRanges
    Deltas <- ShiftDeltas
    Divs = {}
    MaxShift = 1
    Ops = {"rm", "add", "decode"}
    Faults = {"shift"}
    CallerCleans = TRUE
SPECIFICATION Spec
INVARIANT RowsTrackCells
