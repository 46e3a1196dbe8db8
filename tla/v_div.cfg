\* seq_div and the K-shift
CONSTANTS
    NCells = 3
    NSeq = 2
    MaxPos = 2
    NStream = 1
    SwaType = "none"
    NSwa = 1
    UBatch = 2
    MaxBatch = 2
    Starts = {0, 1, 2}
    SharedBatch = FALSE
    AnyOrder = FALSE
    Ranges <- SomeRanges
    Deltas <- NoDeltas
    Divs = {2}
    MaxShift = 2
    Ops = {"div", "decode"}
    Faults = {}
    CallerCleans = TRUE
SPECIFICATION Spec
INVARIANTS RowsTrackCells
