\* a failed micro-batch of coupled tokens
CONSTANTS
    NCells = 3
    NSeq = 2
    MaxPos = 2
    NStream = 1
    SwaType = "none"
    NSwa = 1
    UBatch = 2
    MaxBatch = 2
    Starts = {0, 1, 2}
    SharedBatch = TRUE
    AnyOrder = FALSE
    Ranges <- SomeRanges
    Deltas <- NoDeltas
    Divs = {}
    MaxShift = 2
    Ops = {"rm", "decode"}
    Faults = {"compute"}
    CallerCleans = TRUE
SPECIFICATION Spec
INVARIANTS RowsTrackCells
