\* saving a sequence whose K-shift is pending
CONSTANTS
    NCells = 3
    NSeq = 2
    MaxPos = 2
    NStream = 1
    SwaType = "none"
    NSwa = 1
    UBatch = 2
    MaxBatch = 2
    Starts = {0, 1, 2}
    SharedBatch = FALSE
    AnyOrder = FALSE
    Ranges <- SomeRanges
    Deltas <- ShiftDeltas
    Divs = {}
    MaxShift = 2
    Ops = {"add", "write", "read", "decode"}
    Faults = {}
    CallerCleans = TRUE
SPECIFICATION Spec
INVARIANTS RowsTrackCells
