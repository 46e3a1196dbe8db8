\* one stream per sequence: stream copies run by the next decode, runs of unequal
\* lengths cut by split_equal
CONSTANTS
    NCells = 2
    NSeq = 2
    MaxPos = 1
    NStream = 2
    SwaType = "none"
    NSwa = 1
    UBatch = 2
    MaxBatch = 3
    Starts = {0, 1}
    SharedBatch = FALSE
    AnyOrder = FALSE
    Ranges <- TailRanges
    Deltas <- ShiftDeltas
    Divs = {}
    MaxShift = 1
    Ops = {"rm", "cp", "add", "decode"}
    Faults = {"compute", "shift"}
    CallerCleans = TRUE
SPECIFICATION Spec
INVARIANT RowsTrackCells
