\* a sliding window that lost its cell order: what the third micro-batch of the
\* rehearsal purges is missing when the first one is computed
CONSTANTS
    NCells = 4
    NSeq = 1
    MaxPos = 5
    NStream = 1
    SwaType = "standard"
    NSwa = 3
    UBatch = 1
    MaxBatch = 3
    Starts = {0, 1, 2, 3, 4, 5}
    SharedBatch = FALSE
    AnyOrder = FALSE
    Ranges <- TailRanges
    Deltas <- NoDeltas
    Divs = {}
    MaxShift = 1
    Ops = {"rm", "decode"}
    Faults = {}
    CallerCleans = TRUE
SPECIFICATION Spec
PROPERTIES AttendedSurvive
