\* prepare() and the cells purged by apply_ubatch
CONSTANTS
    NCells = 4
    NSeq = 2
    MaxPos = 4
    NStream = 1
    SwaType = "standard"
    NSwa = 2
    UBatch = 1
    MaxBatch = 2
    Starts = {0, 1, 2, 3, 4}
    SharedBatch = FALSE
    AnyOrder = FALSE
    Ranges <- TailRanges
    Deltas <- NoDeltas
    Divs = {}
    MaxShift = 2
    Ops = {"rm", "decode"}
    Faults = {}
    CallerCleans = TRUE
SPECIFICATION Spec
INVARIANTS RehearsalUndone
