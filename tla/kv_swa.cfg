\* sliding window: cells of a masked position are reused; positions are divided
CONSTANTS
    NCells = 3
    NSeq = 2
    MaxPos = 3
    NStream = 1
    SwaType = "standard"
    NSwa = 2
    UBatch = 1
    MaxBatch = 2
    Starts = {0, 1, 2, 3}
    SharedBatch = FALSE
    AnyOrder = FALSE
    Ranges <- EndRanges
    Deltas <- NoDeltas
    Divs = {2}
    MaxShift = 1
    Ops = {"rm", "div", "decode"}
    Faults = {"compute"}
    CallerCleans = TRUE
SPECIFICATION Spec
PROPERTIES ApplyKeepsWindow ComputeKeepsAttended
