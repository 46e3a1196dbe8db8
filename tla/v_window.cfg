\* a decode that finds no slot and the positions of a sequence
CONSTANTS
    NCells = 5
    NSeq = 2
    MaxPos = 4
    NStream = 1
    SwaType = "standard"
    NSwa = 3
    UBatch = 2
    MaxBatch = 4
    Starts = {0}
    SharedBatch = FALSE
    AnyOrder = FALSE
    Ranges <- AllRange
    Deltas <- NoDeltas
    Divs = {}
    MaxShift = 2
    Ops = {"rm", "decode"}
    Faults = {}
    CallerCleans = TRUE
SPECIFICATION Spec
INVARIANTS WindowPresent
