\* one stream shared by two sequences: shared cells, shared tokens, any order of
\* positions, shifts
CONSTANTS
    NCells = 3
    NSeq = 2
    MaxPos = 2
    NStream = 1
    SwaType = "none"
    NSwa = 1
    UBatch = 1
    MaxBatch = 2
    Starts = {0, 1, 2}
    SharedBatch = TRUE
    AnyOrder = TRUE
    Ranges <- TailRanges
    Deltas <- ShiftDeltas
    Divs = {}
    MaxShift = 1
    Ops = {"clear", "rm", "rm_any", "cp", "keep", "add", "decode"}
    Faults = {}
    CallerCleans = TRUE
SPECIFICATION Spec
INVARIANTS TypeOK IndexExact ShiftAnnounced RowsTrackCells RehearsalUndone
PROPERTIES AttendedSurvive
