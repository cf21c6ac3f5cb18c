CONSTANTS
    None = None
    s1 = s1
    s2 = s2
    Streams = {s1, s2}
    Seqs = {0, 1, 2}
    PayloadSizes = {8}
    FieldValues <- FieldsOne
    ContextPayloads <- ReplayPayloads
    Captures <- SmallCaptures
    max_streams = 2
    max_samples = 2
    MaxRefusals = 4
    EmitMayRaise = TRUE
    MaxDrops = 1
    maxsize = 2
    MaxPuts = 5
SPECIFICATION FairRunSpec
INVARIANTS
    ReplayComplete
    ExitTellsBadReplay
PROPERTIES
    IngestSpec
    ReplayEnds
    StopReturns
