CONSTANTS
    None = None
    s1 = s1
    s2 = s2
    Streams = {s1, s2}
    Seqs = {0, 1}
    PayloadSizes = {8}
    FieldValues <- FieldsSmall
    ContextPayloads <- TwoPayloads
    max_streams = 2
    max_samples = 5
    MaxRefusals = 1
    EmitMayRaise = TRUE
    MaxDrops = 1
SPECIFICATION IngestSpec
INVARIANT FlushedOnExit
