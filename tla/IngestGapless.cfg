CONSTANTS
    None = None
    Streams = {s1}
    Seqs = {0, 1, 17}
    PayloadSizes = {8}
    FieldValues <- FieldsSmall
    ContextPayloads <- TwoPayloads
    max_streams = 1
    max_samples = 3
    MaxRefusals = 1
    EmitMayRaise = FALSE
    MaxDrops = 1
SPECIFICATION IngestSpec
INVARIANT UnitsGapless
