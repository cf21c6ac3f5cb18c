CONSTANTS
    None = None
    s1 = s1
    s2 = s2
    s3 = s3
    Streams = {s1, s2, s3}
    Seqs = {0, 1}
    PayloadSizes = {8}
    FieldValues <- FieldsSmall
    ContextPayloads <- TwoPayloads
    max_streams = 2
    max_samples = 5
    MaxRefusals = 1
    EmitMayRaise = FALSE
    MaxDrops = 1
SPECIFICATION FairIngestSpec
INVARIANTS
    NothingDroppedDownstream
    AgePolled
    FlushedOnExit
PROPERTIES
    OverdueFlushed
