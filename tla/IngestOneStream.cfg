CONSTANTS
    None = None
    Streams = {s1}
    Seqs = {0, 1, 2, 17}
    PayloadSizes = {0, 9, 16}
    FieldValues <- FieldsSmall
    ContextPayloads <- AllPayloads
    max_streams = 1
    max_samples = 3
    MaxRefusals = 2
    EmitMayRaise = TRUE
    MaxDrops = 1
SPECIFICATION IngestSpec
INVARIANTS
    IngestTypeOK
    UnitsLabelled
    UnitsContiguous
    UnitsInterpretedAsLabelled
    ContextsAgree
PROPERTIES
    SamplesConserved
