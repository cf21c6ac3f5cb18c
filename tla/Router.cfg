CONSTANTS
    None = None
    s1 = s1
    s2 = s2
    Streams = {s1, s2}
    Seqs = {0}
    PayloadSizes = {8, 12, 16}
    FieldValues <- FieldsOne
    ContextPayloads <- RouterPayloads
    max_streams = 1
    max_samples = 4
    EmitMayRaise = TRUE
    MaxDrops = 2
SPECIFICATION RouterSpec
INVARIANTS
    UnitsConvertible
    WindowsBounded
PROPERTIES
    WindowsLeaveWhole
