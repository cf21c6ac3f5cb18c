CONSTANTS
    None = None
    s1 = s1
    s2 = s2
    Streams = {s1, s2}
    EmittedUnits <- MeterUnits
    REORDER_WINDOW = 2
    MaxUnits = 5
SPECIFICATION MeterSpec
SYMMETRY StreamSymmetry
INVARIANTS
    MeterBounded
    IntegrationExact
    OKMasksNothing
PROPERTIES
    LateWithoutGap
