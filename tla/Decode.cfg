CONSTANTS
    RawPackets <- AllPackets
SPECIFICATION DecodeSpec
INVARIANTS
    FieldsInPlace
    ReadsInside
    RefusedIffTruncated
    NothingLeftOut
