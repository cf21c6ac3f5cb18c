CONSTANTS
    NoCap = NoCap
    max_packets = NoCap
    max_bytes = NoCap
    duration = 3
    MaxTime = 8
    MaxReceived = 5
SPECIFICATION FairReceiveSpec
INVARIANTS
    CaptureKept
    AtMostOneLate
PROPERTIES
    CaptureEnds
