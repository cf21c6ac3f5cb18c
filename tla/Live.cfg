CONSTANTS
    NoCap = NoCap
    maxsize = 1
    MaxPuts = 4
    max_packets = 3
    max_bytes = 4
    Recording = TRUE
    DatagramSizes <- SmallAndLarge
    EmitMayRaise = TRUE
SPECIFICATION FairLiveSpec
INVARIANTS
    RecordingComplete
    NoFalseBindFailure
    ExitCodeHonest
PROPERTIES
    BindFailureEnds
    InterruptEnds
    NoLeakedSource
