CONSTANTS
    NoCap = NoCap
    maxsize = 1
    MaxPuts = 2
    max_packets = 2
    max_bytes = 3
    Recording = TRUE
    DatagramSizes <- SmallAndLarge
    EmitMayRaise = FALSE
SPECIFICATION LiveSpec
INVARIANT SavedAfterSource
