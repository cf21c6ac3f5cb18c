CONSTANTS
    c1 = c1
    c2 = c2
    c3 = c3
    Consumers = {c1, c2, c3}
    maxsize = 2
    MaxPuts = 5
    Timed = TRUE
SPECIFICATION FairBoundedSpec
INVARIANTS
    NewestKept
    NoLostWakeup
PROPERTIES
    QueueSpec
    WaitersServed
    ImplementsWindow
