\* Both sinks, two threads, the program joins them before it exits.
SPECIFICATION Spec
CONSTANTS
    Producers = {p1, p2}
    Configured = {"console", "file"}
    Levels = {1, 2}
    Threshold <- MCThreshold
    MaxCalls = 2
    MaxSpurious = 0
    ExitWaits = TRUE
    Faults = {}
SYMMETRY MCSymmetry
INVARIANTS
    MutualExclusion
    NoLostWakeup
    Conservation
    NothingLostAtShutdown
    ProducerOrder
    SinksInStep
PROPERTIES
    ConsoleImplementsSink
    FileImplementsSink
