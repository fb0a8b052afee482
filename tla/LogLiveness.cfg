\* Both sinks, two threads, every thread keeps running.
SPECIFICATION FairSpec
CONSTANTS
    Producers = {p1, p2}
    Configured = {"console", "file"}
    Levels = {2}
    Threshold <- MCThreshold
    MaxCalls = 1
    MaxSpurious = 1
    ExitWaits = TRUE
    Faults = {}
PROPERTIES
    ShutdownCompletes
    EveryRecordHandled
