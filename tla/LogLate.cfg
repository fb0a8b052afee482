\* Threads that still log while the process exits; threads that cannot be
\* started and a log directory that fails; spurious wakeups.
SPECIFICATION Spec
CONSTANTS
    Producers = {p1, p2}
    Configured = {"console", "file"}
    Levels = {1, 2}
    Threshold <- MCThreshold
    MaxCalls = 1
    MaxSpurious = 1
    ExitWaits = FALSE
    Faults = {"spawn", "directory"}
SYMMETRY MCSymmetry
INVARIANTS
    TypeOK
    NothingLostAtShutdown
    NoWorkerOutlives
