\* One file_prefix; crashes, restarts, files that cannot be opened, and records
\* below the file's level.
SPECIFICATION LogSpec
CONSTANTS
    FilePrefixes = {"app"}
    MaxFiles = 2
    Limit = 1
    Buffer = 2
    OpenMayFail = TRUE
    MaxBatch = 0
    MaxRecords = 10
    MaxRestarts = 1
    Quiet = {2, 5}
INVARIANTS
    HeldInOrder
    HoldsNewest
PROPERTIES
    IsEndToEndLog
