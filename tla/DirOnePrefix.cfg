\* One file_prefix, crashes, restarts and failing opens.
SPECIFICATION Spec
CONSTANTS
    FilePrefixes = {"app"}
    MaxFiles = 2
    Limit = 1
    Buffer = 2
    OpenMayFail = TRUE
    MaxBatch = 2
    MaxRecords = 8
    MaxRestarts = 2
INVARIANTS
    TypeOK
    FilesBounded
    SizeBounded
    NumbersHaveNoGap
    RecordsInOrder
PROPERTIES
    HighestNumberGrows
    IsRollingLog
