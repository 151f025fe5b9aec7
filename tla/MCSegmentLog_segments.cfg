CONSTANTS
    MaxRecords = 3
    TailCapacity = 2
    MaxPending = 2
    ReadLimit = 2
    MaxEvents = 3
    UseAfterFailedSeal = FALSE
SPECIFICATION Spec
INVARIANTS
    ReaderNeverSkips
PROPERTIES
    IsRecordLog
CHECK_DEADLOCK FALSE
