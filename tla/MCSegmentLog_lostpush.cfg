CONSTANTS
    MaxRecords = 2
    TailCapacity = 2
    MaxPending = 2
    ReadLimit = 2
    MaxEvents = 1
    UseAfterFailedSeal = TRUE
SPECIFICATION Spec
INVARIANTS
    ConfirmedIsRecoverable
CHECK_DEADLOCK FALSE
