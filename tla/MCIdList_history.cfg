CONSTANTS
    Actor = {1}
    MaxOps <- HistoryOps
    Depths = {1, 3}
    MaxUndoBytes = 3
    MaxRetiredGroups = 3
    MaxRetiredBytes = 2
    MaxDeferred = 1
    MaxQuarantine = 1
    Redeliver = {}
    Certify = TRUE
SPECIFICATION Spec
INVARIANTS
    HistoryMatchesUndoMap
    HistoryIsResolvable
CHECK_DEADLOCK FALSE
