CONSTANTS
    Actor = {1, 2}
    MaxOps <- ReclaimOps
    Depths = {2}
    MaxUndoBytes = 9
    MaxRetiredGroups = 9
    MaxRetiredBytes = 9
    MaxDeferred = 1
    MaxQuarantine = 1
    Redeliver = {}
    Certify = TRUE
SPECIFICATION Spec
INVARIANTS
    RestoresOwnCheckpoint
PROPERTIES
    ListSpec
CHECK_DEADLOCK FALSE
