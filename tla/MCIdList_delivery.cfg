CONSTANTS
    Actor = {1, 2}
    MaxOps <- DeliveryOps
    Depths = {0}
    MaxUndoBytes = 9
    MaxRetiredGroups = 9
    MaxRetiredBytes = 9
    MaxDeferred = 2
    MaxQuarantine = 1
    Redeliver = {"applied", "deferred", "rejected"}
    Certify = FALSE
SPECIFICATION FairSpec
INVARIANTS
    NothingReadyIsWaiting
PROPERTIES
    EventuallyIntegrated
    ListSpec
CHECK_DEADLOCK FALSE
