CONSTANTS
    Actor = {1}
    Owner = 1
    MaxUndoBytes = 9
    MaxRetiredGroups = 9
    MaxRetiredBytes = 9
    Depth = 1
    MaxLocal = 2
    MaxFaults = 1
    Failures <- IntentUncertain
    Authorize = {TRUE}
    PeerCounters = {}
SPECIFICATION Spec
INVARIANTS
    OneTokenPerOperation
CHECK_DEADLOCK FALSE
