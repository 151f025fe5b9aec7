CONSTANTS
    Actor = {1}
    Owner = 1
    MaxUndoBytes = 9
    MaxRetiredGroups = 9
    MaxRetiredBytes = 9
    Depth = 2
    MaxLocal = 3
    MaxFaults = 2
    Failures <- IntentIsCertain
    Authorize = {TRUE, FALSE}
    PeerCounters = {2}
SPECIFICATION Spec
INVARIANTS
    SucceededIsDurable
    OneTokenPerOperation
    IdentityAboveSeen
    ReopenableUnlessOverwritten
    HistoryAccountsForLog
CHECK_DEADLOCK FALSE
