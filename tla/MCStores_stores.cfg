CONSTANTS
    Actor = {1, 2, 3}
    Genesis = {1, 2}
    Scope = {"text", "comments"}
    MaxEpoch = 3
    MaxWrites = 2
    MaxProposals = 2
    MaxFaults = 3
    CommitFaults = {"write", "torn", "sync", "dirsync", "throw"}
    Device = {1, 2, 3}
    FirstMembers = {1, 2}
    Streams <- MCStreams
    MaxCounter = 2
    Budgets <- MCBudgets
    RetentionFaults = {"write", "torn", "sync", "dirsync"}
    MaxOperations = 1
    LastGeneration = 3
    MaxEpochs = 2
    MaxStoreFaults = 3
    Process = {1, 2}
    StreamName = {"text", "chat"}
    Exhausted = 3
    MaxRun = 2
    MaxActors = 2
    MaxDeviceFaults = 2
SPECIFICATION MCSpec
INVARIANTS
    LeaseKeepsEpoch
    JournalLeadsToConfirmed
    ReclaimedIsHeldByAll
    NoUndoOfReclaimed
    AcknowledgedIsRecorded
    RecoversStored
    IdentityIssuedOnce
CHECK_DEADLOCK FALSE
