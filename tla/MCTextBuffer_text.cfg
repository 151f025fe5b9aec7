CONSTANTS
    Actor = {1, 2, 3}
    Seeder = 3
    SeedLength = 2
    Lengths = {0, 2}
    MaxDeferred = 2
    MaxQuarantined = 2
    Plans <- MCPlans
    MaxUndoBytes = 20
    MaxRetiredGroups = 10
    MaxRetiredBytes = 20
SPECIFICATION Spec
INVARIANTS
    DirectPathsAgree
    TextFollowsVersion
    EditsSinceTransform
    NothingReadyIsWaiting
    RestoresOwnCheckpoint
CHECK_DEADLOCK FALSE
