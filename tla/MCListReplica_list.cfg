CONSTANTS
    Actor = {1, 2, 3}
    MaxOps <- MCMaxOps
SPECIFICATION MCSpec
INVARIANTS
    TraversalOrder
    LocalInsertIsAdjacent
    Convergence
    CoverageIsHonest
    IdentityFollowsCausality
CHECK_DEADLOCK FALSE
