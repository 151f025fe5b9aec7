CONSTANTS
    B = 2
    Starts <- MCStarts
    Replacements = {0, 6}
    LaterRanks = {1, 6}
    MaxTreeOps = 2
    KeyCount = 6
SPECIFICATION MCSpec
INVARIANTS
    VersionsHoldTheirItems
    CursorsAgree
    RanksAreTrue
    LookupsAgree
CHECK_DEADLOCK FALSE
