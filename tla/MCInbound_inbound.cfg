CONSTANTS
    a = a
    b = b
    o = o
    Self = o
    Peer = {a, b}
    MaxSequence <- MCMaxSequence
    PeerNeeds <- CrossNeeds
    Malformed <- MCMalformed
    MaxWaiting = 2
    MaxQuarantine = 1
    MaxEvents = 2
    MaxCheckpoints = 2
SPECIFICATION FairSpec
INVARIANTS
    CoverageIsRestorable
    ReadyHasAllCommitted
    WaitsOnce
PROPERTIES
    OpensWithWholeLog
    EventuallyCommitted
CHECK_DEADLOCK FALSE
