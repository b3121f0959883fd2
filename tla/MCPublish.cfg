CONSTANTS
    Procs = {p1, p2}
    NoProc = NoProc
    Calls <- PublishCalls
    MaxKeys = 5
    MaxTime = 0
    Ttl = 1
    Margin = 1
SYMMETRY Symmetry
SPECIFICATION PublishSpec
INVARIANTS
    TypeOK
    ChainReachesRoot
    HeldRootsArePrefix
    ReceiverFollowsOwner
PROPERTIES
    DelegationWritesAreCurrent
    ImplementsRootLine
