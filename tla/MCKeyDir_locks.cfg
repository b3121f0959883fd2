CONSTANTS
    Procs = {p1, p2}
    NoProc = NoProc
    Calls <- LockCalls
    MaxKeys = 4
    MaxTime = 0
    Ttl = 1
    Margin = 0
SPECIFICATION FairSpec
INVARIANTS
    SnapshotReads
    CommitMarker
PROPERTIES
    LockReleased
