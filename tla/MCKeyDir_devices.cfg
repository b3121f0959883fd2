CONSTANTS
    Procs = {p1, p2}
    NoProc = NoProc
    Calls <- DeviceCalls
    MaxKeys = 4
    MaxTime = 2
    Ttl = 1
    Margin = 0
SYMMETRY Symmetry
SPECIFICATION Spec
INVARIANTS
    RetiredKeysFailClosed
    RenewRepairs
