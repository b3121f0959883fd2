CONSTANTS
    Procs = {p1, p2, p3}
    NoProc = NoProc
    Starts = {"absent", "empty", "lock_only", "partial", "identity"}
    MaxDirs = 3
    MaxLocks = 4
SYMMETRY Symmetry
SPECIFICATION Spec
INVARIANT OneIdentity LockExcludes
PROPERTY NothingOrComplete
