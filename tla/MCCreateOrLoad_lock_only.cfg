CONSTANTS
    Procs = {p1, p2}
    NoProc = NoProc
    Starts = {"lock_only"}
    MaxDirs = 4
    MaxLocks = 5
SYMMETRY Symmetry
SPECIFICATION Spec
INVARIANT OneWriter
