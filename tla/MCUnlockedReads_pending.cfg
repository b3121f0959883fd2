CONSTANTS
    Procs = {p1}
    NoProc = NoProc
    Calls <- WriterCalls
    MaxKeys = 4
    MaxTime = 0
    Ttl = 1
    Margin = 1
SPECIFICATION ReadSpec
INVARIANTS
    UnfinishedRotationIsPrincipalGenesis
