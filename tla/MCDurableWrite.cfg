CONSTANTS
    Procs = {p1, p2}
    NoProc = NoProc
    Pids = {i1, i2}
    Names = {"rotations", "root"}
    Jobs <- MCJobs
    MaxWrites = 3
    MaxTurns = 4
SYMMETRY Symmetry
SPECIFICATION Spec
INVARIANTS
    FilesAreWhole
    AcknowledgedSurvives
    OneRenameAtRisk
    CollisionsAreOfTheDead
CHECK_DEADLOCK FALSE
