CONSTANTS
    Authority = a
    Principals = {p}
    Successors = {k1, k2}
    None = None
    MaxRotations = 2
SYMMETRY Symmetry
SPECIFICATION Spec
INVARIANTS
    NoForkNoRewind
    RestartForgetsNothing
    LatestIsRedeliverable
PROPERTIES
    RetiredRootsStayRetired
    ImplementsRootLine
