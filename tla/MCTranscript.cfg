CONSTANTS
    None = None
    Refused = Refused
    Base = 4
    LenWidth = 1
    IntWidth = 2
    KeyLength = 1
    NonceLength = 1
    DigestLength = 1
    MaxNanos = 3
    Inputs <- MCInputs
SPECIFICATION Spec
INVARIANT SignatureCoversOne
