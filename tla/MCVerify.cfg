CONSTANTS
    None = None
    RegistryType = "registry"
    ShortId <- MCShortId
    HexNames = {"0123456789ABCDEF"}
    Documents <- MCDocuments
    Messages <- MCMessages
    Approvals <- MCApprovals
    Revocations <- MCRevocations
    MaxTime = 3
    MaxPeer = 2
    Skew = 1
    MaxSession = 2
    MaxUnlisted = 3
SPECIFICATION Spec
INVARIANTS
    HistoryStands
    PeerRevocationsFitTheDocument
    NamesAreUnambiguous
PROPERTIES
    NothingCutIsAccepted
    ApprovedAsBound
    CutsLast
