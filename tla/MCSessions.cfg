CONSTANTS
    Self = "self"
    Principals = {"self", "other"}
    Device = "device"
    Devices = {"device", "elsewhere"}
    DevicesOf <- MCDevicesOf
    None = None
    MinTime <- MCMinTime
    MaxTime = 15
    Seconds <- MCSeconds
    Skew = 2
    MaxSession = 3
    MaxUnlisted = 4
    Ttl = 4
    Margin = 1
    SessionMargin = 1
    Drift = 1
    Delay = 1
    Offsets <- MCOffsets
SPECIFICATION Spec
INVARIANTS
    TypeOK
    PromptIsAccepted
    UnrenewedGoesDark
    GrantedIsUsable
    WindowsAreExact
    TrustedSpeaksForItsOwner
