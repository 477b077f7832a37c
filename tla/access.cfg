SPECIFICATION Spec
CONSTANTS
    ProofLife = 1
    Inactivity = 1
    Absolute = 1
    ApBonds = 2
    ApSlots = 2
    ApWindow = 2
    Passwords = {0, 1}
    Wtp = {"w", "v"}
    MaxTokens = 2
    MaxProofs = 1
    ApTime = 1
    BondCap = 1
    Slots = 1
    Window = 1
    Peers = {1, 2}
    Values = {"p", "q"}
    ReplayCap = 1
    Fragments = 2
    Retention = 1
    SessionTimeout = 1
    Delivery = 1
    MaxCommands = 6
    EnrollAfter = 5
    BleTime = 1
    LinkPeers = {1}
    Deadline = 1
    MaxEndpoints = 3
    LinkTime = 2
    Drain = 1
    Stable = 1
    Fallback = 1
    Grace = 1
    Reopen = 1
    Manual = 2
    FieldTime = 4
    MaxAsked = 1
INVARIANTS BrowserSound LinkSound WindowSound
PROPERTY FieldTrust
CHECK_DEADLOCK FALSE
