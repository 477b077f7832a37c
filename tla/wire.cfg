SPECIFICATION Spec
CONSTANTS
    Bytes = {0, 1, 2, 3}
    MaxPayload = 2
    MaxDiscard = 4
    MaxInvalid = 2
    MaxChunk = 2
    MaxStream = 7
    Sessions = {"a", "b"}
    QueueCap = 2
    QueueBytes = 3
    Wait = 2
    LastEvent = 3
    BadFrames = 1
    MaxRequests = 3
    MaxRestarts = 1
    MaxTime = 2
    Timeout = 2
    Hold = 3
    Delay = 1
    SampleAge = 1
    MaxSeq = 3
    MaxSessions = 2
    MaxChanges = 1
    UsbTime = 4
    Clients = {"usb", "radio"}
    Kinds = {"config", "st", "dial", "cal", "filters", "logging", "udp", "message", "pause", "progress", "apply", "hostname", "wifi", "restart", "network"}
    LateKinds = {"config", "udp", "restart"}
    Resources = {"config", "dial", "filters", "message", "progress", "wifi", "udp"}
    Faults = {"store", "station", "profile"}
    Profiles = {"none", "consumer"}
    MaxSteps = 2
INVARIANTS FramesFound NothingLost CableSafe RevisionsSound
CHECK_DEADLOCK FALSE
