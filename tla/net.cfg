SPECIFICATION Spec
CONSTANTS
    Channels = 2
    Login = 1
    Inactive = 1
    Absolute = 2
    Proof = 1
    Packets = {"malformed", "forged", "badcontrol", "logout", "read", "time", "field", "password", "setup", "write"}
    LastSequence = 3
    MaxCalls = 4
    Places = {"ap", "ip"}
    Starts = {"blank","network","consumer"}
    Requests = {"start","submit","ack","ostart","papply","pstart","psubmit","osubmit","ostatus","rstart","rsubmit"}
    Logins = {0, 1}
    Outcomes = {"committed", "not", "reconciled", "unknown"}
    MaxRequests = 3
    MaxTurns = 1
    Modes = {"cert", "local", "softap"}
    LastGeneration = 3
INVARIANTS SetupSound ServerSound
PROPERTY RadioSound
CHECK_DEADLOCK FALSE
