SPECIFICATION Spec
CONSTANTS
    MaxWork = 2
    MaxFaults = 0
    Levels = {"provisioning"}
INVARIANT
    ResetCarriedOut
CHECK_DEADLOCK FALSE
