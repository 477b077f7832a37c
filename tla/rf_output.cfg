SPECIFICATION RfSpec
CONSTANTS
    SinkChains <- AllSinkChains
    AmpLead = 1
    AmpTail = 1
    Release = 1
    Settle = 1
    Window = 2
    Totals = {1, 3}
    MaxEpoch = 2
    MaxTime = 9
    MaxFaults = 1
    SiChains <- Boards
    Jobs <- TwoJobs
    Step = 2
    Budget = 1
    MaxTransactions = 8
INVARIANTS SinkSound ToneSound RefQuiet
PROPERTIES SwitchOrder
CHECK_DEADLOCK FALSE
