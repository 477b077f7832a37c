CONSTANTS
    Data = {d1, d2}
    NoData = NoData
    SlotsPerBank = 2
    MaxSeq = 8
    MaxWork = 3
    MaxFaults = 1
    Levels = {"access", "provisioning", "full"}
    Rates = {0, 1, 2}
    Step = 2
    Cooldown = 1
    MaxLearn = 3
    MaxTroubles = 2
SPECIFICATION StoreSpec
INVARIANTS FlashSound LearningKept
PROPERTIES OwnerKept PurgeComplete Durable
CHECK_DEADLOCK FALSE
