SPECIFICATION TimeSpec
CONSTANTS
 SlotDuration = 4
 WsprLead = 1
 WsprWindow = 2
 FrameTail = 3
 MessageFirst = 2
 MessagePeriod = 4
 MessageLead = 1
 MessageWindow = 2
 MessageTail = 2
 Expiry = 0
 Hardware = {0,1}
 FactoryHardware = 0
 Networks = {0}
 Offsets = {0,3}
 MaxTime = 6
 MaxDisturbances = 3
 Who = {"p", "q"}
 Phases = {0, 4}
 MaxNow = 4
 MaxSteps = 4
 Synced = 1
 SourceLife = 1
 BrowserLife = 2
 Holdover = 2
 Horizon = 4
 ReachBits = 2
 MaxDistance = 3
 RefAge = 1
 Gap = 1
 Wrong = 9
 WsprSchedules <- OneSchedule
INVARIANTS AtMostOnce StaysPut
PROPERTIES ArmsAsPredicted ClockHonest EstimateSound
CHECK_DEADLOCK FALSE
