CONSTANTS
  Second = 2
  MinArmLead = 1
  MaxArmAhead = 3
  MaxArmUnc = 1
  LeapExclusion = 1
  NoTime = NoTime
  Jobs <- TwoJobs
  NoJob = NoJob
  NoCond = NoCond
  Ppbs = {0, 7}
  NoPpb = NoPpb
  Local = TRUE
  HasChain = FALSE
  TailHold = 0
  SessionIds = {s1}
  Principals = {p1}
  OwnerIds = {o1}
  RequestIds = {}
  NoRequestId = NoRequestId
  Leases = {2}
  ArmBodies <- ArmAt2
  Clocks <- SteadyClock
  NoOwner = NoOwner
  NoArm = NoArm
  NoReply = NoReply
  ReplayCap = 1
  ReplayTtl = 99
  TerminalCap = 1
  TerminalTtl = 3
  MaxSessions = 1
  AckAllowance = 1
  MaintenanceHold = 2
  MaxTime = 6
  RequestHorizon = 5
  MaxBoots = 0
SPECIFICATION CalibrationSpec
VIEW BareView
INVARIANTS CorrectionApplies
