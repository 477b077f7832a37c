CONSTANTS
  Second = 2
  MinArmLead = 1
  MaxArmAhead = 3
  MaxArmUnc = 1
  LeapExclusion = 1
  NoTime = NoTime
  NoJob = NoJob
  NoCond = NoCond
  Ppbs = {0}
  NoPpb = NoPpb
  SessionIds = {s1}
  Principals = {p1}
  OwnerIds = {o1}
  RequestIds = {}
  NoRequestId = NoRequestId
  Leases = {2}
  NoOwner = NoOwner
  NoArm = NoArm
  NoReply = NoReply
  ReplayCap = 1
  ReplayTtl = 99
  TerminalCap = 1
  TerminalTtl = 99
  MaxSessions = 1
  AckAllowance = 1
  MaintenanceHold = 2
  RequestHorizon = 1
  MaxBoots = 0
  MaxClock = 1
SPECIFICATION FocusSpec
INVARIANTS StopIsFinal AnswersTrue
PROPERTIES EveryExecutionEnds EveryOwnerReleased CoresProgress NoSpurious
CHECK_DEADLOCK FALSE
