CONSTANTS
  Second = 2
  MinArmLead = 1
  MaxArmAhead = 3
  MaxArmUnc = 1
  LeapExclusion = 1
  NoTime = NoTime
  Jobs <- OneJob
  NoJob = NoJob
  NoCond = NoCond
  Ppbs = {0}
  NoPpb = NoPpb
  Local = TRUE
  HasChain = FALSE
  TailHold = 0
  SessionIds = {s1, s2}
  Principals = {p1, p2}
  OwnerIds = {o1}
  RequestIds = {q1}
  NoRequestId = NoRequestId
  Leases = {1}
  ArmBodies <- ArmAt2
  Clocks <- SteadyClock
  NoOwner = NoOwner
  NoArm = NoArm
  NoReply = NoReply
  ReplayCap = 1
  ReplayTtl = 2
  TerminalCap = 1
  TerminalTtl = 3
  MaxSessions = 2
  AckAllowance = 1
  MaintenanceHold = 2
  MaxTime = 2
  RequestHorizon = 2
  MaxBoots = 0
  OneSession = s3
  OnePrincipal = p3
  OneRequest = q3
SPECIFICATION FocusSpec
VIEW FocusView
SYMMETRY ClientSymmetry
INVARIANTS Interlocked SessionBound
PROPERTIES NoNewAuthority LeaseRespected
