CONSTANTS
  None = None
  Levels <- ThreeLevels
  r1 = r1
  r2 = r2
  q1 = q1
  Rooms <- OneRoom
  Requests <- OneRequest
  Tasks <- OneRequestTasks
  Subscribers = {"circadian"}
  ExternalTtl = 1
  BusCap = 2
  Ops = {"scene"}
  Ttl = 1
  QuietWindow = 0
  DedupWindow = 1
  QueueCap = 1
  OutCap = 1
  Overlaps = TRUE
  ReportCap = 2
  MaxTime = 1
  MaxRequests = 1
  MaxRecalls = 0
  MaxExternal = 0
  MaxReturns = 0
  MaxOutages = 0
  MaxEvents = 9
  Unpaired = {}
SPECIFICATION FairSpec
PROPERTIES
  OverrideTtlEnds
CHECK_DEADLOCK FALSE
