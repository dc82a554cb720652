CONSTANTS
  None = None
  Levels <- ThreeLevels
  r1 = r1
  r2 = r2
  q1 = q1
  Rooms <- OneRoom
  Requests <- OneRequest
  Tasks <- OneRequestTasks
  Subscribers = {"circadian"}
  ExternalTtl = 1
  BusCap = 2
  Ops = {"on", "set", "snooze", "off", "resume", "resume_dark"}
  Ttl = 1
  QuietWindow = 0
  DedupWindow = 1
  QueueCap = 1
  OutCap = 1
  Overlaps = TRUE
  ReportCap = 2
  MaxTime = 0
  MaxRequests = 1
  MaxRecalls = 0
  MaxExternal = 1
  MaxReturns = 1
  MaxOutages = 1
  MaxEvents = 2
  Unpaired = {"set", "off", "resume", "resume_dark"}
SPECIFICATION FairSpec
PROPERTIES
  DeadlinesEnd
  CircadianConverges
CHECK_DEADLOCK FALSE
