CONSTANTS
  None = None
  Levels <- ThreeLevels
  r1 = r1
  r2 = r2
  q1 = q1
  Rooms <- OneRoom
  Requests <- OneRequest
  Tasks <- OneRequestTasks
  Subscribers = {"circadian"}
  ExternalTtl = 1
  BusCap = 2
  Ops = {"on", "set", "off", "pause", "snooze", "resume", "scene", "recall"}
  Ttl = 1
  QuietWindow = 0
  DedupWindow = 1
  QueueCap = 1
  OutCap = 2
  Overlaps = FALSE
  ReportCap = 2
  MaxTime = 1
  MaxRequests = 3
  MaxRecalls = 1
  MaxExternal = 1
  MaxReturns = 1
  MaxOutages = 1
  MaxEvents = 3
  Unpaired = {}
SPECIFICATION Spec
INVARIANTS
  RecordSound
  RequestHonoured
  ConnectionKnown
PROPERTIES
  PushesOnlyLitLights
CHECK_DEADLOCK FALSE
