CONSTANTS
  None = None
  Levels <- FourLevels
  r1 = r1
  r2 = r2
  w1 = w1
  w2 = w2
  w3 = w3
  Rooms <- OneRoom
  Workers <- TwoWorkers
  Tasks <- TwoWorkerTasks
  Subscribers = {"automation"}
  ExternalTtl = 1
  QuietWindow = 0
  DedupWindow = 1
  OutCap = 1
  Setups <- Prompt
  MaxMotion = 4
  MaxTouches = 0
  QueueCap = 1
  BusCap = 3
  MotionTimeout = 1
  NightTimeout = 2
  ReportCap = 2
SPECIFICATION FairSpec
PROPERTIES
  VacantRoomGoesDark
  OccupiedRoomIsLit
CHECK_DEADLOCK FALSE
