CONSTANTS
  None = None
  Levels <- FourLevels
  Scale <- FourSteps
  r1 = r1
  w1 = w1
  Rooms <- OneRoom
  Workers <- OneWorker
  Tasks <- OneWorkerTasks
  Subscribers = {"automation", "circadian"}
  ExternalTtl = 1
  QuietWindow = 0
  DedupWindow = 1
  OverrideTtl = 1
  TrustWindow = 1
  OutCap = 1
  QueueCap = 2
  BusCap = 3
  ReportCap = 2
  Overlaps = FALSE
  MaxTime = 3
  MaxPresses = 3
  MaxRepublished = 1
  MaxTouches = 1
  MaxOutages = 1
  MaxEvents = 3
SPECIFICATION Spec
INVARIANTS
  RecordSound
  PressHonoured
  StepsFromWhatIsSeen
  RampHasSession
CHECK_DEADLOCK FALSE
