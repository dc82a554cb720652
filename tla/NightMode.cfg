CONSTANTS
  None = None
  Levels <- FourLevels
  r1 = r1
  p1 = p1
  Rooms <- OneRoom
  Presses <- OnePress
  Tasks <- OnePressTasks
  Subscribers = {"circadian", "night"}
  ExternalTtl = 1
  QuietWindow = 0
  DedupWindow = 1
  QueueCap = 1
  BusCap = 2
  OutCap = 1
  ReportCap = 2
  TurnOnWhenOff = TRUE
  Day = 4
  Window = {3, 0, 1}
  Wake = 1
  CatchUp = 0
  Stale = 0
  FirstTick = 3
  Overlaps = FALSE
  MaxTime = 4
  MaxEvents = 2
  MaxUpsets = 1
SPECIFICATION FairSpec
INVARIANTS
  NightSound
  NightAsAsked
PROPERTIES
  ScheduleKeepsDark
  NightEnds
CHECK_DEADLOCK FALSE
