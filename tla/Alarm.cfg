CONSTANTS
  None = None
  Levels <- SixLevels
  r1 = r1
  p1 = p1
  Rooms <- OneRoom
  Presses <- OnePress
  Tasks <- AlarmTasks
  Subscribers = {"circadian", "night"}
  ExternalTtl = 1
  QuietWindow = 0
  DedupWindow = 1
  QueueCap = 1
  BusCap = 2
  OutCap = 1
  ReportCap = 2
  TurnOnWhenOff = TRUE
  Day = 6
  Window = {4, 5, 0, 1}
  Wake = 2
  CatchUp = 0
  Stale = 0
  FirstTick = 4
  Overlaps = FALSE
  MaxTime = 5
  MaxEvents = 1
  MaxUpsets = 1
  LightsOutRooms <- OneRoom
  LightsOutAt = 4
  Alarms <- TwoAlarms
  Settings <- SomeSettings
  Ops = {"set", "off", "resume", "scene", "recall"}
SPECIFICATION AlarmSpec
INVARIANTS
  AlarmSound
  FadesIn
  LightsOutDarkens
PROPERTIES
  FadeYields
  RingsOnce
CHECK_DEADLOCK FALSE
