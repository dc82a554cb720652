CONSTANTS
  None = None
  white = white
  colour = colour
  bulb = bulb
  stranger = stranger
  Lights <- AllLights
  Day = 12
  EaseSteps = 3
  Ease <- EaseTable
  Setups <- SomeSetups
  RxCap = 2
SPECIFICATION Spec
INVARIANTS
  CommandsSound
  LightsAtTheirOwn
  ScheduleAsWritten
  AlarmsAsWritten
PROPERTIES
  NoSwing
  NoJumpByDay
CHECK_DEADLOCK FALSE
