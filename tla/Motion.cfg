CONSTANTS
  None = None
  Levels <- FourLevels
  r1 = r1
  r2 = r2
  w1 = w1
  w2 = w2
  w3 = w3
  Rooms <- TwoRooms
  Workers <- ThreeWorkers
  Tasks <- ThreeWorkerTasks
  Subscribers = {"automation"}
  ExternalTtl = 1
  QuietWindow = 0
  DedupWindow = 1
  OutCap = 1
  Setups <- GatedOrScheduled
  MaxMotion = 3
  MaxTouches = 1
  QueueCap = 1
  BusCap = 3
  MotionTimeout = 1
  NightTimeout = 1
  ReportCap = 2
SPECIFICATION Spec
SYMMETRY WorkerSymmetry
INVARIANTS
  RecordSound
  OccupancyRecorded
  MotionEndsTimer
PROPERTIES
  NeverSwitchesOffOccupied
CHECK_DEADLOCK FALSE
