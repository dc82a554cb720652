CONSTANTS
  d1 = d1
  d2 = d2
  a = a
  b = b
  c = c
  Ieee <- Devices
  Name <- ThreeNames
  NoName = NoName
  NoIeee = NoIeee
  DeviceList = DeviceList
  PendingCap = 1
  QueueCap = 2
  NameReuse = FALSE
  MaxChanges = 2
SPECIFICATION FairSpec
INVARIANTS
  IInv
  IndexMatchesDevices
  EventsFollowStore
  ConvergesToNetwork
PROPERTIES
  EventuallySettled
CHECK_DEADLOCK FALSE
