CONSTANTS
  g1 = g1
  g2 = g2
  g3 = g3
  lamp = lamp
  plug = plug
  a = a
  b = b
  None = None
  Groups = {g1, g2, g3}
  Plain = {g1, g2}
  Devices = {lamp, plug}
  Lights = {lamp}
  RoomIds = {a, b}
  RoomId <- ThreeNames
  Networks <- TwoNetworks
  Files <- OneOrNone
  Edited <- Kitchen
  QueueCap = 1
  BusCap = 2
  MaxChanges = 1
  MaxLosses = 1
  MaxFailures = 1
  MaxCrashes = 1
  MaxEdits = 1
  MaxEvents = 2
SPECIFICATION FairSpec
INVARIANTS
  IInv
PROPERTIES
  TakesNothingAway
  KeepsPromise
  GroupsGetListed
CHECK_DEADLOCK FALSE
