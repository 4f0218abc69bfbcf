SPECIFICATION BridgeSpec
CONSTANTS
  Block = {b1, m}
  MarkerBlock = m
  Slot = {s1, s2}
  Undefined = Undefined
  NoFile = NoFile
  Idle = Idle
  Free = Free
  Unread = Unread
  MaxWrites = 3
  MaxFailures = 1
  MaxResets = 1
  MaxStops = 1
INVARIANTS TypeOK EditsReachDisk SettlesAlone
PROPERTIES NoEcho UnsavedSurvivesReconcile TypedTextLands
CHECK_DEADLOCK FALSE
