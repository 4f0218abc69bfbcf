SPECIFICATION BridgeSpec
CONSTANTS
  Block = {b1, b2}
  MarkerBlock = m
  Slot = {s1}
  Undefined = Undefined
  NoFile = NoFile
  Idle = Idle
  Free = Free
  Unread = Unread
  MaxWrites = 2
  MaxFailures = 0
  MaxResets = 0
  MaxStops = 1
PROPERTIES ShutdownDrains
CHECK_DEADLOCK FALSE
