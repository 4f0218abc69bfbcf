SPECIFICATION Spec
CONSTANTS
  Branch = {main, feature}
  Detached = {feature}
  Call = {c1, c2}
  Holder = {pull}
  None = None
  Free = Free
  NoFile = NoFile
  Undefined = Undefined
  Idle = Idle
  FinalNewline = TRUE
  MayLack = {}
  MaxEdits = 1
  MaxGit = 1
  MaxHolds = 1
  MaxFailures = 0
CHECK_DEADLOCK FALSE
PROPERTIES GateReopens StoresDrain EventsDrain HeadFollowed
