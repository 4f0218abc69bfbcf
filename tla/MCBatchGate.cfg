SPECIFICATION Spec
CONSTANTS
  Branch = {main, feature}
  Detached = {}
  Call = {c1}
  Holder = {pull}
  None = None
  Free = Free
  NoFile = NoFile
  Undefined = Undefined
  Idle = Idle
  FinalNewline = TRUE
  MayLack = {feature}
  MaxEdits = 1
  MaxGit = 2
  MaxHolds = 0
  MaxFailures = 1
INVARIANTS TypeOK BranchIsolation DraftReturns
CHECK_DEADLOCK FALSE
