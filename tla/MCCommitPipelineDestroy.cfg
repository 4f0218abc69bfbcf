SPECIFICATION Spec
CONSTANTS
  Writer = {agent}
  NoEntry = NoEntry
  NoTree = NoTree
  NoParent = NoParent
  Service = Service
  agent = agent
  MaxContributions = 0
  MaxStores = 2
  MaxFailures = 0
  MaxBatches = 0
  MaxSaves = 0
  MaxStops = 1
INVARIANTS DestroyCommitsAll
CHECK_DEADLOCK FALSE
