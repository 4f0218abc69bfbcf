SPECIFICATION FairSpec
CONSTANTS
  Writer = {agent}
  NoEntry = NoEntry
  NoTree = NoTree
  NoParent = NoParent
  Service = Service
  agent = agent
  MaxContributions = 0
  MaxStores = 2
  MaxFailures = 1
  MaxBatches = 1
  MaxSaves = 1
  MaxStops = 0
INVARIANTS TypeOK CommitIsWhole NoLostCommit
PROPERTIES VersionsReachHistory
CHECK_DEADLOCK FALSE
