SPECIFICATION Spec
CONSTANTS
  Writer = {agent, person}
  NoEntry = NoEntry
  NoTree = NoTree
  NoParent = NoParent
  Service = Service
  agent = agent
  person = person
  MaxContributions = 2
  MaxStores = 0
  MaxFailures = 1
  MaxBatches = 0
  MaxSaves = 1
  MaxStops = 1
PROPERTIES AttributionKept
CHECK_DEADLOCK FALSE
