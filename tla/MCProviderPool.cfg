SPECIFICATION PoolSpec
CONSTANTS
  Doc = {page1, page2}
  Missing = Missing
  MaxKeystrokes = 1
  MaxTroubles = 2
SYMMETRY DocSymmetry
INVARIANTS ClientTypeOK NothingTwice RefusedIsRecovered PanelGoesAway
PROPERTY BufferedIsKept
CHECK_DEADLOCK FALSE
