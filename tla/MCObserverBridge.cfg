SPECIFICATION ObserverSpec
CONSTANTS
  Piece = {p1, p2, p3}
  MaxSyncFaults = 1
INVARIANT NoContentLoss
