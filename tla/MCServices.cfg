SPECIFICATION ServicesSpec
CONSTANTS
  Server = {s1, s2, s3}
  Reader = {r}
  NoLock = NoLock
  MaxAttempts = 2
  Moved = {d1, d2}
  Linker = {l}
  Absent = Absent
  Torn = Torn
  Closed = Closed
  NoJournal = NoJournal
  MaxTyped = 2
  MaxCrashes = 1
  MaxFaults = 1
  File = {f}
  Nothing = Nothing
  MaxMishaps = 1
  Piece = {p1, p2, p3}
  MaxSyncFaults = 1
  Document = {doc1, doc2}
  Agent = {agent1, agent2}
  Closing = {close1, close2}
  MaxSessions = 2
  MaxConnections = 3
  Instance = {i1, i2}
  Patcher = {w}
  Patch = {c1, c2}
  Defaults = Defaults
  Broken = Broken
  NoText = NoText
  Nobody = Nobody
  MaxTroubles = 1
INVARIANT ServicesTypeOK
INVARIANTS OneHolder
INVARIANTS AllOrNothing StoredTextKept
INVARIANTS SyncTypeOK MarkersStayHome PullLoopLives ConflictsCanBeResolved OffIsQuiet
INVARIANTS TypedReachesText SidesAgree
INVARIANTS NoneForgotten WithinCapacity AgentIsClosed
INVARIANTS DocumentsAgree UserPatchLands
PROPERTY PatchesStay
CHECK_DEADLOCK FALSE
SYMMETRY Renamings
