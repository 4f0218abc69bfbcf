SPECIFICATION SyncSpec
CONSTANTS
 File = {f}
 Nothing = Nothing
 MaxMishaps = 1
INVARIANT SyncPausesOnConflict
CHECK_DEADLOCK FALSE
