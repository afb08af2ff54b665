SPECIFICATION FairSpec
CONSTANTS
  AdminBlocks = {3, 4, 5}
  SpaceBlock = 3
  Occupied = {3, 5}
  Freeable = {4}
  Contents = {Cleared, c1}
  Cleared = Cleared
  None = None
  FailAfterFree = FALSE
INVARIANTS TypeOK LatestIsLatest CacheBufferRules WholeLogSurvivesCrash
PROPERTIES ImplementsAtomicVolume IsFlushed
