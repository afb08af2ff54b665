SPECIFICATION Spec
CONSTANTS
  AdminBlocks = {3, 4, 5}
  SpaceBlock = 3
  Occupied = {3, 4}
  Freeable = {5}
  Contents = {c1, c2}
  Cleared = Cleared
  None = None
  FailAfterFree = TRUE
INVARIANT GivenUpLeavesNothing
