SPECIFICATION Spec
CONSTANTS
  NumElems = 4
  Prices = {1, 2, 3, 4}
  MaxCrossings = 1
  Null = Null
INVARIANTS
  ListsHoldLevels
  BackLinksMirror
  PoolExhaustedOnlyWhenFull
CHECK_DEADLOCK FALSE
