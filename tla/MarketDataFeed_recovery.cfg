SPECIFICATION FairSpec
CONSTANTS
  ReplayModes = {TRUE, FALSE}
  MaxUpdates = 3
  MaxFaults = 2
INVARIANTS
  BookAtSequence
PROPERTIES
  NeverGoesBack
  RecoveryEnds
CHECK_DEADLOCK FALSE
