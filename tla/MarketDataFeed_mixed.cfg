SPECIFICATION Spec
CONSTANTS
  ReplayModes = {FALSE}
  MaxUpdates = 3
  MaxFaults = 3
INVARIANTS
  BookAtSequence
