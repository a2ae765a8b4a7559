SPECIFICATION BacktestFairSpec
CONSTANTS
  Modes = {"AGGRESSIVE_ONLY", "QUEUE_AWARE"}
  BBOs <- MCBBOs
  Events <- MCEvents
  Priority_INVALID = 9
  Hidden = {1}
  Algos = {"MAKER", "TAKER"}
  Prices = {1, 2, 3}
  Clip = 2
  MaxOrderSize = 2
  MaxPosition = 4
  MaxOrders = 2
  MaxUpdates = 3
  IdlePolls = 1
  Rounds = 2
INVARIANTS
  PassiveFillsBehindQueue
  StopLosesNothing
PROPERTIES
  ImplementsOrderManager
  BacktestEnds
CHECK_DEADLOCK FALSE
