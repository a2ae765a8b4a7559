SPECIFICATION EquitySpec
CONSTANTS
  Prices = {1, 4}
  Quantities = {1, 2, 3}
  MaxPosition = 3
  MaxFills = 4
  InitialVwaps = {0, 1296}
  Scale = 1296
  Divisor = 6
  MaxSamples = 2
INVARIANTS
  ProfitIsCashPlusPosition
  SummaryOfTheCurve
CHECK_DEADLOCK FALSE
