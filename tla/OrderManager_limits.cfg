SPECIFICATION FairSpec
CONSTANTS
  Algos = {"MAKER", "TAKER"}
  Prices = {1, 2}
  Clip = 2
  MaxOrderSize = 2
  MaxPosition = 3
  MaxOrders = 4
INVARIANTS
  ExposureWithinLimit
  NoStaleResponse
  QuiescentAgreement
PROPERTIES
  PendingResolves
