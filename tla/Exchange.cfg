SPECIFICATION ExchangeFairSpec
CONSTANTS
  Clients = {c1, c2}
  OrderIds = {1}
  Prices = {1, 2, 3}
  Quantities = {0, 1, 2}
  ReuseIds = TRUE
  MaxOrders = 3
INVARIANTS
  NotCrossed
  LevelsConsistent
  PrioritiesFollowTime
  NoDanglingOrder
  SnapshotMirrorsBook
  LedgerExact
PROPERTIES
  PriceTimePriority
  RequestCompletes
