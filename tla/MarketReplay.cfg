SPECIFICATION FairSpec
CONSTANTS
  Formats = {"lobster", "binance-aggtrades"}
  LobsterIds = {101, 102}
  Prices = {1, 2}
  Sizes = {0, 1}
  MaxRows = 5
  MaxSlots = 2
  MaxOid = 3
  Mark = 1
INVARIANTS
  OnlyLiveOrders
  BookFollowsRows
PROPERTIES
  ReplayFinishes
CHECK_DEADLOCK FALSE
