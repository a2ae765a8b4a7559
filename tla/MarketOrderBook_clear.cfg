SPECIFICATION Spec
CONSTANTS
  Prices = {1, 2, 3}
  Quantities = {1, 2}
  MaxOrders = 3
  MaxClears = 1
INVARIANTS
  BookMirrorsFeed
