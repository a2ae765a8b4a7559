SPECIFICATION FairSpec
CONSTANTS
  Clients = {c1, c2}
  StableUpTo = 1
  MaxPending = 2
  MaxRequests = 3
  MaxResponses = 2
  StrayNumbers = {1, 2}
  MaxFaults = 1
INVARIANTS
  RequestsOnceInOrder
  ResponsesInOrder
  NoSocketAssert
PROPERTIES
  SessionDelivers
CHECK_DEADLOCK FALSE
