SPECIFICATION FairSpec
CONSTANTS
  c1 = c1
  c2 = c2
  c3 = c3
  Unset = Unset
  Client <- OneClient
  ClassicTag = {"s"}
  DynamicTag = {"d"}
  Instance = {"i"}
  UnknownName <- Nowhere
  SendCap = 1
  MaxEvents = 2
  MaxRequests = 2
  MaxBoots = 2
PROPERTIES
  HubReturnsToSelect
  GoroutinesEnd
  ResetReturns
CHECK_DEADLOCK FALSE
