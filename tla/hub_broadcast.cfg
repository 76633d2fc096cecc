SPECIFICATION Spec
CONSTANTS
  c1 = c1
  c2 = c2
  c3 = c3
  Unset = Unset
  Client <- ThreeClients
  ClassicTag = {"s"}
  DynamicTag = {"d"}
  Instance = {"i"}
  UnknownName <- Nowhere
  SendCap = 1
  MaxEvents = 2
  MaxRequests = 1
  MaxBoots = 0
SYMMETRY Symmetry
PROPERTIES
  BroadcastExactlyOnce
CHECK_DEADLOCK FALSE
