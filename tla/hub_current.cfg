SPECIFICATION Spec
CONSTANTS
  c1 = c1
  c2 = c2
  c3 = c3
  Unset = Unset
  Client <- TwoClients
  ClassicTag = {"s"}
  DynamicTag = {"d"}
  Instance = {"i"}
  UnknownName <- Nowhere
  SendCap = 1
  MaxEvents = 1
  MaxRequests = 1
  MaxBoots = 0
SYMMETRY Symmetry
INVARIANTS
  CurrentServerListsClient
CHECK_DEADLOCK FALSE
