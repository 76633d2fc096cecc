SPECIFICATION Spec
CONSTANTS
  c1 = c1
  c2 = c2
  c3 = c3
  Unset = Unset
  Client <- TwoClients
  ClassicTag = {"s"}
  DynamicTag = {"d"}
  Instance = {"i"}
  UnknownName <- Nowhere
  SendCap = 1
  MaxEvents = 2
  MaxRequests = 1
  MaxBoots = 1
SYMMETRY Symmetry
INVARIANTS
  TypeOK
  HubNeverPanics
  ConnectionAgreement
  ListsOwned
  OnlyAskedTopics
  OrderedDelivery
  WriterNeverStalls
PROPERTIES
  AcceptedIsKept
CHECK_DEADLOCK FALSE
