SPECIFICATION Spec
CONSTANTS
  Tags <- TwoTags
  BadTags <- WrongTags
  Taken <- Longest
  Ids <- OneInstance
  Files <- ThreeFiles
  Archives <- ThreeArchives
  Undecodable <- WithPlus
  Typed <- TypedAddresses
  MaxServers = 2
INVARIANTS
  TypeOK
  CheckedLogsOpen
  ServingIsComplete
  OnlyDoublesPanic
  RedirectsEnd
  LinksLeadToTheirPage
CHECK_DEADLOCK FALSE
