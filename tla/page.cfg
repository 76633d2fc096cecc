SPECIFICATION Spec
CONSTANTS
  Kinds = {FALSE, TRUE}
  Cookies <- SomeCookies
  DefaultMax = 2
  SendCap = 2
  MaxLines = 3
  MaxTruncs = 1
  MaxBoots = 1
  MaxCuts = 1
  MaxChanges = 4
  MaxArchives = 3
  MaxTime = 2
INVARIANTS
  TypeOK
  ArchivesNewestFirst
  RowsBounded
  PageCatchesUp
  
  
  ResetDropsOne
CHECK_DEADLOCK FALSE
