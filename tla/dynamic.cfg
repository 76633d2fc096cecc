SPECIFICATION FairBootSpec
CONSTANTS
  Paths <- TwoPaths
  IdOf <- TwoIds
  MaxAppear = 2
  ChannelCap = 1
  MaxRead = 2
  MaxReads = 2
INVARIANTS
  BootTypeOK
  OneTailPerInstance
  RebootsAreAnnounced
  StaleIsBounded
PROPERTIES
  PresentIsTailed
  OldBootFallsSilent
CHECK_DEADLOCK FALSE
