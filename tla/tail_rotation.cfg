SPECIFICATION FairSpec
CONSTANTS
  a = a
  nl = nl
  Text = {a}
  Newline = nl
  Chunk <- WholeLines
  Kinds = {FALSE, TRUE}
  BufferSize = 3
  ChannelCap = 1
  MaxBytes = 2
  MaxFiles = 2
  MaxTruncs = 1
INVARIANTS
  ReadIsFile
  AtRestAllRead
PROPERTIES
  NoSpuriousReset
  HandsOverInOrder
  QueueDrains
  LetsGoOfOldFile
  StoppedTailEnds
CHECK_DEADLOCK FALSE
