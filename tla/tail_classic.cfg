SPECIFICATION Spec
CONSTANTS
  a = a
  nl = nl
  Text = {a}
  Newline = nl
  Chunk <- LinesAndParts
  Kinds = {FALSE}
  BufferSize = 3
  ChannelCap = 1
  MaxBytes = 3
  MaxFiles = 1
  MaxTruncs = 1
INVARIANTS
  TypeOK
  TextIsFile
PROPERTIES
  HandsOverInOrder
CHECK_DEADLOCK FALSE
