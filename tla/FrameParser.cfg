SPECIFICATION ParserSpec
CONSTANTS
  Byte = 3
  Preamble <- SmallPreamble
  Commands = {1, 2}
  MinPacket = 5
  ReadMax = 2
  MaxBytes = 10
  MaxUnread = 3
INVARIANTS
  DecodedAsWhole
  BufferBounded
  IntactFrameAccepted
CHECK_DEADLOCK FALSE
