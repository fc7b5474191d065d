\* Frames after noise and damage, the line cut into reads of one byte, four, or
\* all it can hold; a buffer that overflows, and resets.
CONSTANTS
  Base = 8
  SizeBase = 256
  SEPARATOR_POST_BYTE = 2
  FRAME_HEADER_SIZE = 5
  MAX_FRAME_SIZE = 5
  USE_CRC_MASK = 4
  Crc <- MCCrc
  Capacity = 12
  Lines <- MCLines
  Counts = {1, 4, 12}
  FRAME_TIMEOUT = 1
  MaxAge = 1
  LastReset = 5
SPECIFICATION FairSpec
INVARIANTS
  TypeOK
  PositionsAgree
  FoundOnTheLine
  NothingMissed
  NothingHeldBack
  FoundInTime
PROPERTIES
  LoopEnds
CHECK_DEADLOCK FALSE
