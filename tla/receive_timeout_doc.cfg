\* A frame cut short, and time.
CONSTANTS
  Base = 8
  SizeBase = 256
  SEPARATOR_POST_BYTE = 2
  FRAME_HEADER_SIZE = 5
  MAX_FRAME_SIZE = 5
  USE_CRC_MASK = 4
  Crc <- MCCrc
  Capacity = 40
  Lines <- MCPartialLines
  Counts = {1, 40}
  FRAME_TIMEOUT = 1
  MaxAge = 2
  LastReset = 0
SPECIFICATION Spec
PROPERTIES
  OldPartialFrameDropped
CHECK_DEADLOCK FALSE
