\* Data of 233 bytes with twelve separators and more.
CONSTANTS
  Base = 256
  SizeBase = 256
  SEPARATOR_POST_BYTE = 85
  FRAME_HEADER_SIZE = 10
  MAX_FRAME_SIZE = 241
  USE_CRC_MASK = 64
  Crc <- MCCrc
  Frames <- MCLargeFrames
SPECIFICATION SenderSpec
INVARIANTS
  EveryPayloadIsSent
CHECK_DEADLOCK FALSE
