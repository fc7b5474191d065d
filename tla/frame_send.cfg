\* What send_data writes, up to the 255 bytes its sizes can count.
CONSTANTS
  Base = 256
  SizeBase = 256
  SEPARATOR_POST_BYTE = 85
  FRAME_HEADER_SIZE = 10
  MAX_FRAME_SIZE = 241
  USE_CRC_MASK = 64
  Crc <- MCCrc
  Frames <- MCFrames
SPECIFICATION SenderSpec
INVARIANTS
  SuccessIsAFrame
CHECK_DEADLOCK FALSE
