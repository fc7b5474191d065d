SPECIFICATION FairSpec
CONSTANTS
  Builds = {TRUE, FALSE}
  SERIAL_BUFFER_SIZE = 2
  SOCKET_BUFFER_SIZE = 2
  SEND_BUFFER = 2
  MaxBytes = 3
  MaxKeys = 1
CHECK_DEADLOCK FALSE
INVARIANTS
  LostOnlyByWrites
PROPERTIES
  DeviceIsHeard
  EscExits
