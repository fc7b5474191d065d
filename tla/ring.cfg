\* The ring is a queue of bytes.
CONSTANTS
  Byte = {0, 1}
  Capacity = 3
  Chunks <- MCChunks
  Sizes <- MCSizes
SPECIFICATION Spec
INVARIANTS
  EmptyMeansCaughtUp
PROPERTIES
  IsByteQueue
