\* Two messages, one of which cannot be written; handlers that take time and send;
\* an answer time shorter and longer than the retry interval, changed at any time.
CONSTANTS
  m1 = m1
  m2 = m2
  f1 = f1
  NoMessage = NoMessage
  Message <- TwoMessages
  Unsendable = {m2}
  Frame <- OneFrame
  MAX_PACKET_RETRIES = 1
  Repeats = {2}
  RetryIntervals = {3}
  AnswerTimeouts = {1, 4}
  CooldownIntervals = {0, 2}
  HandlerTime = 1
  WriteTime = 0
  MaxBurst = 2
  MaxIncoming = 2
  Horizon = 6
SPECIFICATION FairSpec
INVARIANTS
  TypeOK
  AwaitsTheOldest
  TriesAddUp
PROPERTIES
  DropsOnlyUnsendable
  CooldownRespected
  PatientWithPeer
  AnswersInTime
  ImplementsQueue
  QueueDrains
