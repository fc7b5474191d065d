\* Two alarms of different bytes and the one start_alarm refuses; intervals in the
\* order of the code's: short 300 ms, cooldown 400, answer timeout 1000, long 5000.
CONSTANTS
  HON_ALARM_COUNT = 51
  ALARM_BUF_SIZE = 8
  SizeOfSizeT = 8
  Draw = {0, 1, 49}
  Watched = 2
  ShortInterval = 1
  Cooldown = 2
  AnswerTimeout = 3
  LongInterval = 6
  MaxBurst = 1
  NoMessage = NoMessage
  Horizon = 8
SPECIFICATION Spec
INVARIANTS
  TypeOK
  ReportedInTime
  SilencedOnlyByPeer
PROPERTIES
  StopFollowsEmptyReport
