\* One side or the other sends, frames are lost, and a round trip is
\* longer or shorter than the answer timeout and the cooldown.
CONSTANTS
  m1 = m1
  m2 = m2
  n1 = n1
  d1 = d1
  NoMessage = NoMessage
  ModuleRequest <- TwoRequests
  ModuleNotice <- OneNotice
  DeviceRequest <- OneAsks
  Speakers = {{"module"}, {"device"}}
  MAX_PACKET_RETRIES = 1
  Repeats = {0, 1}
  AnswerTimeouts = {1, 2}
  CooldownIntervals = {1, 3}
  Delay = 1
  MaxLosses = 2
  Horizon = 4
SPECIFICATION Spec
INVARIANTS
  AnswersMatchWhenPrompt
PROPERTIES
  ExpiresOnlyByLoss
