SPECIFICATION Spec
CONSTANTS
  Followed = {"set_point", "ac_power", "quiet_mode", "health_mode", "self_cleaning_status"}
  Values = {1, 300}
  Groups <- MCGroups
INVARIANTS
  TypeOK
  NothingElseChanges
  PairingOffered
PROPERTIES
  AnswerShowsRequest
  LossNeedsOneByte
