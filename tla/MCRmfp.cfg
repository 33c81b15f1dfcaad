SPECIFICATION MCSpec
CONSTANTS
  Params <- MCParams
  Streams = 1
  MaxCount = 2
  Speeds <- MCSpeeds
  Keys = {1, 2}
  Unknown = 0
INVARIANTS
  TypesOK
  AnswerIsOwn
  DevicesHandedOver
  InputFollows
PROPERTIES
  CallsTakeEffect
CHECK_DEADLOCK FALSE
