CONSTANTS
  MaxStarts = 2
  MaxSeeks = 2
  Modes = {"letterbox", "panscan"}
  Outputs = {"RGBC", "YBR"}
  MaxCalls = 3
SPECIFICATION MCSpec
CHECK_DEADLOCK FALSE
INVARIANTS
  TypesOK
  ReleasedInOrder
  OnePlace
  ScreenFollows
PROPERTIES
  CallsReturn
