CONSTANTS
  BufSize = 2
  ReadSize = 1
  MaxStream = 3
  ShortWrites = FALSE
  SubmitFails = FALSE
  TBufSize = 6
  TMaxStream = 7
  Levels = {53, 100}
  Garbage = 300
  Ports = {"spark", "azbox", "pc", "raspi", "triple"}
  Timeouts = {0, 1000}
  Wishes <- MCWishes
  Sections <- MCSections
SPECIFICATION MCSpec
INVARIANTS
  RunOutWritesAll
