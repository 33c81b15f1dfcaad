CONSTANTS
  BufSize = 3
  ReadSize = 2
  MaxStream = 5
  ShortWrites = TRUE
  SubmitFails = TRUE
  TBufSize = 6
  TMaxStream = 7
  Levels = {53, 100}
  Garbage = 300
  Ports = {"spark", "azbox", "pc", "raspi", "triple"}
  Timeouts = {0, 1000}
  Wishes <- MCWishes
  Sections <- MCSections
SPECIFICATION MCSpec
INVARIANTS
  TypesOK
  NothingLost
  Unbroken
  DecodersFollow
PROPERTIES
  WriteOwnsBuffer
  StopReturns
  SectionsAreWanted
  CopySpec
