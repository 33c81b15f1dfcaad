SPECIFICATION MCSpec
CONSTANTS
  Lists <- MCLists
  MaxSize = 7
  Places <- MCPlaces
  Pkt = 2
  InBuf = 4
  PesBuf = 5
  Probe = 3
  Wrap = 12
  Bases <- MCBases
  GuessLimit = 2
  False <- MCFalse
INVARIANTS TypesOK StreamArrives TimeIsTrue
PROPERTY EndIsReached
CHECK_DEADLOCK FALSE
