SPECIFICATION Spec
CONSTANTS
  rec = rec
  sec = sec
  Demuxes = {rec, sec}
  Backends = {"spark", "azbox", "pc", "raspi", "triple"}
  Num <- MCNum
  Uses <- MCUses
  Recorders = {rec}
  Readers = {sec}
  Sources = {0, 1}
  Apids = {11, 12}
  VideoPid = 10
  MaxFd = 5
  MaxListed = 2
INVARIANTS
  TypeOK
  StreamsAccounted
PROPERTIES
  FiltersAreRight
  DestructorEnds
CHECK_DEADLOCK FALSE
