SPECIFICATION Spec
CONSTANTS
  MaxBufs = 3
  t1 = t1
  t2 = t2
  Threads = {t1, t2}
  MaxFrames = 3
  MinNum <- MCMinNum
INVARIANTS
  TypeOK
PROPERTIES
  FramesInOrder
  StopEnds
CHECK_DEADLOCK FALSE
