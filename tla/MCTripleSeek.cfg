CONSTANTS
  MaxStarts = 1
  MaxSeeks = 1
SPECIFICATION Spec
CHECK_DEADLOCK FALSE
INVARIANTS
  SeekWhilePaused
