CONSTANTS
  Threads = {t1}
  User = user
  MaxOpens = 1
SPECIFICATION Spec
INVARIANTS
  SoundReturns
